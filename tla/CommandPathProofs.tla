-------------------------- MODULE CommandPathProofs --------------------------
(* Proofs about CommandPath, for any models, ids, payloads and number of        *)
(* commands: what is written to an appliance is what was chosen, in that order,   *)
(* once.                                                                         *)
EXTENDS CommandPath, TLAPS

USE CommandAssumption

-----------------------------------------------------------------------------
(* The inductive invariant. *)

\* Commands go through the inbox and the job in the order of their numbers.
Pending ==
  /\ \A i \in DOMAIN inbox : inbox[i] <= Len(choices)
  /\ \A i, j \in DOMAIN inbox : i < j => inbox[i] < inbox[j]
  /\ job # Idle => /\ job.id <= Len(choices)
                   /\ \A i \in DOMAIN inbox : job.id < inbox[i]

\* What is written came before what is under way.
Written ==
  \A k \in DOMAIN sent :
    /\ sent[k].id <= Len(choices)
    /\ \A i \in DOMAIN inbox : sent[k].id < inbox[i]
    /\ job # Idle => sent[k].id < job.id

\* What is being sent is what its choice meant.
JobFits == job # Idle => /\ Fits(job, model, choices[job.id])
                         /\ job.found => allow

IInv == /\ TypeOK /\ Pending /\ Written /\ JobFits
        /\ CommandsFit /\ ChoicesInOrder

-----------------------------------------------------------------------------
(* The vocabulary. *)

\* An entity that a payload is not rejected for is a field of a Set action.
LEMMA EntityIsField ==
  ASSUME NEW m, NEW e \in AllEntities(m), NEW p, ToWire(e, p) # Reject
  PROVE  \E a \in m : \E f \in a.fields :
           /\ a.cmd /\ a.cmdOpt = "Set"
           /\ f.field = e.slug /\ f.wire = e.wire /\ f.options = e.options
<1>1. PICK a \in m : a.cmd /\ a.cmdOpt = "Set" /\ e \in Expand(a)
  BY DEF AllEntities
<1>2. e.wire # Button
  BY DEF ToWire
<1>3. a.fields # {}
  BY <1>1, <1>2 DEF Expand
<1>4. PICK f \in a.fields : e = [slug |-> f.field, wire |-> f.wire,
                                 options |-> f.options]
  BY <1>1, <1>3 DEF Expand
<1> QED
  BY <1>1, <1>4

\* What a payload is turned into is the value it is the label of.
LEMMA WireOfLabel ==
  ASSUME NEW e, NEW p, ToWire(e, p) # Reject
  PROVE  IF DOMAIN e.options = {} THEN ToWire(e, p) = p /\ p # ""
         ELSE /\ ToWire(e, p) \in DOMAIN e.options
              /\ e.options[ToWire(e, p)] = p
<1> DEFINE w == {v \in DOMAIN e.options : e.options[v] = p}
<1>1. CASE DOMAIN e.options = {}
  BY <1>1 DEF ToWire
<1>2. CASE DOMAIN e.options # {}
  <2>1. w # {} /\ ToWire(e, p) = CHOOSE v \in w : TRUE
    BY <1>2 DEF ToWire
  <2>2. (CHOOSE v \in w : TRUE) \in w
    BY <2>1
  <2> QED
    BY <1>2, <2>1, <2>2
<1> QED
  BY <1>1, <1>2

\* A field of the model has its wire key and its values among those of all.
LEMMA FieldInRange ==
  ASSUME NEW m \in Models \cup {NoModel}, NEW a \in m, NEW f \in a.fields
  PROVE  f.wire \in Wires /\ DOMAIN f.options \subseteq Values
<1>1. m \in Models
  BY DEF NoModel
<1>2. f \in Fields
  BY <1>1 DEF Fields
<1> QED
  BY <1>2 DEF Wires, Values

\* What shows that a written command fits.
LEMMA FieldFits ==
  ASSUME NEW m, NEW a \in m, NEW f \in a.fields, NEW c, NEW s,
         a.cmd, a.cmdOpt = "Set", f.field = c.slug, f.wire = s.wire,
         IF DOMAIN f.options = {} THEN s.value = c.payload /\ s.value # ""
         ELSE s.value \in DOMAIN f.options /\ f.options[s.value] = c.payload
  PROVE  Fits(s, m, c)
BY DEF Fits

\* It matters only what is written.
LEMMA SameFits ==
  ASSUME NEW m, NEW c, NEW s, NEW t, Fits(s, m, c),
         t.wire = s.wire, t.value = s.value
  PROVE  Fits(t, m, c)
BY DEF Fits

-----------------------------------------------------------------------------
(* The steps. *)

\* What was written has an id.
LEMMA SentType == ASSUME TypeOK, NEW k \in DOMAIN sent PROVE sent[k] \in Sendings
<1>1. sent \in Seq(Sendings)
  BY DEF TypeOK
<1> QED
  BY <1>1

\* Nothing is under way and nothing was written.
LEMMA InitHolds == Init => IInv
<1> SUFFICES ASSUME Init PROVE IInv
  OBVIOUS
<1>1. allow \in BOOLEAN /\ library \in {"paho", "tests"}
  BY LibrariesAssumption DEF Init
<1>2. /\ inbox \in Seq(Nat \ {0}) /\ choices \in Seq(Choices)
      /\ sent \in Seq(Sendings)
  BY DEF Init
<1>3. TypeOK
  BY <1>1, <1>2 DEF Init, TypeOK
<1> QED
  BY <1>3 DEF Init, IInv, Pending, Written, JobFits, CommandsFit,
              ChoicesInOrder

\* The steps of the payloads' thread, the broker and the channel touch nothing
\* that the order and the meaning of commands depend on.
LEMMA OtherSteps ==
  ASSUME IInv, TypeOK', UNCHANGED <<model, allow, pahoVars, history>>
  PROVE  IInv'
BY DEF IInv, Pending, Written, JobFits, CommandsFit, ChoicesInOrder,
       pahoVars, history

\* A payload's thread.
LEMMA IngestStep == ASSUME IInv, Ingest PROVE IInv'
<1>1. TypeOK'
  <2>1. ASSUME NEW d \in Ids, Payload(d) PROVE TypeOK'
    BY <2>1 DEF IInv, TypeOK, Payload, modelVars, brokerVars, sinkVars, pahoVars,
                history
  <2>2. ASSUME Ensure PROVE TypeOK'
    BY <2>2 DEF IInv, TypeOK, Ensure, modelVars, brokerVars, pahoVars, history
  <2>3. ASSUME Route PROVE TypeOK'
    BY <2>3 DEF IInv, TypeOK, Route, modelVars, brokerVars, pahoVars, history
  <2>4. ASSUME Announce PROVE TypeOK'
    BY <2>4 DEF IInv, TypeOK, Announce, modelVars, brokerVars, pahoVars, history
  <2> QED
    BY <2>1, <2>2, <2>3, <2>4 DEF Ingest
<1>2. UNCHANGED <<model, allow, pahoVars, history>>
  BY DEF Ingest, Payload, Ensure, Route, Announce, modelVars
<1> QED
  BY <1>1, <1>2, OtherSteps

\* The broker's connection and the channel's registry.
LEMMA LinkStep ==
  ASSUME IInv,
         Drop \/ Reconnect \/ \E d \in Devices : Register(d) \/ Leave(d)
  PROVE  IInv'
<1>1. TypeOK'
  BY DEF IInv, TypeOK, Drop, Reconnect, Register, Leave, modelVars, brokerVars,
         sinkVars, ownVars, pahoVars, history
<1>2. UNCHANGED <<model, allow, pahoVars, history>>
  BY DEF Drop, Reconnect, Register, Leave, modelVars
<1> QED
  BY <1>1, <1>2, OtherSteps

\* A command that is chosen is the newest of all: it goes behind those that are
\* under way, or is gone, and was not written before.
LEMMA ChooseStep ==
  ASSUME IInv, NEW s \in Topics, NEW p \in Payloads, Choose(s, p)
  PROVE  IInv'
<1> DEFINE n == Len(choices) + 1
<1>1. /\ choices' = Append(choices, [slug |-> s, payload |-> p])
      /\ choices \in Seq(Choices)
  BY DEF IInv, TypeOK, Choose
<1>2. Len(choices') = n /\ n \in Nat \ {0} /\ Len(choices) \in Nat
  BY <1>1
<1>3. \A i \in 1 .. Len(choices) : choices'[i] = choices[i]
  BY <1>1
<1>4. UNCHANGED <<model, allow, job, sent>>
  BY DEF Choose, modelVars
<1>5. inbox' = Append(inbox, n) \/ inbox' = inbox
  BY DEF Choose
<1>6. TypeOK'
  <2>1. choices' \in Seq(Choices)
    <3>1. [slug |-> s, payload |-> p] \in Choices
      BY DEF Choices
    <3> QED
      BY <1>1, <3>1
  <2>2. inbox' \in Seq(Nat \ {0})
    <3>1. inbox \in Seq(Nat \ {0})
      BY DEF IInv, TypeOK
    <3>2. Append(inbox, n) \in Seq(Nat \ {0})
      BY <3>1, <1>2
    <3> QED
      BY <3>1, <3>2, <1>5
  <2> QED
    BY <2>1, <2>2
       DEF IInv, TypeOK, Choose, modelVars, brokerVars, sinkVars, ownVars
<1>7. Pending'
  <2>1. job' # Idle => job'.id \in Nat
    BY <1>6 DEF TypeOK, Jobs
  <2>2. CASE inbox' = Append(inbox, n)
    <3>1. /\ DOMAIN inbox' = 1 .. Len(inbox) + 1 /\ inbox'[Len(inbox) + 1] = n
          /\ \A i \in DOMAIN inbox : inbox'[i] = inbox[i]
          /\ DOMAIN inbox = 1 .. Len(inbox) /\ Len(inbox) \in Nat
          /\ \A i \in DOMAIN inbox : inbox[i] \in Nat
      BY <2>2, <1>2 DEF IInv, TypeOK
    <3> QED
      BY <2>1, <2>2, <3>1, <1>2, <1>4 DEF IInv, Pending
  <2>3. CASE inbox' = inbox
    <3>1. \A i \in DOMAIN inbox : inbox[i] \in Nat
      BY DEF IInv, TypeOK
    <3> QED
      BY <2>1, <2>3, <3>1, <1>2, <1>4 DEF IInv, Pending
  <2> QED
    BY <1>5, <2>2, <2>3
<1>8. ASSUME NEW k \in DOMAIN sent
      PROVE  sent[k].id \in Nat \ {0} /\ sent[k].id <= Len(choices)
  BY SentType DEF IInv, Written, Sendings
<1>9. Written'
  <2>1. CASE inbox' = Append(inbox, n)
    <3>1. \A i \in DOMAIN inbox' :
            inbox'[i] = n \/ (i \in DOMAIN inbox /\ inbox'[i] = inbox[i])
      BY <2>1, <1>2 DEF IInv, TypeOK
    <3> QED
      BY <3>1, <1>2, <1>4, <1>8 DEF IInv, Written
  <2>2. CASE inbox' = inbox
    BY <2>2, <1>2, <1>4, <1>8 DEF IInv, Written
  <2> QED
    BY <1>5, <2>1, <2>2
<1>11. JobFits' /\ CommandsFit'
  <2>1. job # Idle => job.id \in 1 .. Len(choices)
    BY DEF IInv, Pending, TypeOK, Jobs
  <2> QED
    BY <2>1, <1>2, <1>3, <1>4, <1>8 DEF IInv, JobFits, CommandsFit
<1>12. ChoicesInOrder'
  BY <1>4 DEF IInv, ChoicesInOrder
<1> QED
  BY <1>6, <1>7, <1>9, <1>11, <1>12 DEF IInv

\* A restart forgets what is under way and leaves what was written.
LEMMA RestartStep == ASSUME IInv, Restart PROVE IInv'
<1>1. /\ inbox' = <<>> /\ job' = Idle
      /\ UNCHANGED <<model, allow, choices, sent>>
  BY DEF Restart, modelVars
<1>2. TypeOK'
  <2>1. inbox' \in Seq(Nat \ {0})
    BY <1>1
  <2> QED
    BY <2>1 DEF IInv, TypeOK, Restart, modelVars
<1>3. Pending' /\ Written' /\ JobFits'
  BY <1>1 DEF IInv, Pending, Written, JobFits
<1>4. CommandsFit' /\ ChoicesInOrder'
  BY <1>1 DEF IInv, CommandsFit, ChoicesInOrder
<1> QED
  BY <1>2, <1>3, <1>4 DEF IInv

\* The oldest command of the inbox becomes the job, with the value its payload
\* is the label of, or is ignored.
LEMMA HandleStep == ASSUME IInv, Handle PROVE IInv'
<1> DEFINE n == Head(inbox)
           c == choices[n]
<1>1. /\ inbox \in Seq(Nat \ {0}) /\ inbox # <<>> /\ job = Idle
      /\ inbox' = Tail(inbox)
      /\ UNCHANGED <<model, allow, choices, sent>>
  BY DEF IInv, TypeOK, Handle, modelVars, history
<1>2. /\ n = inbox[1] /\ 1 \in DOMAIN inbox /\ n \in Nat \ {0}
      /\ \A i \in DOMAIN inbox' : /\ i + 1 \in DOMAIN inbox
                                  /\ inbox'[i] = inbox[i + 1] /\ 1 < i + 1
                                  /\ inbox[i + 1] \in Nat \ {0}
  BY <1>1
<1>3. n <= Len(choices)
  BY <1>2 DEF IInv, Pending
<1>4. c \in Choices
  <2>1. choices \in Seq(Choices)
    BY DEF IInv, TypeOK
  <2> QED
    BY <1>2, <1>3, <2>1
<1>5. \/ job' = Idle
      \/ \E e \in entities :
           /\ e.slug = c.slug /\ route # NoId /\ ToWire(e, c.payload) # Reject
           /\ job' = [id |-> n, dev |-> route, wire |-> e.wire,
                      value |-> ToWire(e, c.payload), found |-> FALSE]
  BY <1>1 DEF Handle
<1>6. ASSUME NEW e \in entities, e.slug = c.slug, route # NoId,
             ToWire(e, c.payload) # Reject,
             job' = [id |-> n, dev |-> route, wire |-> e.wire,
                     value |-> ToWire(e, c.payload), found |-> FALSE]
      PROVE  /\ job' \in Jobs /\ Fits(job', model, c)
             /\ ~job'.found /\ job'.id = n
  <2>1. e \in AllEntities(model) /\ model \in Models \cup {NoModel}
    BY DEF IInv, TypeOK
  <2> PICK a \in model : \E f \in a.fields :
          /\ a.cmd /\ a.cmdOpt = "Set"
          /\ f.field = e.slug /\ f.wire = e.wire /\ f.options = e.options
    BY <1>6, <2>1, EntityIsField
  <2>2. PICK f \in a.fields :
          /\ a.cmd /\ a.cmdOpt = "Set"
          /\ f.field = e.slug /\ f.wire = e.wire /\ f.options = e.options
    OBVIOUS
  <2>3. f.wire \in Wires /\ DOMAIN f.options \subseteq Values
    BY <2>1, FieldInRange
  <2>4. IF DOMAIN f.options = {}
          THEN ToWire(e, c.payload) = c.payload /\ c.payload # ""
          ELSE /\ ToWire(e, c.payload) \in DOMAIN f.options
               /\ f.options[ToWire(e, c.payload)] = c.payload
    <3>1. IF DOMAIN e.options = {}
            THEN ToWire(e, c.payload) = c.payload /\ c.payload # ""
            ELSE /\ ToWire(e, c.payload) \in DOMAIN e.options
                 /\ e.options[ToWire(e, c.payload)] = c.payload
      BY <1>6, WireOfLabel
    <3> QED
      BY <2>2, <3>1
  <2>5. ToWire(e, c.payload) \in Values
    <3>1. c.payload \in Values
      BY <1>4 DEF Choices, Values
    <3> QED
      BY <2>3, <2>4, <3>1
  <2>6. route \in Ids
    BY <1>6 DEF IInv, TypeOK
  <2>7. job' \in Jobs
    BY <1>2, <1>6, <2>2, <2>3, <2>5, <2>6 DEF Jobs
  <2>8. Fits(job', model, c)
    <3>1. job'.wire = e.wire /\ job'.value = ToWire(e, c.payload)
      BY <1>6
    <3> QED
      BY <1>6, <2>2, <2>4, <3>1, FieldFits
  <2> QED
    BY <1>6, <2>7, <2>8
<1>7. \/ job' = Idle
      \/ /\ job' \in Jobs /\ Fits(job', model, c)
         /\ ~job'.found /\ job'.id = n
  BY <1>5, <1>6
<1>8. TypeOK'
  <2>1. inbox' \in Seq(Nat \ {0})
    BY <1>1
  <2> QED
    BY <1>7, <2>1 DEF IInv, TypeOK, Handle, modelVars, brokerVars, sinkVars,
                      ownVars, history
<1>9. Pending' /\ Written'
  BY <1>1, <1>2, <1>3, <1>7 DEF IInv, Pending, Written
<1>10. JobFits' /\ CommandsFit' /\ ChoicesInOrder'
  BY <1>1, <1>7 DEF IInv, JobFits, CommandsFit, ChoicesInOrder
<1> QED
  BY <1>8, <1>9, <1>10 DEF IInv

\* The lookup of the route changes nothing about the job but that it is found,
\* and only where commands are allowed.
LEMMA PushStep == ASSUME IInv, Push PROVE IInv'
<1>1. /\ job \in Jobs /\ job # Idle
      /\ job' = Idle \/ (allow /\ job' = [job EXCEPT !.found = TRUE])
      /\ UNCHANGED <<model, allow, inbox, choices, sent>>
  BY DEF IInv, TypeOK, Push, modelVars, history
<1>2. job' # Idle => /\ job' \in Jobs /\ allow /\ job'.id = job.id
                     /\ job'.wire = job.wire /\ job'.value = job.value
  BY <1>1 DEF Jobs
<1>3. TypeOK'
  BY <1>2 DEF IInv, TypeOK, Push, modelVars, brokerVars, sinkVars, ownVars,
              history
<1>4. Pending' /\ Written'
  BY <1>1, <1>2 DEF IInv, Pending, Written
<1>5. JobFits'
  <2>1. Fits(job, model, choices[job.id])
    BY <1>1 DEF IInv, JobFits
  <2>2. job' # Idle => Fits(job', model, choices[job.id])
    BY <1>2, <2>1, SameFits
  <2> QED
    BY <1>1, <1>2, <2>2 DEF JobFits
<1>6. CommandsFit' /\ ChoicesInOrder'
  BY <1>1 DEF IInv, CommandsFit, ChoicesInOrder
<1> QED
  BY <1>3, <1>4, <1>5, <1>6 DEF IInv

\* The job is written behind everything written before, or given up.
LEMMA SendStep == ASSUME IInv, Send PROVE IInv'
<1> DEFINE s == [id |-> job.id, dev |-> job.dev, wire |-> job.wire,
                 value |-> job.value]
<1>1. /\ job \in Jobs /\ job # Idle /\ job.found /\ job' = Idle
      /\ sent' = Append(sent, s) \/ sent' = sent
      /\ UNCHANGED <<model, allow, inbox, choices>>
  BY DEF IInv, TypeOK, Send, modelVars
<1>2. /\ s \in Sendings /\ allow /\ Fits(s, model, choices[s.id]) /\ s.id = job.id
      /\ s.id <= Len(choices)
  <2>1. s \in Sendings
    BY <1>1 DEF Jobs, Sendings
  <2>2. Fits(job, model, choices[job.id]) /\ allow
    BY <1>1 DEF IInv, JobFits
  <2>3. s.wire = job.wire /\ s.value = job.value /\ s.id = job.id
    OBVIOUS
  <2>4. Fits(s, model, choices[s.id])
    BY <2>2, <2>3, SameFits
  <2> QED
    BY <1>1, <2>1, <2>2, <2>3, <2>4 DEF IInv, Pending
<1>3. sent \in Seq(Sendings)
  BY DEF IInv, TypeOK
<1>4. ASSUME NEW k \in DOMAIN sent'
      PROVE  \/ k \in DOMAIN sent /\ sent'[k] = sent[k]
             \/ k = Len(sent) + 1 /\ sent' # sent /\ sent'[k] = s
  BY <1>1, <1>3
<1>5. TypeOK'
  <2>1. sent' \in Seq(Sendings)
    BY <1>1, <1>2, <1>3
  <2>2. reach' \subseteq Devices
    BY DEF IInv, TypeOK, Send
  <2> QED
    BY <1>1, <2>1, <2>2 DEF IInv, TypeOK, Send, modelVars, brokerVars, sinkVars, ownVars
<1>6. Pending' /\ JobFits'
  BY <1>1 DEF IInv, Pending, JobFits
<1>7. Written'
  BY <1>1, <1>2, <1>4 DEF IInv, Pending, Written
<1>8. CommandsFit'
  BY <1>1, <1>2, <1>4 DEF IInv, CommandsFit
<1>9. ChoicesInOrder'
  <2>1. \A k \in DOMAIN sent : k \in 1 .. Len(sent) /\ sent[k].id < s.id
    BY <1>1, <1>2, <1>3 DEF IInv, Written
  <2> QED
    BY <1>3, <1>4, <2>1 DEF IInv, ChoicesInOrder
<1> QED
  BY <1>5, <1>6, <1>7, <1>8, <1>9 DEF IInv

\* Every step keeps the invariant.
LEMMA StepHolds == IInv /\ [Next]_vars => IInv'
<1> SUFFICES ASSUME IInv, [Next]_vars PROVE IInv'
  OBVIOUS
<1>1. CASE OnMessage
  BY <1>1, HandleStep, PushStep, SendStep DEF OnMessage
<1>2. CASE World
  BY <1>2, ChooseStep, LinkStep, RestartStep DEF World
<1>3. CASE UNCHANGED vars
  <2>1. TypeOK'
    BY <1>3 DEF IInv, TypeOK, vars, modelVars, brokerVars, sinkVars, ownVars,
                pahoVars, history
  <2> QED
    BY <1>3, <2>1, OtherSteps DEF vars, modelVars
<1> QED
  BY <1>1, <1>2, <1>3, IngestStep DEF Next

\* The invariant holds always.
LEMMA Invariance == Spec => []IInv
BY InitHolds, StepHolds, PTL DEF Spec

-----------------------------------------------------------------------------
(* The theorems. *)

\* The types of the sink, the inbox and the histories.
THEOREM TypeCorrect == Spec => []TypeOK
<1>1. IInv => TypeOK
  BY DEF IInv
<1> QED
  BY <1>1, Invariance, PTL

\* For any models and payloads: what to_wire lets through to an appliance is the
\* wire value of the published label, of a field of a Set action of its model.
THEOREM CommandsAlwaysFit == Spec => []CommandsFit
<1>1. IInv => CommandsFit
  BY DEF IInv
<1> QED
  BY <1>1, Invariance, PTL

\* However the broker, the channel and the process come and go, commands are
\* written in the order they were chosen in, each once at most.
THEOREM ChoicesAlwaysInOrder == Spec => []ChoicesInOrder
<1>1. IInv => ChoicesInOrder
  BY DEF IInv
<1> QED
  BY <1>1, Invariance, PTL
=============================================================================
