------------------------ MODULE ControlChannelProofs ------------------------
(***************************************************************************)
(* Theorems about ControlChannel for any appliances, any number of          *)
(* connections and any number of threads: type correctness, that sends on a *)
(* connection exclude each other, that routes and pushes are sound, that    *)
(* the channel implements RoutingTable, and that no lock is abandoned, no   *)
(* command passes the gate and no bridged connection is touched.            *)
(***************************************************************************)
EXTENDS ControlChannel, TLAPS

\* A connection that has not been accepted has had no effect anywhere.
Unused ==
  \A c \in Conns : c > accepted =>
    /\ pc[c] = "idle" /\ connDev[c] = Unknown /\ peer[c] = "up"
    /\ \A k \in Keys : registry[k] # c
    /\ \A t \in Pushers : pconn[t] # c

\* dev_id is "unknown" until the connection names its own appliance.
OwnName == \A c \in Conns : connDev[c] \in {Unknown, owner[c]}

\* A pusher drops an entry only because its send could really fail.
DropReason == \A t \in Pushers : pstate[t] = "drop" => CanFail(pconn[t])

Sound == Unused /\ OwnName /\ RouteSound /\ PushOnOwnSocket /\ DropReason

\* The inductive invariant.
IInv == TypeOK /\ SendExclusion /\ Sound

-----------------------------------------------------------------------------
USE DEF NoConn, Conns, Keys, Pushers

\* Types: every action leaves every variable in its type.
LEMMA TypeStep == TypeOK /\ [Next]_vars => TypeOK'
<1> SUFFICES ASSUME TypeOK, [Next]_vars PROVE TypeOK'
  OBVIOUS
<1> USE BoundsAssumption, NamesAssumption
<1> USE DEF TypeOK, Kinds, Frames, HandlerStates, Goto, Unlock,
            connVars, netVars, pushVars
<1>1. ASSUME NEW d \in Devices, Connect(d) PROVE TypeOK'
  BY <1>1 DEF Connect
<1>2. ASSUME NEW c \in Conns, Vanish(c) PROVE TypeOK'
  BY <1>2 DEF Vanish
<1>21. ASSUME NEW c \in Conns, Stall(c) PROVE TypeOK'
  BY <1>21 DEF Stall
<1>3. ASSUME NEW c \in Conns, Speak(c) PROVE TypeOK'
  BY <1>3 DEF Speak
<1>4. ASSUME NEW c \in Conns, Bridge(c) PROVE TypeOK'
  <2>1. CASE inbox[c] > 0 /\ inbox' = [inbox EXCEPT ![c] = @ - 1]
             /\ UNCHANGED pc
    BY <1>4, <2>1 DEF Bridge
  <2>2. CASE Goto(c, "cleanup") /\ UNCHANGED inbox
    BY <1>4, <2>2 DEF Bridge
  <2> QED
    BY <1>4, <2>1, <2>2 DEF Bridge
<1>5. ASSUME NEW c \in Conns, Hello(c) PROVE TypeOK'
  <2>1. /\ \E f \in {"raw", "tls"} : family' = [family EXCEPT ![c] = f]
        /\ \E s \in {"recv", "bridged"} : pc' = [pc EXCEPT ![c] = s]
        /\ UNCHANGED <<registry, connDev, cur, netVars, locked, pushVars>>
    BY <1>5, FamiliesAssumption DEF Hello
  <2> QED
    BY <2>1
<1>6. ASSUME NEW c \in Conns, Receive(c) PROVE TypeOK'
  <2>1. /\ inbox' \in [Conns -> 0 .. MaxInbox]
        /\ connDev' \in [Conns -> Keys]
    BY <1>6 DEF Receive
  <2>2. connDev'[c] \in Keys
    BY <2>1
  <2>3. registry' \in [Keys -> Conns \cup {NoConn}]
    BY <1>6, <2>2 DEF Receive
  <2>4. cur' \in [Conns -> Kinds]
    BY <1>6, <2>2 DEF Receive
  <2>5. pc' \in [Conns -> HandlerStates]
    BY <1>6, <2>2 DEF Receive
  <2> QED
    BY <1>6, <2>1, <2>3, <2>4, <2>5 DEF Receive
<1>7. ASSUME NEW c \in Conns, HangUp(c) PROVE TypeOK'
  BY <1>7 DEF HangUp
<1>8. ASSUME NEW c \in Conns, TakeLock(c) PROVE TypeOK'
  BY <1>8 DEF TakeLock
<1>9. ASSUME NEW c \in Conns, SendReply(c) PROVE TypeOK'
  BY <1>9 DEF SendReply
<1>10. ASSUME NEW c \in Conns, FailReply(c) PROVE TypeOK'
  BY <1>10 DEF FailReply
<1>11. ASSUME NEW c \in Conns, Finish(c) PROVE TypeOK'
  <2>1. registry' \in [Keys -> Conns \cup {NoConn}]
    BY <1>11 DEF Finish, Unregister
  <2> QED
    BY <1>11, <2>1 DEF Finish
<1>12. ASSUME NEW t \in Pushers, NEW d \in Keys, NEW f \in Frames,
              Lookup(t, d, f), round' \subseteq Keys
       PROVE  TypeOK'
  <2>1. CASE UNCHANGED <<pstate, pdev, pconn, pframe>>
    BY <1>12, <2>1 DEF Lookup, Aim
  <2>2. CASE registry[d] # NoConn
    <3>1. /\ pstate' = [pstate EXCEPT ![t] = "lock"]
          /\ pdev' = [pdev EXCEPT ![t] = d]
          /\ pconn' = [pconn EXCEPT ![t] = registry[d]]
          /\ pframe' = [pframe EXCEPT ![t] = f]
          /\ UNCHANGED <<connVars, netVars, locked>>
      BY <1>12, <2>2 DEF Lookup, Aim
    <3> QED
      BY <1>12, <2>2, <3>1
  <2> QED
    BY <1>12, <2>1, <2>2 DEF Lookup, Aim
<1>13. ASSUME NEW t \in Pushers, Request(t) PROVE TypeOK'
  BY <1>12, <1>13 DEF Request, QueryState, SendCommand
<1>14. ASSUME PollRound PROVE TypeOK'
  BY <1>14 DEF PollRound, Registered
<1>15. ASSUME NEW d \in Keys, PollNext(d) PROVE TypeOK'
  BY <1>12, <1>15 DEF PollNext
<1>16. ASSUME NEW t \in Pushers, PushLock(t) PROVE TypeOK'
  BY <1>16 DEF PushLock
<1>17. ASSUME NEW t \in Pushers, PushSend(t) PROVE TypeOK'
  BY <1>17 DEF PushSend, Return
<1>18. ASSUME NEW t \in Pushers, PushFail(t) PROVE TypeOK'
  BY <1>18 DEF PushFail
<1>19. ASSUME NEW t \in Pushers, PushDrop(t) PROVE TypeOK'
  BY <1>19 DEF PushDrop, Return, Unregister
<1>20. CASE UNCHANGED vars
  BY <1>20 DEF vars
<1> QED
  BY <1>1, <1>2, <1>21, <1>3, <1>4, <1>5, <1>6, <1>7, <1>8, <1>9, <1>10, <1>11,
     <1>13, <1>14, <1>15, <1>16, <1>17, <1>18, <1>19, <1>20
  DEF Next, HandlerRun, PusherRun

-----------------------------------------------------------------------------
\* An action that neither touches a lock, nor lets anybody in or out of a send,
\* keeps sends exclusive.
LEMMA LockFrame ==
  ASSUME SendExclusion,
         UNCHANGED locked,
         \A c \in Conns : HandlerHolds(c)' => HandlerHolds(c),
         \A c \in Conns, t \in Pushers : PusherHolds(t, c)' => PusherHolds(t, c)
  PROVE  SendExclusion'
BY DEF SendExclusion

\* Sends on a connection exclude each other: whoever enters one found the lock
\* free, so nobody was inside, and whoever unlocks was the only one inside.
LEMMA LockStep == TypeOK /\ SendExclusion /\ [Next]_vars => SendExclusion'
<1> SUFFICES ASSUME TypeOK, SendExclusion, [Next]_vars PROVE SendExclusion'
  OBVIOUS
<1> USE BoundsAssumption, NamesAssumption
<1> DEFINE Types == /\ pc \in [Conns -> HandlerStates]
                    /\ locked \in [Conns -> BOOLEAN]
                    /\ pstate \in [Pushers -> {"idle", "lock", "send", "drop"}]
                    /\ pconn \in [Pushers -> Conns \cup {NoConn}]
                    /\ accepted \in 0 .. MaxConn
                    /\ \A t \in Pushers : pstate[t] # "idle" => pconn[t] # NoConn
<1>0. Types
  BY DEF TypeOK
<1> USE DEF HandlerHolds, PusherHolds, Goto, Unlock, connVars, netVars, pushVars
<1>1. ASSUME NEW d \in Devices, Connect(d) PROVE SendExclusion'
  BY <1>0, <1>1, LockFrame DEF Connect
<1>2. ASSUME NEW c \in Conns, Vanish(c) \/ Stall(c) \/ Speak(c) \/ Bridge(c) \/ Hello(c)
                              \/ Receive(c) \/ HangUp(c) \/ Finish(c)
      PROVE  SendExclusion'
  <2>1. UNCHANGED <<locked, pstate, pconn>>
    BY <1>2 DEF Vanish, Stall, Speak, Bridge, Hello, Receive, HangUp, Finish
  <2>2. \/ UNCHANGED pc
        \/ \E s \in {"recv", "bridged", "ack", "cleanup", "closed"} :
             pc' = [pc EXCEPT ![c] = s]
    BY <1>2 DEF Vanish, Stall, Speak, Bridge, Hello, Receive, HangUp, Finish
  <2> QED
    BY <1>0, <2>1, <2>2, LockFrame
<1>3. ASSUME NEW c \in Conns, TakeLock(c) PROVE SendExclusion'
  <2>1. /\ ~locked[c]
        /\ locked' = [locked EXCEPT ![c] = TRUE]
        /\ \E s \in {"ackSend", "monSend"} : pc' = [pc EXCEPT ![c] = s]
        /\ UNCHANGED <<pstate, pconn>>
    BY <1>3 DEF TakeLock
  <2>2. \A t \in Pushers : ~PusherHolds(t, c)
    BY <2>1 DEF SendExclusion
  <2> QED
    BY <1>0, <2>1, <2>2 DEF SendExclusion
<1>4. ASSUME NEW c \in Conns, SendReply(c) \/ FailReply(c) PROVE SendExclusion'
  <2>1. /\ HandlerHolds(c)
        /\ locked' = [locked EXCEPT ![c] = FALSE]
        /\ \E s \in {"mon", "recv", "cleanup"} : pc' = [pc EXCEPT ![c] = s]
        /\ UNCHANGED <<pstate, pconn>>
    BY <1>4 DEF SendReply, FailReply
  <2> QED
    BY <1>0, <2>1 DEF SendExclusion
<1>5. ASSUME NEW t \in Pushers, NEW d \in Keys, NEW f \in Frames, Lookup(t, d, f)
      PROVE  SendExclusion'
  <2>1. UNCHANGED <<locked, pc>>
    BY <1>5 DEF Lookup, Aim
  <2>2. \/ UNCHANGED <<pstate, pconn>>
        \/ /\ pstate[t] = "idle" /\ pstate' = [pstate EXCEPT ![t] = "lock"]
           /\ pconn' = [pconn EXCEPT ![t] = registry[d]]
    BY <1>5 DEF Lookup, Aim
  <2> QED
    BY <1>0, <2>1, <2>2, LockFrame
<1>6. ASSUME NEW t \in Pushers, PushLock(t) PROVE SendExclusion'
  <2>1. /\ pstate[t] = "lock" /\ pconn[t] \in Conns /\ ~locked[pconn[t]]
        /\ locked' = [locked EXCEPT ![pconn[t]] = TRUE]
        /\ pstate' = [pstate EXCEPT ![t] = "send"]
        /\ UNCHANGED <<pc, pconn>>
    BY <1>0, <1>6 DEF PushLock
  <2>2. /\ ~HandlerHolds(pconn[t])
        /\ \A u \in Pushers : ~PusherHolds(u, pconn[t])
    BY <2>1 DEF SendExclusion
  <2> QED
    BY <1>0, <2>1, <2>2 DEF SendExclusion
<1>7. ASSUME NEW t \in Pushers, PushSend(t) \/ PushDrop(t) PROVE SendExclusion'
  <2>1. /\ PusherHolds(t, pconn[t]) /\ pconn[t] \in Conns
        /\ locked' = [locked EXCEPT ![pconn[t]] = FALSE]
        /\ pstate' = [pstate EXCEPT ![t] = "idle"]
        /\ pconn' = [pconn EXCEPT ![t] = NoConn]
        /\ UNCHANGED pc
    BY <1>0, <1>7 DEF PushSend, PushDrop, Return
  <2> QED
    BY <1>0, <2>1 DEF SendExclusion
<1>8. ASSUME NEW t \in Pushers, PushFail(t) PROVE SendExclusion'
  BY <1>0, <1>8, LockFrame DEF PushFail
<1>9. CASE PollRound \/ UNCHANGED vars
  BY <1>9, LockFrame DEF PollRound, vars
<1> QED
  BY <1>1, <1>2, <1>3, <1>4, <1>5, <1>6, <1>7, <1>8, <1>9
  DEF Next, HandlerRun, PusherRun, Request, QueryState, SendCommand, PollNext,
      Frames

-----------------------------------------------------------------------------
\* An action of a handler that is running, which changes neither the registry
\* nor what the pushers hold, keeps routes and pushes sound.
LEMMA SoundFrame ==
  ASSUME TypeOK, Sound, NEW c \in Conns, Serving(c), Serving(c)',
         UNCHANGED <<registry, owner, accepted, pstate, pdev, pconn>>,
         \A b \in Conns : b # c => pc'[b] = pc[b],
         UNCHANGED <<connDev, family, peer>>
  PROVE  Sound'
BY DEF TypeOK, Sound, Unused, OwnName, RouteSound, PushOnOwnSocket, DropReason,
       CanFail, Serving

\* Routes and pushes stay sound: a handler registers only itself, only under its
\* own appliance, and takes its registration along when it finishes.
LEMMA SoundStep == TypeOK /\ Sound /\ [Next]_vars => Sound'
<1> SUFFICES ASSUME TypeOK, Sound, [Next]_vars PROVE Sound'
  OBVIOUS
<1> USE BoundsAssumption, NamesAssumption
<1> USE DEF TypeOK, Goto, Unlock, connVars, netVars, pushVars
<1>1. ASSUME NEW d \in Devices, Connect(d) PROVE Sound'
  BY <1>1 DEF Connect, Sound, Unused, OwnName, RouteSound, PushOnOwnSocket,
              DropReason, CanFail, Serving
<1>2. ASSUME NEW c \in Conns, Vanish(c) PROVE Sound'
  BY <1>2 DEF Vanish, Sound, Unused, OwnName, RouteSound, PushOnOwnSocket,
              DropReason, CanFail, Serving
<1>21. ASSUME NEW c \in Conns, Stall(c) PROVE Sound'
  BY <1>21 DEF Stall, Sound, Unused, OwnName, RouteSound, PushOnOwnSocket,
               DropReason, CanFail, Serving
<1>3. ASSUME NEW c \in Conns,
             Speak(c) \/ Bridge(c) \/ HangUp(c)
             \/ TakeLock(c) \/ SendReply(c) \/ FailReply(c)
      PROVE  Sound'
  BY <1>3, SoundFrame
  DEF Speak, Bridge, HangUp, TakeLock, SendReply, FailReply, Serving
<1>4. ASSUME NEW c \in Conns, Hello(c) PROVE Sound'
  BY <1>4 DEF Hello, Sound, Unused, OwnName, RouteSound, PushOnOwnSocket,
              DropReason, CanFail, Serving
<1>5. ASSUME NEW c \in Conns, Receive(c) PROVE Sound'
  <2>1. /\ pc[c] = "recv"
        /\ connDev' = [connDev EXCEPT ![c] = connDev'[c]]
        /\ connDev'[c] \in {Unknown, owner[c]}
        /\ registry' = [registry EXCEPT ![connDev'[c]] = c]
        /\ \E s \in {"recv", "ack"} : pc' = [pc EXCEPT ![c] = s]
        /\ UNCHANGED <<family, peer, owner, accepted, pushVars>>
    BY <1>5 DEF Receive, Sound, OwnName
  <2>2. connDev[c] # Unknown => connDev'[c] = connDev[c]
    BY <1>5 DEF Receive, Sound, OwnName
  <2>3. Unused'
    <3>1. c <= accepted
      BY <2>1 DEF Sound, Unused
    <3> SUFFICES ASSUME NEW b \in Conns, b > accepted
                 PROVE  /\ pc'[b] = "idle" /\ connDev'[b] = Unknown
                        /\ peer'[b] = "up"
                        /\ \A k \in Keys : registry'[k] # b
                        /\ \A t \in Pushers : pconn'[t] # b
      BY <2>1 DEF Unused
    <3>2. b # c
      BY <3>1
    <3>3. \A k \in Keys : registry'[k] # b
      BY <2>1, <3>2 DEF Sound, Unused
    <3> QED
      BY <2>1, <3>2, <3>3 DEF Sound, Unused
  <2>4. OwnName'
    BY <2>1 DEF Sound, OwnName
  <2>5. RouteSound'
    BY <2>1, <2>2 DEF Sound, RouteSound, Serving
  <2>6. PushOnOwnSocket' /\ DropReason'
    BY <2>1 DEF Sound, PushOnOwnSocket, DropReason, CanFail
  <2> QED
    BY <2>3, <2>4, <2>5, <2>6 DEF Sound
<1>6. ASSUME NEW c \in Conns, Finish(c) PROVE Sound'
  <2>1. /\ pc[c] = "cleanup"
        /\ pc' = [pc EXCEPT ![c] = "closed"]
        /\ connDev' = [connDev EXCEPT ![c] = Unknown]
        /\ UNCHANGED <<family, peer, owner, accepted, pushVars>>
    BY <1>6 DEF Finish
  <2>2. \A k \in Keys : registry'[k] \in {registry[k], NoConn}
    BY <1>6 DEF Finish, Unregister
  <2>3. \A d \in Devices : registry'[d] # c
    <3> SUFFICES ASSUME NEW d \in Devices, registry[d] = c
                 PROVE  registry'[d] # c
      BY <2>2
    <3>1. connDev[c] = d /\ d # Unknown
      BY DEF Sound, RouteSound
    <3> QED
      BY <1>6, <3>1 DEF Finish, Unregister
  <2>7. c <= accepted
    BY <2>1 DEF Sound, Unused
  <2>8. Unused'
    BY <2>1, <2>2, <2>7 DEF Sound, Unused
  <2>4. OwnName'
    BY <2>1 DEF Sound, OwnName
  <2>5. RouteSound'
    BY <2>1, <2>2, <2>3 DEF Sound, RouteSound, Serving
  <2>6. PushOnOwnSocket' /\ DropReason'
    BY <2>1 DEF Sound, PushOnOwnSocket, DropReason, CanFail
  <2> QED
    BY <2>4, <2>5, <2>6, <2>8 DEF Sound
<1>7. ASSUME NEW t \in Pushers, NEW k \in Keys, NEW f \in Frames, Lookup(t, k, f)
      PROVE  Sound'
  <2>1. UNCHANGED <<registry, pc, family, connDev, peer, owner, accepted>>
    BY <1>7 DEF Lookup, Aim
  <2>2. Unused'
    BY <1>7, <2>1 DEF Lookup, Aim, Sound, Unused
  <2>3. OwnName' /\ RouteSound'
    BY <2>1 DEF Sound, OwnName, RouteSound, Serving
  <2>4. PushOnOwnSocket'
    <3>1. registry[k] # NoConn /\ k \in Devices => owner[registry[k]] = k
      BY DEF Sound, RouteSound
    <3> QED
      BY <1>7, <2>1, <3>1 DEF Lookup, Aim, Sound, PushOnOwnSocket
  <2>5. DropReason'
    BY <1>7, <2>1 DEF Lookup, Aim, Sound, DropReason, CanFail
  <2> QED
    BY <2>2, <2>3, <2>4, <2>5 DEF Sound
<1>8. ASSUME NEW t \in Pushers, PushLock(t) \/ PushFail(t) PROVE Sound'
  <2>1. UNCHANGED <<registry, pc, family, connDev, peer, owner, accepted,
                    pdev, pconn>>
    BY <1>8 DEF PushLock, PushFail
  <2>2. Unused' /\ OwnName' /\ RouteSound'
    BY <2>1 DEF Sound, Unused, OwnName, RouteSound, Serving
  <2>3. PushOnOwnSocket'
    BY <1>8, <2>1 DEF PushLock, PushFail, Sound, PushOnOwnSocket
  <2>4. DropReason'
    BY <1>8, <2>1 DEF PushLock, PushFail, Sound, DropReason, CanFail
  <2> QED
    BY <2>2, <2>3, <2>4 DEF Sound
<1>9. ASSUME NEW t \in Pushers, PushSend(t) \/ PushDrop(t) PROVE Sound'
  <2>1. \A k \in Keys : registry'[k] \in {registry[k], NoConn}
    BY <1>9 DEF PushSend, PushDrop, Unregister
  <2>2. /\ pstate' = [pstate EXCEPT ![t] = "idle"]
        /\ pdev' = [pdev EXCEPT ![t] = Unknown]
        /\ pconn' = [pconn EXCEPT ![t] = NoConn]
        /\ UNCHANGED <<pc, family, connDev, peer, owner, accepted>>
    BY <1>9 DEF PushSend, PushDrop, Return
  <2>3. Unused'
    BY <2>1, <2>2 DEF Sound, Unused
  <2>4. OwnName'
    BY <2>2 DEF Sound, OwnName
  <2>5. RouteSound'
    BY <2>1, <2>2 DEF Sound, RouteSound, Serving
  <2>6. PushOnOwnSocket' /\ DropReason'
    BY <2>2 DEF Sound, PushOnOwnSocket, DropReason, CanFail
  <2> QED
    BY <2>3, <2>4, <2>5, <2>6 DEF Sound
<1>10. CASE PollRound \/ UNCHANGED vars
  <2>1. UNCHANGED <<connVars, netVars, pstate, pdev, pconn>>
    BY <1>10 DEF PollRound, vars
  <2> QED
    BY <2>1 DEF Sound, Unused, OwnName, RouteSound, PushOnOwnSocket,
                DropReason, CanFail, Serving
<1> QED
  BY <1>1, <1>2, <1>21, <1>3, <1>4, <1>5, <1>6, <1>7, <1>8, <1>9, <1>10
  DEF Next, HandlerRun, PusherRun, Request, QueryState, SendCommand, PollNext,
      Frames

-----------------------------------------------------------------------------
\* No connection, no thread inside a send, no route.
LEMMA InitHolds == Init => IInv
<1> SUFFICES ASSUME Init PROVE IInv
  OBVIOUS
<1> USE BoundsAssumption, NamesAssumption DEF Init
<1>1. TypeOK
  BY DEF TypeOK, HandlerStates, Kinds, Frames
<1>2. SendExclusion
  BY DEF SendExclusion, HandlerHolds, PusherHolds
<1>3. Unused /\ OwnName /\ RouteSound
  BY DEF Unused, OwnName, RouteSound
<1>4. PushOnOwnSocket /\ DropReason
  BY DEF PushOnOwnSocket, DropReason
<1> QED
  BY <1>1, <1>2, <1>3, <1>4 DEF IInv, Sound

\* Every step keeps all parts of the invariant together.
LEMMA StepHolds == IInv /\ [Next]_vars => IInv'
BY TypeStep, LockStep, SoundStep DEF IInv

\* The invariant holds throughout, for any appliances, threads and connections.
THEOREM Invariance == Spec => []IInv
BY InitHolds, StepHolds, PTL DEF Spec

\* The variables of the channel always have their types.
THEOREM TypeCorrect == Spec => []TypeOK
<1>1. IInv => TypeOK
  BY DEF IInv
<1> QED
  BY <1>1, Invariance, PTL

\* No two threads are ever inside sendall on the same connection.
THEOREM SendsExclude == Spec => []SendExclusion
<1>1. IInv => SendExclusion
  BY DEF IInv
<1> QED
  BY <1>1, Invariance, PTL

\* An appliance is only ever routed to a live connection of its own.
THEOREM RoutesSound == Spec => []RouteSound
<1>1. IInv => RouteSound
  BY DEF IInv, Sound
<1> QED
  BY <1>1, Invariance, PTL

\* A thread that is about to write for an appliance holds a socket of it.
THEOREM PushesSound == Spec => []PushOnOwnSocket
<1>1. IInv => PushOnOwnSocket
  BY DEF IInv, Sound
<1> QED
  BY <1>1, Invariance, PTL

-----------------------------------------------------------------------------
\* The routing table starts empty.
LEMMA RefinesInit == Init => RT!Init
BY BoundsAssumption, NamesAssumption
DEF Init, RT!Init, RT!NoConn, RT!Conns, Serving

\* Every step of the channel is one step of the routing table or none.
LEMMA RefinesStep == IInv /\ [Next]_vars => [RT!Next]_RT!rtvars
<1> SUFFICES ASSUME IInv, [Next]_vars PROVE [RT!Next]_RT!rtvars
  OBVIOUS
<1> USE BoundsAssumption, NamesAssumption
<1> DEFINE Same == /\ \A d \in Devices : registry'[d] = registry[d]
                   /\ UNCHANGED <<peer, owner>>
                   /\ \A c \in Conns : Serving(c)' <=> Serving(c)
<1>1. Same => UNCHANGED RT!rtvars
  BY DEF RT!rtvars
<1> USE DEF RT!NoConn, RT!Conns, Goto, connVars, netVars, pushVars
<1>2. ASSUME NEW d \in Devices, Connect(d) PROVE RT!Next
  <2> DEFINE c == accepted + 1
  <2>1. /\ c \in Conns /\ ~Serving(c)
        /\ pc' = [pc EXCEPT ![c] = "hello"]
        /\ owner' = [owner EXCEPT ![c] = d]
        /\ UNCHANGED registry
    BY <1>2 DEF Connect, IInv, TypeOK, Sound, Unused, Serving
  <2>2. {b \in Conns : Serving(b)}' = {b \in Conns : Serving(b)} \cup {c}
    BY <2>1 DEF Serving, IInv, TypeOK
  <2> DEFINE old == {b \in Conns \ {c} : b <= accepted /\ owner[b] = d}
  <2>3. {b \in Conns : peer[b] # "up"}'
          = {b \in Conns : peer[b] # "up"} \cup old
    BY <1>2 DEF Connect, IInv, TypeOK
  <2>4. RT!Dial(c, d)
    BY <2>1, <2>2, <2>3 DEF RT!Dial
  <2> QED
    BY <2>1, <2>4 DEF RT!Next
<1>3. ASSUME NEW c \in Conns, Vanish(c) \/ Stall(c) PROVE RT!Next
  <2>1. RT!Lose(c)
    BY <1>3 DEF Vanish, Stall, RT!Lose, IInv, TypeOK, Serving
  <2> QED
    BY <2>1 DEF RT!Next
<1>4. ASSUME NEW c \in Conns,
             Speak(c) \/ Bridge(c) \/ Hello(c) \/ HangUp(c) \/ TakeLock(c)
             \/ SendReply(c) \/ FailReply(c)
      PROVE  Same
  BY <1>4 DEF Speak, Bridge, Hello, HangUp, TakeLock, SendReply, FailReply,
              Serving, IInv, TypeOK
<1>5. ASSUME NEW c \in Conns, Receive(c) PROVE Same \/ RT!Next
  <2>1. /\ pc[c] = "recv"
        /\ connDev'[c] \in {Unknown, owner[c]}
        /\ registry' = [registry EXCEPT ![connDev'[c]] = c]
        /\ \E s \in {"recv", "ack"} : pc' = [pc EXCEPT ![c] = s]
        /\ UNCHANGED <<peer, owner>>
    BY <1>5 DEF Receive, IInv, Sound, OwnName, TypeOK
  <2>2. \A b \in Conns : Serving(b)' <=> Serving(b)
    BY <2>1 DEF Serving, IInv, TypeOK
  <2>3. CASE connDev'[c] = Unknown
    BY <2>1, <2>2, <2>3 DEF IInv, TypeOK
  <2>4. CASE connDev'[c] = owner[c]
    <3>1. Serving(c) /\ registry' = [registry EXCEPT ![owner[c]] = c]
      BY <2>1, <2>4 DEF Serving
    <3>2. owner[c] \in Devices /\ registry \in [Keys -> Conns \cup {NoConn}]
      BY DEF IInv, TypeOK
    <3>3. [d \in Devices |-> registry'[d]]
            = [[d \in Devices |-> registry[d]] EXCEPT ![owner[c]] = c]
      BY <3>1, <3>2
    <3>4. {b \in Conns : Serving(b)'} = {b \in Conns : Serving(b)}
      BY <2>2
    <3>5. RT!Announce(c)
      BY <2>1, <3>1, <3>3, <3>4 DEF RT!Announce
    <3> QED
      BY <3>5 DEF RT!Next
  <2> QED
    BY <2>1, <2>3, <2>4
<1>6. ASSUME NEW c \in Conns, Finish(c) PROVE RT!Next
  <2>1. /\ pc[c] = "cleanup"
        /\ pc' = [pc EXCEPT ![c] = "closed"]
        /\ UNCHANGED <<peer, owner>>
    BY <1>6 DEF Finish
  <2>2. {b \in Conns : Serving(b)}' = {b \in Conns : Serving(b)} \ {c}
    BY <2>1 DEF Serving, IInv, TypeOK
  <2>3. \A d \in Devices :
          registry'[d] = IF registry[d] = c THEN NoConn ELSE registry[d]
    BY <1>6 DEF Finish, Unregister, IInv, TypeOK, Sound, RouteSound
  <2>4. RT!Close(c)
    BY <2>1, <2>2, <2>3 DEF RT!Close, Serving
  <2> QED
    BY <2>4 DEF RT!Next
<1>7. ASSUME NEW t \in Pushers, NEW k \in Keys, NEW f \in Frames, Lookup(t, k, f)
      PROVE  Same
  BY <1>7 DEF Lookup, Aim, Serving
<1>8. ASSUME NEW t \in Pushers, PushLock(t) \/ PushFail(t) \/ PushSend(t)
      PROVE  Same
  BY <1>8 DEF PushLock, PushFail, PushSend, Serving
<1>9. ASSUME NEW t \in Pushers, PushDrop(t) PROVE Same \/ RT!Next
  <2>0. PICK d \in Keys : d = pdev[t]
    BY DEF IInv, TypeOK
  <2>1. /\ pstate[t] = "drop" /\ d = pdev[t] /\ pconn[t] \in Conns
        /\ registry' = IF registry[d] = pconn[t]
                         THEN [registry EXCEPT ![d] = NoConn] ELSE registry
        /\ UNCHANGED <<pc, peer, owner>>
    BY <1>9, <2>0 DEF PushDrop, Unregister, IInv, TypeOK
  <2>2. \A c \in Conns : Serving(c)' <=> Serving(c)
    BY <2>1 DEF Serving
  <2>3. CASE registry[d] # pconn[t] \/ d = Unknown
    BY <2>1, <2>2, <2>3 DEF IInv, TypeOK
  <2>4. CASE registry[d] = pconn[t] /\ d \in Devices
    <3>1. peer[pconn[t]] # "up"
      BY <2>1, <2>4 DEF IInv, Sound, RouteSound, DropReason, CanFail, Serving
    <3>2. \A e \in Devices :
            registry'[e] = IF e = d THEN NoConn ELSE registry[e]
      BY <2>1, <2>4 DEF IInv, TypeOK
    <3>3. [e \in Devices |-> registry[e]]'
            = [[e \in Devices |-> registry[e]] EXCEPT ![d] = NoConn]
      BY <2>4, <3>2
    <3>4. {c \in Conns : Serving(c)}' = {c \in Conns : Serving(c)}
      BY <2>2
    <3>5. [e \in Devices |-> registry[e]][d] \in {c \in Conns : peer[c] # "up"}
      BY <2>1, <2>4, <3>1
    <3>6. UNCHANGED <<{c \in Conns : Serving(c)},
                      {c \in Conns : peer[c] # "up"}, owner>>
      BY <2>1, <3>4
    <3>7. RT!Drop(d)
      BY <3>3, <3>5, <3>6 DEF RT!Drop
    <3> QED
      BY <2>4, <3>7 DEF RT!Next
  <2> QED
    BY <2>1, <2>3, <2>4
<1>10. ASSUME PollRound \/ UNCHANGED vars PROVE Same
  <2>1. UNCHANGED <<registry, pc, peer, owner>>
    BY <1>10 DEF PollRound, vars
  <2> QED
    BY <2>1 DEF Serving
<1> HIDE DEF Same
<1> QED
  BY <1>1, <1>2, <1>3, <1>4, <1>5, <1>6, <1>7, <1>8, <1>9, <1>10
  DEF Next, HandlerRun, PusherRun, Request, QueryState, SendCommand, PollNext,
      Frames

\* The channel implements the routing table: whatever the interleaving, an entry
\* is only lost with its own connection or after a failed send on it.
THEOREM Refinement == Spec => ImplementsRoutingTable
BY RefinesInit, RefinesStep, Invariance, PTL
DEF Spec, ImplementsRoutingTable, RT!Spec

-----------------------------------------------------------------------------
\* An action that does not touch a lock, and lets nobody out of a send, abandons
\* no lock.
LEMMA HeldFrame ==
  ASSUME NoAbandonedLock, UNCHANGED locked,
         \A c \in Conns : HandlerHolds(c) => HandlerHolds(c)',
         \A c \in Conns, t \in Pushers : PusherHolds(t, c) => PusherHolds(t, c)'
  PROVE  NoAbandonedLock'
BY DEF NoAbandonedLock

\* Whoever leaves a send releases the lock it was taken with, also when it fails.
LEMMA HeldStep == IInv /\ NoAbandonedLock /\ [Next]_vars => NoAbandonedLock'
<1> SUFFICES ASSUME IInv, NoAbandonedLock, [Next]_vars PROVE NoAbandonedLock'
  OBVIOUS
<1> USE BoundsAssumption, NamesAssumption
<1> DEFINE Types == /\ pc \in [Conns -> HandlerStates]
                    /\ locked \in [Conns -> BOOLEAN]
                    /\ pstate \in [Pushers -> {"idle", "lock", "send", "drop"}]
                    /\ pconn \in [Pushers -> Conns \cup {NoConn}]
                    /\ \A t \in Pushers : pstate[t] # "idle" => pconn[t] # NoConn
<1>0. Types
  BY DEF IInv, TypeOK
<1> USE DEF HandlerHolds, PusherHolds, Goto, Unlock, connVars, netVars, pushVars
<1>1. ASSUME NEW d \in Devices, Connect(d) PROVE NoAbandonedLock'
  <2>1. pc[accepted + 1] = "idle"
    BY <1>1 DEF Connect, IInv, TypeOK, Sound, Unused
  <2> QED
    BY <1>0, <1>1, <2>1, HeldFrame DEF Connect
<1>2. ASSUME NEW c \in Conns, Vanish(c) \/ Stall(c) \/ Speak(c) \/ Bridge(c) \/ Hello(c)
                              \/ Receive(c) \/ HangUp(c) \/ Finish(c)
      PROVE  NoAbandonedLock'
  <2>1. UNCHANGED <<locked, pstate, pconn>>
    BY <1>2 DEF Vanish, Stall, Speak, Bridge, Hello, Receive, HangUp, Finish
  <2>2. \/ UNCHANGED pc
        \/ ~HandlerHolds(c) /\ \E s \in HandlerStates : pc' = [pc EXCEPT ![c] = s]
    BY <1>2 DEF Vanish, Stall, Speak, Bridge, Hello, Receive, HangUp, Finish,
                HandlerStates
  <2> QED
    BY <1>0, <2>1, <2>2, HeldFrame
<1>3. ASSUME NEW c \in Conns, TakeLock(c) PROVE NoAbandonedLock'
  <2>1. /\ locked' = [locked EXCEPT ![c] = TRUE]
        /\ \E s \in {"ackSend", "monSend"} : pc' = [pc EXCEPT ![c] = s]
        /\ UNCHANGED <<pstate, pconn>>
    BY <1>3 DEF TakeLock
  <2> QED
    BY <1>0, <2>1 DEF NoAbandonedLock
<1>4. ASSUME NEW c \in Conns, SendReply(c) \/ FailReply(c) PROVE NoAbandonedLock'
  <2>1. /\ locked' = [locked EXCEPT ![c] = FALSE]
        /\ \E s \in {"mon", "recv", "cleanup"} : pc' = [pc EXCEPT ![c] = s]
        /\ UNCHANGED <<pstate, pconn>>
    BY <1>4 DEF SendReply, FailReply
  <2> QED
    BY <1>0, <2>1 DEF NoAbandonedLock
<1>5. ASSUME NEW t \in Pushers, NEW d \in Keys, NEW f \in Frames, Lookup(t, d, f)
      PROVE  NoAbandonedLock'
  <2>1. UNCHANGED <<locked, pc>>
    BY <1>5 DEF Lookup, Aim
  <2>2. \/ UNCHANGED <<pstate, pconn>>
        \/ /\ pstate[t] = "idle" /\ pstate' = [pstate EXCEPT ![t] = "lock"]
           /\ pconn' = [pconn EXCEPT ![t] = registry[d]]
    BY <1>5 DEF Lookup, Aim
  <2> QED
    BY <1>0, <2>1, <2>2, HeldFrame
<1>6. ASSUME NEW t \in Pushers, PushLock(t) PROVE NoAbandonedLock'
  BY <1>0, <1>6 DEF PushLock, NoAbandonedLock
<1>7. ASSUME NEW t \in Pushers, PushSend(t) \/ PushDrop(t) PROVE NoAbandonedLock'
  <2>1. /\ pconn[t] \in Conns
        /\ locked' = [locked EXCEPT ![pconn[t]] = FALSE]
        /\ pstate' = [pstate EXCEPT ![t] = "idle"]
        /\ pconn' = [pconn EXCEPT ![t] = NoConn]
        /\ UNCHANGED pc
    BY <1>0, <1>7 DEF PushSend, PushDrop, Return
  <2> QED
    BY <1>0, <2>1 DEF NoAbandonedLock
<1>8. ASSUME NEW t \in Pushers, PushFail(t) PROVE NoAbandonedLock'
  BY <1>0, <1>8, HeldFrame DEF PushFail
<1>9. CASE PollRound \/ UNCHANGED vars
  BY <1>9, HeldFrame DEF PollRound, vars
<1> QED
  BY <1>1, <1>2, <1>3, <1>4, <1>5, <1>6, <1>7, <1>8, <1>9
  DEF Next, HandlerRun, PusherRun, Request, QueryState, SendCommand, PollNext,
      Frames

\* No send_lock stays taken behind a thread that has left the send.
THEOREM LocksReleased == Spec => []NoAbandonedLock
<1>1. Init => NoAbandonedLock
  BY DEF Init, NoAbandonedLock
<1> QED
  BY <1>1, HeldStep, Invariance, PTL DEF Spec

-----------------------------------------------------------------------------
\* A pusher carries a command only when commands are allowed.
Gated == ~AllowControl => \A t \in Pushers : pframe[t] # "command"

\* With the gate closed nobody ever gets to encode a Control frame.
LEMMA GateStep == TypeOK /\ Gated /\ [Next]_vars => Gated'
<1> SUFFICES ASSUME TypeOK, Gated, [Next]_vars, ~AllowControl PROVE Gated'
  BY DEF Gated
<1> USE NamesAssumption DEF Gated, connVars, netVars, pushVars
<1>0. pframe \in [Pushers -> Frames]
  BY DEF TypeOK
<1>1. ASSUME NEW t \in Pushers, NEW d \in Keys, Lookup(t, d, "query")
      PROVE  Gated'
  BY <1>0, <1>1 DEF Lookup, Aim
<1>2. ASSUME NEW t \in Pushers, Request(t) PROVE Gated'
  BY <1>1, <1>2 DEF Request, QueryState, SendCommand
<1>3. ASSUME NEW d \in Keys, PollNext(d) PROVE Gated'
  BY <1>1, <1>3 DEF PollNext
<1>4. ASSUME NEW t \in Pushers, PushSend(t) \/ PushDrop(t) PROVE Gated'
  BY <1>0, <1>4 DEF PushSend, PushDrop, Return
<1>5. CASE UNCHANGED pframe
  BY <1>5
<1>6. ASSUME NEW d \in Devices, Connect(d) PROVE UNCHANGED pframe
  BY <1>6 DEF Connect
<1>7. ASSUME NEW c \in Conns,
             Vanish(c) \/ Stall(c) \/ Speak(c) \/ Bridge(c) \/ HandlerRun(c) \/ TakeLock(c)
      PROVE  UNCHANGED pframe
  BY <1>7 DEF Vanish, Stall, Speak, Bridge, HandlerRun, Hello, Receive, HangUp,
              SendReply, FailReply, Finish, TakeLock
<1>8. ASSUME NEW t \in Pushers, PushLock(t) \/ PushFail(t) PROVE UNCHANGED pframe
  BY <1>8 DEF PushLock, PushFail
<1>9. CASE PollRound \/ UNCHANGED vars
  BY <1>9 DEF PollRound, vars
<1> QED
  BY <1>2, <1>3, <1>4, <1>5, <1>6, <1>7, <1>8, <1>9 DEF Next, PusherRun

\* With allow_control off, no thread ever writes a Control frame.
THEOREM GateAlwaysHolds == Spec => []GateHolds
<1>1. Init => Gated
  BY DEF Init, Gated
<1>2. Gated => GateHolds
  BY DEF Gated, GateHolds
<1> QED
  BY <1>1, <1>2, GateStep, TypeCorrect, PTL DEF Spec

-----------------------------------------------------------------------------
\* A connection is known to nobody before its handler serves it, and one that is
\* bridged is never served.
Unserved ==
  \A c \in Conns : pc[c] \in {"idle", "hello", "bridged"} =>
    /\ \A k \in Keys : registry[k] # c
    /\ \A t \in Pushers : pconn[t] # c

\* What is bridged never enters the loop that registers a connection.
LEMMA UnservedStep == IInv /\ Unserved /\ [Next]_vars => Unserved'
<1> SUFFICES ASSUME IInv, Unserved, [Next]_vars PROVE Unserved'
  OBVIOUS
<1> USE BoundsAssumption, NamesAssumption
<1> USE DEF Unserved, Goto, connVars, netVars, pushVars
<1> DEFINE Types == /\ pc \in [Conns -> HandlerStates]
                    /\ registry \in [Keys -> Conns \cup {NoConn}]
                    /\ pstate \in [Pushers -> {"idle", "lock", "send", "drop"}]
                    /\ pconn \in [Pushers -> Conns \cup {NoConn}]
                    /\ connDev' \in [Conns -> Keys]
<1>0. Types
  BY TypeStep DEF IInv, TypeOK
<1>1. ASSUME NEW d \in Devices, Connect(d) PROVE Unserved'
  <2>1. accepted + 1 \in Conns /\ pc[accepted + 1] = "idle"
    BY <1>1 DEF Connect, IInv, TypeOK, Sound, Unused
  <2> QED
    BY <1>0, <1>1, <2>1 DEF Connect
<1>2. ASSUME NEW c \in Conns, Hello(c) \/ Bridge(c) \/ Vanish(c) \/ Stall(c) \/ Speak(c)
                              \/ HangUp(c) \/ TakeLock(c) \/ SendReply(c)
                              \/ FailReply(c)
      PROVE  Unserved'
  <2>1. UNCHANGED <<registry, pconn>>
    BY <1>2 DEF Hello, Bridge, Vanish, Stall, Speak, HangUp, TakeLock, SendReply, FailReply
  <2>2. \/ UNCHANGED pc
        \/ /\ pc[c] = "hello"
           /\ \E s \in HandlerStates : pc' = [pc EXCEPT ![c] = s]
        \/ \E s \in HandlerStates \ {"idle", "hello", "bridged"} :
             pc' = [pc EXCEPT ![c] = s]
    BY <1>2 DEF Hello, Bridge, Vanish, Stall, Speak, HangUp, TakeLock, SendReply,
                FailReply, HandlerStates
  <2> QED
    BY <1>0, <2>1, <2>2
<1>3. ASSUME NEW c \in Conns, Receive(c) PROVE Unserved'
  <2>1. /\ pc[c] = "recv" /\ UNCHANGED pconn
        /\ registry' = [registry EXCEPT ![connDev'[c]] = c]
        /\ \E s \in {"recv", "ack"} : pc' = [pc EXCEPT ![c] = s]
    BY <1>0, <1>3 DEF Receive
  <2> QED
    BY <1>0, <2>1
<1>4. ASSUME NEW c \in Conns, Finish(c) PROVE Unserved'
  <2>1. /\ UNCHANGED pconn /\ pc' = [pc EXCEPT ![c] = "closed"]
        /\ \A k \in Keys : registry'[k] \in {registry[k], NoConn}
    BY <1>0, <1>4 DEF Finish, Unregister
  <2> QED
    BY <1>0, <2>1
<1>5. ASSUME NEW t \in Pushers, NEW d \in Keys, NEW f \in Frames, Lookup(t, d, f)
      PROVE  Unserved'
  BY <1>0, <1>5 DEF Lookup, Aim
<1>6. ASSUME NEW t \in Pushers, PushLock(t) \/ PushFail(t) PROVE Unserved'
  BY <1>0, <1>6 DEF PushLock, PushFail
<1>7. ASSUME NEW t \in Pushers, PushSend(t) \/ PushDrop(t) PROVE Unserved'
  <2>1. /\ UNCHANGED pc /\ pconn' = [pconn EXCEPT ![t] = NoConn]
        /\ \A k \in Keys : registry'[k] \in {registry[k], NoConn}
    BY <1>0, <1>7 DEF PushSend, PushDrop, Return, Unregister
  <2> QED
    BY <1>0, <2>1
<1>8. CASE PollRound \/ UNCHANGED vars
  BY <1>8 DEF PollRound, vars
<1> QED
  BY <1>1, <1>2, <1>3, <1>4, <1>5, <1>6, <1>7, <1>8
  DEF Next, HandlerRun, PusherRun, Request, QueryState, SendCommand, PollNext,
      Frames

\* A bridged connection is never routed to and never written to.
THEOREM BridgesInert == Spec => []BridgeInert
<1>1. Init => Unserved
  BY NamesAssumption, BoundsAssumption DEF Init, Unserved
<1>2. Unserved => BridgeInert
  BY DEF Unserved, BridgeInert
<1> QED
  BY <1>1, <1>2, UnservedStep, Invariance, PTL DEF Spec
=============================================================================
