--------------------------- MODULE ControlChannel ---------------------------
(***************************************************************************)
(* The appliance control channel of server/control_channel.py (port 47878): *)
(* one handler thread per accepted connection, the registry of live         *)
(* connections they share, and the threads that push queries and commands   *)
(* over it (the /debug/query handlers and the MQTT thread are Requesters,   *)
(* the polling thread is Poller).                                           *)
(*                                                                         *)
(* A critical section of ControlChannel._lock is one action: nothing blocks *)
(* inside it.  The per-connection send_lock is held across a blocking       *)
(* sendall, so taking it, the send and the release are separate actions.    *)
(* Frames are abstracted to their kind, the bytes of a connection to the    *)
(* number of messages that wait in its socket.  What a handler does with a  *)
(* snapshot it ingests is the subject of StateSink.                         *)
(***************************************************************************)
EXTENDS Naturals, FiniteSets

CONSTANTS Devices,      \* device ids of the appliances
          Unknown,      \* the dev_id "unknown" of a connection without a header
          Requesters,   \* threads that call query_state or send_command
          Poller,       \* the thread of start_polling
          MaxConn,      \* bound: connections accepted in one execution
          MaxInbox,     \* bound: unread messages in one socket
          Families,     \* framings that appliances use: "raw", the fridge's
                        \* msgpack, and "tls", the one of the WM family
          Polling,      \* LGM_POLL_INTERVAL > 0; off by default
          AllowControl, \* LGM_ALLOW_CONTROL
          Passthrough,  \* PASSTHROUGH_UPSTREAM is set
          Headerless    \* an appliance may leave its device id out of a header

ASSUME BoundsAssumption == MaxConn \in Nat /\ MaxInbox \in Nat
ASSUME SwitchesAssumption ==
         {Polling, AllowControl, Passthrough, Headerless} \subseteq BOOLEAN
ASSUME FamiliesAssumption == Families \subseteq {"raw", "tls"}
ASSUME NamesAssumption == Unknown \notin Devices /\ Poller \notin Requesters

NoConn  == 0
Conns   == 1 .. MaxConn              \* in the order they are accepted
Keys    == Devices \cup {Unknown}    \* what _connections may be keyed by
Pushers == Requesters \cup {Poller}

Kinds    == {"DevInfo", "Alive", "Push"}       \* see Receive
Frames   == {"query", "command"}               \* what a pusher writes

VARIABLES
  registry,  \* ControlChannel._connections
  pc,        \* where each connection's handler thread is
  family,    \* the connection's framing
  connDev,   \* the handler's local dev_id
  cur,       \* kind of the message the handler is working on
  locked,    \* the connection's send_lock
  inbox,     \* messages in the connection's socket, not yet read
  peer,      \* "up"; "deaf": the appliance is there, but has not read for as
             \* long as a send waits; "gone": it is no longer there
  owner,     \* the appliance that dialled the connection
  accepted,  \* connections accepted so far
  pstate,    \* where each pusher is inside _push
  pdev,      \* the device it pushes to
  pconn,     \* the entry it looked up
  pframe,    \* the frame it pushes
  round      \* devices left in the polling round

connVars == <<registry, pc, family, connDev, cur>>
netVars  == <<inbox, peer, owner, accepted>>
pushVars == <<pstate, pdev, pconn, pframe, round>>
vars     == <<connVars, netVars, locked, pushVars>>

HandlerStates == {"idle", "hello", "bridged", "recv", "ack", "ackSend", "mon",
                  "monSend", "cleanup", "closed"}

TypeOK ==
  /\ registry \in [Keys -> Conns \cup {NoConn}]
  /\ pc \in [Conns -> HandlerStates]
  /\ family \in [Conns -> {"raw", "tls"}]
  /\ connDev \in [Conns -> Keys]
  /\ cur \in [Conns -> Kinds]
  /\ locked \in [Conns -> BOOLEAN]
  /\ inbox \in [Conns -> 0 .. MaxInbox]
  /\ peer \in [Conns -> {"up", "deaf", "gone"}]
  /\ owner \in [Conns -> Devices]
  /\ accepted \in 0 .. MaxConn
  /\ pstate \in [Pushers -> {"idle", "lock", "send", "drop"}]
  /\ pdev \in [Pushers -> Keys]
  /\ pconn \in [Pushers -> Conns \cup {NoConn}]
  /\ pframe \in [Pushers -> Frames]
  /\ \A t \in Pushers : pstate[t] # "idle" => pconn[t] # NoConn
  /\ round \subseteq Keys

Init ==
  /\ registry = [d \in Keys |-> NoConn]
  /\ pc = [c \in Conns |-> "idle"]
  /\ family = [c \in Conns |-> "raw"]
  /\ connDev = [c \in Conns |-> Unknown]
  /\ cur = [c \in Conns |-> "Push"]
  /\ locked = [c \in Conns |-> FALSE]
  /\ inbox = [c \in Conns |-> 0]
  /\ peer = [c \in Conns |-> "up"]
  /\ \E d \in Devices : owner = [c \in Conns |-> d]
  /\ accepted = 0
  /\ pstate = [t \in Pushers |-> "idle"]
  /\ pdev = [t \in Pushers |-> Unknown]
  /\ pconn = [t \in Pushers |-> NoConn]
  /\ pframe = [t \in Pushers |-> "query"]
  /\ round = {}

-----------------------------------------------------------------------------
(* The appliances and the network. *)

\* The connection's handler thread runs.
Serving(c) == pc[c] \notin {"idle", "closed"}

\* An appliance dials in.  It uses one connection at a time, so what it held
\* before is half-dead from now on, with whatever it sent still unread.
Connect(d) ==
  /\ accepted < MaxConn
  /\ accepted' = accepted + 1
  /\ owner' = [owner EXCEPT ![accepted + 1] = d]
  /\ peer' = [c \in Conns |->
                IF c <= accepted /\ owner[c] = d THEN "gone" ELSE peer[c]]
  /\ pc' = [pc EXCEPT ![accepted + 1] = "hello"]
  /\ UNCHANGED <<registry, family, connDev, cur, inbox,
                 locked, pushVars>>

\* The appliance loses power or Wi-Fi, or closes the connection.
Vanish(c) ==
  /\ c <= accepted /\ peer[c] # "gone"
  /\ peer' = [peer EXCEPT ![c] = "gone"]
  /\ UNCHANGED <<connVars, inbox, owner, accepted, locked, pushVars>>

\* The appliance stops reading, and the socket's buffer is full.  It may go on
\* sending, and may read again.
Stall(c) ==
  /\ c <= accepted /\ peer[c] = "up"
  /\ peer' = [peer EXCEPT ![c] = "deaf"]
  /\ UNCHANGED <<connVars, inbox, owner, accepted, locked, pushVars>>

\* The appliance sends a message.
Speak(c) ==
  /\ Serving(c) /\ peer[c] # "gone" /\ inbox[c] < MaxInbox
  /\ inbox' = [inbox EXCEPT ![c] = @ + 1]
  /\ UNCHANGED <<connVars, peer, owner, accepted, locked, pushVars>>

-----------------------------------------------------------------------------
(* The handler thread of a connection. *)

Goto(c, s) == pc' = [pc EXCEPT ![c] = s]

\* Faulty variant: a bridged connection is registered as well.
HelloRegisters(c) ==
  /\ pc[c] = "hello" /\ Passthrough
  /\ Goto(c, "bridged")
  /\ registry' = [registry EXCEPT ![owner[c]] = c]
  /\ UNCHANGED <<family, connDev, cur, netVars, locked, pushVars>>

\* The first byte tells the family.  A raw connection is served at once, a TLS
\* one after its handshake; when an upstream is configured a TLS connection is
\* bridged to it instead, unless the upstream cannot be dialled.  No other
\* thread can tell the steps of this apart.
Hello(c) ==
  /\ pc[c] = "hello"
  /\ \/ /\ \E f \in Families : family' = [family EXCEPT ![c] = f]
        /\ Goto(c, "recv")
     \/ /\ Passthrough /\ "tls" \in Families
        /\ family' = [family EXCEPT ![c] = "tls"]
        /\ Goto(c, "bridged")
  /\ UNCHANGED <<registry, connDev, cur, netVars, locked, pushVars>>

\* A bridged connection is only observed: its snapshots are ingested, it is
\* never registered, and the handler returns when the bridge ends.
Bridge(c) ==
  /\ pc[c] = "bridged"
  /\ \/ /\ inbox[c] > 0
        /\ inbox' = [inbox EXCEPT ![c] = @ - 1]
        /\ UNCHANGED pc
     \/ /\ inbox[c] = 0 \/ peer[c] = "gone"
        /\ Goto(c, "cleanup")
        /\ UNCHANGED inbox
  /\ UNCHANGED <<registry, family, connDev, cur, peer, owner, accepted,
                 locked, pushVars>>

\* A message is taken from the socket and worked on.  Its header names the
\* appliance, or has no device id and leaves dev_id as it was; whatever it says
\* it registers this connection for dev_id.  handle_incoming acknowledges a
\* DevInfo, and likewise Alive, Mon Start and Mon Stop (kind Alive); it ingests
\* a snapshot that decodes and whose device is mapped, and does nothing for an
\* ack of our own frames or an unknown message (kind Push).
Receive(c) ==
  /\ pc[c] = "recv" /\ inbox[c] > 0
  /\ inbox' = [inbox EXCEPT ![c] = @ - 1]
  /\ \/ Headerless /\ UNCHANGED connDev
     \/ connDev' = [connDev EXCEPT ![c] = owner[c]]
  /\ registry' = [registry EXCEPT ![connDev'[c]] = c]
  /\ \/ /\ \E k \in {"DevInfo", "Alive"} : cur' = [cur EXCEPT ![c] = k]
        /\ Goto(c, "ack")
     \/ UNCHANGED <<pc, cur>>
  /\ UNCHANGED <<family, peer, owner, accepted, locked, pushVars>>

\* Faulty variant: no timeout on the socket, so only EOF ends a handler.
HangUpAtEof(c) ==
  /\ pc[c] = "recv" /\ inbox[c] = 0 /\ peer[c] = "up"
  /\ Goto(c, "cleanup")
  /\ UNCHANGED <<registry, family, connDev, cur, netVars, locked,
                 pushVars>>

\* The handler ends: no first byte, a failed handshake, EOF, a read timeout
\* (the peer was silent, alive or not) or a reset that discards unread data.
HangUp(c) ==
  /\ \/ pc[c] = "hello"
     \/ pc[c] = "recv" /\ (inbox[c] = 0 \/ peer[c] = "gone")
  /\ Goto(c, "cleanup")
  /\ UNCHANGED <<registry, family, connDev, cur, netVars, locked,
                 pushVars>>

\* Faulty variant: the handler replies without waiting for the lock.
TakeLockAnyway(c) ==
  /\ locked' = [locked EXCEPT ![c] = TRUE]
  /\ \/ pc[c] = "ack" /\ Goto(c, "ackSend")
     \/ pc[c] = "mon" /\ Goto(c, "monSend")
  /\ UNCHANGED <<registry, family, connDev, cur, netVars, pushVars>>

\* `with send_lock:` around the reply and around the Mon Start.
TakeLock(c) ==
  /\ ~locked[c]
  /\ locked' = [locked EXCEPT ![c] = TRUE]
  /\ \/ pc[c] = "ack" /\ Goto(c, "ackSend")
     \/ pc[c] = "mon" /\ Goto(c, "monSend")
  /\ UNCHANGED <<registry, family, connDev, cur, netVars,
                 pushVars>>

\* sendall can raise when the appliance is gone, and by the timeout of the socket
\* when it does not read; a frame can still disappear into the socket's buffer.
\* A raw socket is closed with its handler; a TLS socket stays usable for whoever
\* still refers to it.
CanFail(c) == peer[c] # "up" \/ pc[c] = "closed"
CanSend(c) == ~(family[c] = "raw" /\ pc[c] = "closed")

Unlock(c) == locked' = [locked EXCEPT ![c] = FALSE]

\* Faulty variant: a DevInfo is acknowledged but not followed by a Mon Start.
SendReplyOnly(c) ==
  /\ pc[c] = "ackSend"
  /\ Goto(c, "recv")
  /\ cur' = [cur EXCEPT ![c] = "Push"]
  /\ Unlock(c)
  /\ UNCHANGED <<registry, family, connDev, netVars, pushVars>>

\* The reply and, after a DevInfo, the Mon Start that asks for snapshots.
SendReply(c) ==
  /\ \/ /\ pc[c] = "ackSend"
        /\ Goto(c, IF cur[c] = "DevInfo" THEN "mon" ELSE "recv")
        /\ cur' = IF cur[c] = "DevInfo" THEN cur ELSE [cur EXCEPT ![c] = "Push"]
     \/ /\ pc[c] = "monSend"
        /\ Goto(c, "recv")
        /\ cur' = [cur EXCEPT ![c] = "Push"]
  /\ Unlock(c)
  /\ UNCHANGED <<registry, family, connDev, netVars, pushVars>>

\* Faulty variant: acquire and release without `with`, so a raise keeps the lock.
FailReplyLocked(c) ==
  /\ pc[c] \in {"ackSend", "monSend"} /\ CanFail(c)
  /\ Goto(c, "cleanup")
  /\ cur' = [cur EXCEPT ![c] = "Push"]
  /\ UNCHANGED <<registry, family, connDev, netVars, locked, pushVars>>

\* The send raises: the lock is released and the handler ends.
FailReply(c) ==
  /\ pc[c] \in {"ackSend", "monSend"}
  /\ CanFail(c)
  /\ Unlock(c)
  /\ Goto(c, "cleanup")
  /\ cur' = [cur EXCEPT ![c] = "Push"]
  /\ UNCHANGED <<registry, family, connDev, netVars,
                 pushVars>>

\* Faulty variant: the entry goes whoever's it is.
UnregisterAny(d, c) == registry' = [registry EXCEPT ![d] = NoConn]

\* unregister(dev_id, sock): only if the entry is still this connection's.
Unregister(d, c) ==
  registry' = IF registry[d] = c THEN [registry EXCEPT ![d] = NoConn]
                                 ELSE registry

\* The finally clause; a connection that never named a device skips it.  The
\* thread's locals and what its socket has not delivered are gone after it.
Finish(c) ==
  /\ pc[c] = "cleanup"
  /\ IF connDev[c] = Unknown THEN UNCHANGED registry
                             ELSE Unregister(connDev[c], c)
  /\ Goto(c, "closed")
  /\ connDev' = [connDev EXCEPT ![c] = Unknown]
  /\ inbox' = [inbox EXCEPT ![c] = 0]
  /\ UNCHANGED <<family, cur, peer, owner, accepted, locked, pushVars>>

-----------------------------------------------------------------------------
(* The threads that push. *)

\* devices(): the keys that are registered now.
Registered == {d \in Keys : registry[d] # NoConn}

\* Faulty variant: pushes on the connection accepted last.
AimAtLast(t, d, f) ==
  /\ pstate' = [pstate EXCEPT ![t] = "lock"]
  /\ pdev' = [pdev EXCEPT ![t] = d]
  /\ pconn' = [pconn EXCEPT ![t] = accepted]
  /\ pframe' = [pframe EXCEPT ![t] = f]

\* A pusher remembers the entry as it is now.
Aim(t, d, f) ==
  /\ pstate' = [pstate EXCEPT ![t] = "lock"]
  /\ pdev' = [pdev EXCEPT ![t] = d]
  /\ pconn' = [pconn EXCEPT ![t] = registry[d]]
  /\ pframe' = [pframe EXCEPT ![t] = f]

\* _push up to the send_lock: without an entry it returns False at once.
Lookup(t, d, f) ==
  /\ pstate[t] = "idle"
  /\ IF registry[d] = NoConn THEN UNCHANGED <<pstate, pdev, pconn, pframe>>
                             ELSE Aim(t, d, f)
  /\ UNCHANGED <<connVars, netVars, locked>>

\* query_state, which allow_control does not gate.
QueryState(t, d) == t \in Requesters /\ Lookup(t, d, "query") /\ UNCHANGED round

\* send_command, refused while allow_control is off.
SendCommand(t, d) ==
  /\ t \in Requesters /\ AllowControl
  /\ Lookup(t, d, "command")
  /\ UNCHANGED round

\* A polling round takes the registered devices once, then queries them one
\* after the other; a device that disconnected meanwhile is passed over.
PollRound ==
  /\ Polling /\ pstate[Poller] = "idle" /\ round = {} /\ Registered # {}
  /\ round' = Registered
  /\ UNCHANGED <<connVars, netVars, locked, pstate, pdev, pconn, pframe>>

\* Faulty variant: the round waits for a device that disconnected.
PollNextWaits(d) ==
  /\ d \in round /\ registry[d] # NoConn
  /\ Lookup(Poller, d, "query")
  /\ round' = round \ {d}

PollNext(d) ==
  /\ d \in round
  /\ Lookup(Poller, d, "query")
  /\ round' = round \ {d}

\* The pusher takes the send_lock of the entry it looked up before.
PushLock(t) ==
  /\ pstate[t] = "lock" /\ ~locked[pconn[t]]
  /\ locked' = [locked EXCEPT ![pconn[t]] = TRUE]
  /\ pstate' = [pstate EXCEPT ![t] = "send"]
  /\ UNCHANGED <<connVars, netVars, pdev, pconn, pframe, round>>

\* The pusher is done: it releases the lock and forgets the entry.
Return(t) ==
  /\ Unlock(pconn[t])
  /\ pstate' = [pstate EXCEPT ![t] = "idle"]
  /\ pdev' = [pdev EXCEPT ![t] = Unknown]
  /\ pconn' = [pconn EXCEPT ![t] = NoConn]
  /\ pframe' = [pframe EXCEPT ![t] = "query"]
  /\ UNCHANGED round

PushSend(t) ==
  /\ pstate[t] = "send" /\ CanSend(pconn[t])
  /\ Return(t)
  /\ UNCHANGED <<connVars, netVars>>

PushFail(t) ==
  /\ pstate[t] = "send" /\ CanFail(pconn[t])
  /\ pstate' = [pstate EXCEPT ![t] = "drop"]
  /\ UNCHANGED <<connVars, netVars, locked, pdev, pconn, pframe, round>>

\* After a failed send the entry is popped if it is still this socket's; the
\* send_lock is held until then.
PushDrop(t) ==
  /\ pstate[t] = "drop"
  /\ Unregister(pdev[t], pconn[t])
  /\ Return(t)
  /\ UNCHANGED <<pc, family, connDev, cur, netVars>>

-----------------------------------------------------------------------------
HandlerRun(c) == \/ Hello(c) \/ Receive(c) \/ HangUp(c)
                 \/ SendReply(c) \/ FailReply(c) \/ Finish(c)

PusherRun(t) == PushSend(t) \/ PushFail(t) \/ PushDrop(t)

\* /debug/query passes any name on; commands go to devices the store knows.
Request(t) == \/ \E d \in Keys : QueryState(t, d)
              \/ \E d \in Devices : SendCommand(t, d)

Next == \/ \E d \in Devices : Connect(d)
        \/ \E c \in Conns : \/ Vanish(c) \/ Stall(c) \/ Speak(c) \/ Bridge(c)
                            \/ HandlerRun(c) \/ TakeLock(c)
        \/ \E t \in Pushers : Request(t) \/ PushLock(t) \/ PusherRun(t)
        \/ PollRound
        \/ \E d \in Keys : PollNext(d)

Spec == Init /\ [][Next]_vars

\* The handlers and pushers are threads: each keeps running, and every socket
\* operation of theirs ends, if only by the timeout set on the socket (60 s,
\* 15 s, 300 s).  A thread that waits for a send_lock which is released again
\* and again gets it.  Appliances and requesters need not do anything, and nothing
\* is assumed of a bridge, which is the subject of a module of its own.
Fairness ==
  /\ \A c \in Conns : WF_vars(HandlerRun(c)) /\ SF_vars(TakeLock(c))
  /\ \A t \in Pushers : WF_vars(PusherRun(t)) /\ SF_vars(PushLock(t))
  /\ WF_vars(\E d \in Keys : PollNext(d))

FairSpec == Spec /\ Fairness

-----------------------------------------------------------------------------
(* Properties. *)

HandlerHolds(c)   == pc[c] \in {"ackSend", "monSend"}
PusherHolds(t, c) == pstate[t] \in {"send", "drop"} /\ pconn[t] = c

\* TLS sockets are not safe for concurrent writes: of the handler's replies and
\* everybody's pushes at most one is inside sendall on a connection, and none
\* is unless the connection's send_lock is taken.
SendExclusion ==
  \A c \in Conns :
    /\ HandlerHolds(c) => locked[c] /\ \A t \in Pushers : ~PusherHolds(t, c)
    /\ \A t \in Pushers :
         PusherHolds(t, c) =>
           locked[c] /\ \A u \in Pushers : PusherHolds(u, c) => u = t

\* A send_lock is never left taken by a thread that is past it (a lost release
\* would silence the connection for every later reply, query and command).
NoAbandonedLock ==
  \A c \in Conns :
    locked[c] => HandlerHolds(c) \/ \E t \in Pushers : PusherHolds(t, c)

\* What a device is routed to is a connection that this very appliance dialled,
\* that named it, and whose handler is still running: commands cannot end up at
\* another appliance or be sent for ever into a socket nobody serves.
RouteSound ==
  \A d \in Devices : LET c == registry[d] IN
    c # NoConn => owner[c] = d /\ connDev[c] = d /\ Serving(c)

\* A thread about to write for an appliance holds a socket of that appliance,
\* however long ago it looked the entry up.
PushOnOwnSocket ==
  \A t \in Pushers :
    pstate[t] # "idle" /\ pdev[t] \in Devices => owner[pconn[t]] = pdev[t]

\* In passthrough mode the local query and command paths are inert: a bridged
\* connection is neither a route to anything nor about to be written to, since
\* its bytes belong to the bridge.
BridgeInert ==
  \A c \in Conns : pc[c] = "bridged" =>
    /\ \A k \in Keys : registry[k] # c
    /\ \A t \in Pushers : pconn[t] # c

\* With allow_control off no Control frame is written to any appliance, while
\* the read-only queries and acknowledgements go on.
GateHolds ==
  ~AllowControl =>
    \A t \in Pushers : pstate[t] = "send" => pframe[t] # "command"

\* The channel implements the routing table: in particular an entry disappears
\* only with its own connection or after a failed send on it, and a failed or
\* late thread of an old connection never takes a newer one's entry away.
RT == INSTANCE RoutingTable WITH
        table <- [d \in Devices |-> registry[d]],
        open  <- {c \in Conns : Serving(c)},
        lost  <- {c \in Conns : peer[c] # "up"},
        line  <- owner
ImplementsRoutingTable == RT!Spec

\* A half-dead connection is eventually forgotten: its handler times out, and
\* no appliance stays routed to it.
DeadPeerForgotten ==
  \A c \in Conns :
    peer[c] = "gone" ~> \A d \in Devices : registry[d] # c

\* A thread that asks the channel to push gets an answer, whatever the
\* appliance and the other threads do.
PushReturns ==
  \A t \in Pushers : pstate[t] # "idle" ~> pstate[t] = "idle"

\* A polling round that has begun comes to its end, so that every appliance in
\* it had its turn, even when others of them are half-dead or do not read.
RoundEnds == round # {} ~> round = {}

\* An appliance that announces itself is acknowledged and asked for snapshots,
\* or its handler gives the connection up.
DevInfoAnswered ==
  \A c \in Conns :
    pc[c] = "ack" /\ cur[c] = "DevInfo"
      ~> pc[c] \in {"monSend", "closed"}

\* unregister's docstring: a superseded handler never unregisters the
\* appliance's newer live connection.  So the newest connection of an appliance,
\* once it is registered and while it lives, is its route when every older
\* handler is done.
NewerLiveStaysReachable ==
  \A c \in Conns : LET d == owner[c] IN
    (/\ peer[c] = "up" /\ connDev[c] = d
     /\ pc[c] \in {"recv", "ack", "ackSend", "mon", "monSend"}
     /\ \A b \in 1 .. accepted : b # c /\ owner[b] = d => pc[b] = "closed")
    => registry[d] = c
=============================================================================
