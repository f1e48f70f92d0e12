---------------------------- MODULE RoutingTable ----------------------------
(***************************************************************************)
(* What the rest of the program may rely on when it asks the :47878 channel *)
(* to reach an appliance: a table from device to connection.  This is the   *)
(* contract the docstrings of ControlChannel.register, unregister and _push *)
(* promise, without threads, locks, framing or sends.  ControlChannel is    *)
(* shown to implement it.                                                   *)
(***************************************************************************)
EXTENDS Naturals

CONSTANTS Devices,   \* the appliances' device ids
          MaxConn    \* how many connections are accepted in all

NoConn == 0
Conns  == 1 .. MaxConn

VARIABLES table,   \* the connection each device is routed to
          open,    \* the connections some handler serves
          lost,    \* the connections whose appliance is no longer there
          line     \* the appliance that dialled each connection

rtvars == <<table, open, lost, line>>

RTTypeOK == /\ table \in [Devices -> Conns \cup {NoConn}]
            /\ open \subseteq Conns
            /\ lost \subseteq Conns
            /\ line \in [Conns -> Devices]

Init == /\ table = [d \in Devices |-> NoConn]
        /\ open = {}
        /\ lost = {}
        /\ line \in [Conns -> Devices]

\* An appliance dials in; connections it held before may be lost by that.
Dial(c, d) ==
  /\ c \notin open
  /\ open' = open \cup {c}
  /\ line' = [line EXCEPT ![c] = d]
  /\ \E old \in SUBSET {b \in Conns \ {c} : line[b] = d} : lost' = lost \cup old
  /\ UNCHANGED table

\* A connection's appliance goes away, or reads no more, without anybody being
\* told.
Lose(c) == /\ lost' = lost \cup {c}
           /\ UNCHANGED <<table, open, line>>

\* A message of the appliance makes its connection the route to it.
Announce(c) == /\ c \in open
               /\ table' = [table EXCEPT ![line[c]] = c]
               /\ UNCHANGED <<open, lost, line>>

\* Outside Close a route disappears only when its own connection is lost.
Drop(d) == /\ table[d] \in lost
           /\ table' = [table EXCEPT ![d] = NoConn]
           /\ UNCHANGED <<open, lost, line>>

\* A connection that is closed takes its own route along and no other.
Close(c) == /\ c \in open
            /\ open' = open \ {c}
            /\ table' = [d \in Devices |->
                           IF table[d] = c THEN NoConn ELSE table[d]]
            /\ UNCHANGED <<lost, line>>

Next == \/ \E c \in Conns : \/ \E d \in Devices : Dial(c, d)
                            \/ Lose(c) \/ Announce(c) \/ Close(c)
        \/ \E d \in Devices : Drop(d)

Spec == Init /\ [][Next]_rtvars
=============================================================================
