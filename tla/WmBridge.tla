------------------------------ MODULE WmBridge ------------------------------
(***************************************************************************)
(* The full-duplex TLS bridge of server/wm_bridge.py, which passthrough     *)
(* mode runs for every WM appliance (and deploy/wm_relay.py in its own copy *)
(* of the engine): one thread, two TLS ends over memory BIOs, one selector. *)
(*                                                                         *)
(* End "C" is the appliance's, end "U" the one of LG's edge.  What travels  *)
(* are handshake flights, application records, numbered per direction in    *)
(* the order they were sent, and the end of a stream.  One iteration of the *)
(* loop is four steps, between which the peers and the network move.        *)
(***************************************************************************)
EXTENDS Integers, Sequences, SequencesExt

CONSTANTS MaxSent,   \* bound: application records each peer sends
          MaxQuiet   \* selector timeouts (5 s) that fit in idle_timeout (300 s)

ASSUME BridgeAssumption == MaxSent \in Nat /\ MaxQuiet \in Nat

Ends     == {"C", "U"}
Other(e) == IF e = "C" THEN "U" ELSE "C"

Flight == 0                       \* a handshake flight
Eof    == -1                      \* the end of the stream, clean or ragged

\* The records among the items of s; and that they are in the order in which they
\* were sent, none twice.
Records(s) == {s[i] : i \in DOMAIN s} \ {Flight, Eof}
InOrder(s) == \A i, j \in DOMAIN s : i < j /\ s[i] > 0 /\ s[j] > 0 => s[i] < s[j]

EndsIn(s, i) == s # <<>> /\ Last(s) = i

VARIABLES
  pc,          \* the step of the loop the thread is at
  progressed,  \* the loop's local of that name
  quiet,       \* selector timeouts since last_alive
  hs,          \* End.handshaken, and how far the handshake is before it
  dead,        \* End.dead
  inb,         \* End.inb: received, not yet read by the TLS layer
  out,         \* End.outb and End.pending: not yet accepted by the socket
  seen,        \* what on_client_data was called with
  net,         \* sent by the end's peer, not yet received
  flights,     \* handshake flights the peer has sent
  sent,        \* records the peer has sent
  got,         \* what the peer was sent by the end
  full,        \* the socket's send buffer is full
  reset        \* the peer has reset the connection

loopVars == <<pc, progressed, quiet>>
endVars  == <<hs, dead, inb, out, seen>>
peerVars == <<net, flights, sent, got, full, reset>>
vars     == <<loopVars, endVars, peerVars>>

Items == -1 .. MaxSent

TypeOK ==
  /\ pc \in {"drive", "pump", "push", "select", "closed"}
  /\ progressed \in BOOLEAN /\ quiet \in 0 .. MaxQuiet
  /\ hs \in [Ends -> {"start", "wait", "done"}]
  /\ dead \in [Ends -> BOOLEAN]
  /\ \A q \in {inb, out, net, got} : q \in [Ends -> Seq(Items)]
  /\ seen \in Seq(1 .. MaxSent)
  /\ flights \in [Ends -> 0 .. 2] /\ sent \in [Ends -> 0 .. MaxSent]
  /\ full \in [Ends -> BOOLEAN] /\ reset \in [Ends -> BOOLEAN]

Init ==
  /\ pc = "drive" /\ progressed = FALSE /\ quiet = 0
  /\ hs = [e \in Ends |-> "start"] /\ dead = [e \in Ends |-> FALSE]
  /\ inb = [e \in Ends |-> <<>>] /\ out = [e \in Ends |-> <<>>]
  /\ seen = <<>>
  /\ net = [e \in Ends |-> <<>>] /\ got = [e \in Ends |-> <<>>]
  /\ flights = [e \in Ends |-> 0] /\ sent = [e \in Ends |-> 0]
  /\ full = [e \in Ends |-> FALSE] /\ reset = [e \in Ends |-> FALSE]

-----------------------------------------------------------------------------
(* The peers and the network. *)

Speaks(e) == pc # "closed" /\ ~reset[e] /\ ~Contains(net[e], Eof)
Put(e, i) == net' = [net EXCEPT ![e] = Append(@, i)]

\* The appliance opens the handshake and finishes it after our flight; LG's
\* edge answers ours.
AllFlights(e) == IF e = "C" THEN 2 ELSE 1

PeerFlight(e) ==
  /\ Speaks(e)
  /\ \/ e = "C" /\ flights[e] = 0
     \/ flights[e] = AllFlights(e) - 1 /\ Contains(got[e], Flight)
  /\ flights' = [flights EXCEPT ![e] = @ + 1]
  /\ Put(e, Flight)
  /\ UNCHANGED <<loopVars, endVars, sent, got, full, reset>>

PeerSend(e) ==
  /\ Speaks(e) /\ flights[e] = AllFlights(e) /\ sent[e] < MaxSent
  /\ sent' = [sent EXCEPT ![e] = @ + 1]
  /\ Put(e, sent'[e])
  /\ UNCHANGED <<loopVars, endVars, flights, got, full, reset>>

PeerClose(e) ==
  /\ Speaks(e)
  /\ Put(e, Eof)
  /\ UNCHANGED <<loopVars, endVars, flights, sent, got, full, reset>>

PeerReset(e) ==
  /\ pc # "closed" /\ ~reset[e]
  /\ reset' = [reset EXCEPT ![e] = TRUE]
  /\ UNCHANGED <<loopVars, endVars, net, flights, sent, got, full>>

\* The peer reads, and the send buffer has room again.
PeerReads(e) ==
  /\ pc # "closed" /\ full[e]
  /\ full' = [full EXCEPT ![e] = FALSE]
  /\ UNCHANGED <<loopVars, endVars, net, flights, sent, got, reset>>

-----------------------------------------------------------------------------
(* The loop. *)

HeadIs(e, i) == inb[e] # <<>> /\ Head(inb[e]) = i
AnyDead      == \E e \in Ends : dead[e]
BothDone     == \A e \in Ends : hs[e] = "done"

\* `while not (client_end.dead or up_end.dead)`
Stop ==
  /\ pc = "drive" /\ AnyDead
  /\ pc' = "closed"
  /\ UNCHANGED <<progressed, quiet, endVars, peerVars>>

\* do_handshake takes a flight that has come, or opens towards LG's edge.
Takes(e)    == hs[e] # "done" /\ HeadIs(e, Flight)
Advanced(e) == IF hs[e] = "start" /\ (e = "U" \/ Takes(e)) THEN "wait"
               ELSE IF hs[e] = "wait" /\ Takes(e) THEN "done" ELSE hs[e]

\* Both handshakes are advanced.  A flight may be refused (an alert), and the
\* end of the stream fails a handshake.  A handshake that completes is progress,
\* and so is a flight of ours, which the drain of this iteration will find.
Drive ==
  /\ pc = "drive" /\ ~AnyDead
  /\ \E refused \in SUBSET {e \in Ends : Takes(e)} :
       /\ hs' = [e \in Ends |-> IF e \in refused THEN hs[e] ELSE Advanced(e)]
       /\ dead' = [e \in Ends |->
                     e \in refused \/ (hs[e] # "done" /\ HeadIs(e, Eof))]
  /\ inb' = [e \in Ends |-> IF Takes(e) THEN Tail(inb[e]) ELSE inb[e]]
  /\ out' = [e \in Ends |-> IF hs[e] = "start" /\ hs'[e] = "wait"
                              THEN Append(out[e], Flight) ELSE out[e]]
  /\ progressed' = (hs' # hs)
  /\ pc' = "pump"
  /\ UNCHANGED <<quiet, seen, peerVars>>

\* How many records read_plain decrypts before it wants more or finds the end.
Ready(e) == CHOOSE n \in 0 .. Len(inb[e]) :
              /\ \A i \in 1 .. n : inb[e][i] > 0
              /\ n < Len(inb[e]) => inb[e][n + 1] <= 0
Ended(e) == EndsIn(inb[e], Eof)

Forward(n) ==
  /\ inb' = [e \in Ends |-> SubSeq(inb[e], n[e] + 1, Len(inb[e]))]
  /\ out' = [e \in Ends |-> out[e] \o SubSeq(inb[Other(e)], 1, n[Other(e)])]
  /\ progressed' = (progressed \/ \E e \in Ends : n[e] > 0)
  /\ quiet' = IF \E e \in Ends : n[e] > 0 THEN 0 ELSE quiet
  /\ pc' = "push"

\* Faulty variant: the observer is called once per iteration.
ObserveFirst(n) ==
  seen' = IF n > 0 THEN Append(seen, Head(inb["C"])) ELSE seen

\* on_client_data is called with each record of the appliance.
Observe(n) == seen' = seen \o SubSeq(inb["C"], 1, n)

\* Faulty variant: an end is read as soon as its own handshake is through, and
\* what the other end cannot encrypt yet is dropped.
PumpEarly ==
  /\ pc = "pump" /\ pc' = "push"
  /\ inb' = [e \in Ends |-> IF hs[e] = "done"
                              THEN SubSeq(inb[e], Ready(e) + 1, Len(inb[e]))
                              ELSE inb[e]]
  /\ out' = [e \in Ends |-> IF BothDone THEN
                                out[e] \o SelectSeq(inb[Other(e)], LAMBDA i : i > 0)
                              ELSE out[e]]
  /\ UNCHANGED <<progressed, quiet, hs, dead, seen, peerVars>>

\* Faulty variant: one record is read per iteration, and that is no progress.
PumpOnce ==
  /\ pc = "pump" /\ pc' = "push"
  /\ LET n == [e \in Ends |-> IF BothDone /\ Ready(e) > 0 THEN 1 ELSE 0] IN
       /\ inb' = [e \in Ends |-> SubSeq(inb[e], n[e] + 1, Len(inb[e]))]
       /\ out' = [e \in Ends |-> out[e] \o SubSeq(inb[Other(e)], 1, n[Other(e)])]
       /\ Observe(n["C"])
  /\ UNCHANGED <<progressed, quiet, hs, dead, peerVars>>

\* Once both ends are through their handshakes everything that can be decrypted
\* is observed and encrypted for the other end: the appliance's first, and LG's
\* unless the appliance's stream has ended.  That tls.write fails behind the
\* observer is left out: it writes to memory, on a session that is established and
\* that this loop has just found alive.
Pump ==
  /\ pc = "pump"
  /\ IF BothDone /\ ~AnyDead
       THEN LET n == [e \in Ends |->
                        IF e = "U" /\ Ended("C") THEN 0 ELSE Ready(e)]
            IN /\ Forward(n) /\ Observe(n["C"])
               /\ dead' = [e \in Ends |-> Ended(e) /\ (e = "U" => ~Ended("C"))]
       ELSE pc' = "push" /\ UNCHANGED <<progressed, quiet, dead, inb, out, seen>>
  /\ UNCHANGED <<hs, peerVars>>

\* Faulty variant: nothing is flushed once an end is dead.
AcceptedAlive(e, W) ==
  IF AnyDead \/ e \notin W \/ out[e] = <<>> \/ full[e] \/ reset[e]
    THEN {0} ELSE 1 .. Len(out[e])

\* The ends in W flush: the socket takes a part of what is pending, after which
\* its buffer is full, or all of it; a full buffer takes nothing, a reset
\* connection fails.
Accepted(e, W) ==
  IF e \notin W \/ out[e] = <<>> \/ full[e] \/ reset[e] THEN {0} ELSE 1 .. Len(out[e])

Flush(k) ==
  /\ got' = [e \in Ends |-> got[e] \o SubSeq(out[e], 1, k[e])]
  /\ out' = [e \in Ends |-> SubSeq(out[e], k[e] + 1, Len(out[e]))]
  /\ full' = [e \in Ends |-> full[e] \/ (k[e] > 0 /\ k[e] < Len(out[e]))]

Broken(e) == out[e] # <<>> /\ reset[e]

Push ==
  /\ pc = "push"
  /\ \E c \in Accepted("C", Ends), u \in Accepted("U", Ends) :
       LET k == [e \in Ends |-> IF e = "C" THEN c ELSE u] IN
         /\ Flush(k)
         /\ dead' = [e \in Ends |-> dead[e] \/ Broken(e)]
         /\ pc' = IF \E e \in Ends : dead'[e] THEN "closed"
                  ELSE IF progressed \/ c > 0 \/ u > 0 THEN "drive"
                  ELSE "select"
  /\ progressed' = FALSE
  /\ UNCHANGED <<quiet, hs, inb, seen, net, flights, sent, reset>>

Readable(e) == net[e] # <<>> \/ reset[e]
Writable(e) == out[e] # <<>> /\ (~full[e] \/ reset[e])

\* recv takes what has come before the end of the stream; there it says so every
\* time.
Coming(e)   == IF EndsIn(net[e], Eof) THEN Front(net[e]) ELSE net[e]
Received(e) == IF net[e] # <<Eof>> THEN Coming(e)
               ELSE IF Ended(e) THEN <<>> ELSE <<Eof>>

\* The selector reports every end that is ready.
Wake ==
  /\ pc = "select"
  /\ LET R == {e \in Ends : Readable(e)}
         W == {e \in Ends : Writable(e)}
     IN /\ R \cup W # {}
        /\ \E c \in Accepted("C", W), u \in Accepted("U", W) :
             Flush([e \in Ends |-> IF e = "C" THEN c ELSE u])
        /\ inb' = [e \in Ends |-> IF e \in R /\ ~reset[e]
                                    THEN inb[e] \o Received(e) ELSE inb[e]]
        /\ net' = [e \in Ends |-> IF e \in R /\ ~reset[e]
                                    THEN SubSeq(net[e], Len(Coming(e)) + 1, Len(net[e]))
                                    ELSE net[e]]
        /\ dead' = [e \in Ends |-> dead[e] \/ reset[e]]
  /\ pc' = "drive"
  /\ UNCHANGED <<progressed, quiet, hs, seen, flights, sent, reset>>

\* Faulty variant: every timeout counts as activity.
TimeoutRefreshes ==
  /\ pc = "select" /\ \A e \in Ends : ~Readable(e) /\ ~Writable(e)
  /\ quiet' = 0 /\ pc' = "drive"
  /\ UNCHANGED <<progressed, endVars, peerVars>>

\* Nothing happened for 5 s: the idle timeout is looked at here and only here.
Timeout ==
  /\ pc = "select" /\ \A e \in Ends : ~Readable(e) /\ ~Writable(e)
  /\ IF quiet < MaxQuiet THEN quiet' = quiet + 1 /\ pc' = "drive"
                         ELSE pc' = "closed" /\ UNCHANGED quiet
  /\ UNCHANGED <<progressed, endVars, peerVars>>

-----------------------------------------------------------------------------
Loop == Stop \/ Drive \/ Pump \/ Push \/ Wake \/ Timeout

Peer(e) == PeerFlight(e) \/ PeerSend(e) \/ PeerClose(e) \/ PeerReset(e)
           \/ PeerReads(e)

Next == Loop \/ \E e \in Ends : Peer(e)

Spec == Init /\ [][Next]_vars

\* The thread runs; the peers need not do anything.
FairSpec == Spec /\ WF_vars(Loop)

-----------------------------------------------------------------------------
(* Properties. *)

\* Forwarding is never altered: what a peer sent is, in its order and without a
\* gap or a repetition, at the other peer, in the bridge or still on its way.
NothingLost ==
  \A e \in Ends :
    LET path == (got[Other(e)] \o out[Other(e)]) \o (inb[e] \o net[e])
    IN  InOrder(path) /\ Records(path) = 1 .. sent[e]

\* The observer is called with exactly what is forwarded to LG, once each and in
\* order.
ObserverComplete == /\ seen = [i \in 1 .. Len(seen) |-> i]
                    /\ Records(got["U"] \o out["U"]) = 1 .. Len(seen)

\* When a peer ends its stream, everything it sent before reaches the other
\* one before the bridge closes, unless that one does not take it or, for what
\* LG sent, the appliance ended its stream too.
LastWords ==
  pc = "closed" => \A e \in Ends :
    (Ended(Other(e)) /\ BothDone /\ ~full[e] /\ \A f \in Ends : ~reset[f])
      => Records(got[e]) = 1 .. sent[Other(e)] \/ (e = "C" /\ Ended("C"))

\* The selector blocks only when every step is parked: no flight or record is
\* waiting in the bridge that it could work on, nor anything a socket takes.
Parked ==
  \A e \in Ends : /\ ~Takes(e) /\ (out[e] # <<>> => full[e])
                  /\ BothDone => Ready(e) = 0 /\ ~Ended(e)
BlocksOnlyParked == [][pc' = "select" /\ pc # "select" => Parked']_vars

\* Once both handshakes are through the bridge ends when its peers have closed
\* or fallen silent, so its thread and sockets are given back.
EstablishedEnds == BothDone ~> pc = "closed"
=============================================================================
