---------------------------- MODULE LocalBridge ----------------------------
(***************************************************************************)
(* The washer bridge of server/wm_local_bridge.py, a process of its own that *)
(* shows the washer's snapshots from the relay log in Home Assistant: it    *)
(* replays the tail of the log, then follows it, and republishes what it    *)
(* shows while the log is quiet.  Its supervisor restarts it when it ends.  *)
(*                                                                         *)
(* A line carries a snapshot with a value in it (snap), a snapshot whose    *)
(* every value is blank (blank), or nothing of the washer (chatter).  No two *)
(* snapshots are equal, so a line's number stands for what it decodes to.   *)
(***************************************************************************)
EXTENDS RelayLog

CONSTANTS Window,       \* lines replayed at the start (3000)
          MaxRestarts   \* bound: restarts in one execution

ASSUME BridgeAssumption == /\ Kinds \subseteq {"snap", "blank", "chatter"}
                           /\ Window \in Nat /\ MaxRestarts \in Nat

VARIABLES bpc,       \* "start", "open" or "follow"
          pos,       \* the position in the open file
          last,      \* the local last: the line it came from, or NoLine
          shown,     \* the line whose snapshot the broker retains, or NoLine
          restarts

bridgeVars  == <<bpc, pos, last, shown, restarts>>
processVars == <<logVars, bridgeVars>>

NoLine == 0

BridgeTypeOK == /\ LogTypeOK
                /\ bpc \in {"start", "open", "follow"}
                /\ pos \in 0 .. MaxLines
                /\ last \in 0 .. MaxLines /\ shown \in 0 .. MaxLines
                /\ restarts \in 0 .. MaxRestarts
                /\ last <= Len(kind) /\ shown <= Len(kind)

BridgeInit == /\ LogInit
              /\ bpc = "start" /\ pos = 0 /\ last = NoLine /\ shown = NoLine
              /\ restarts = 0

LastLines(s, n) == IF Len(s) <= n THEN s ELSE SubSeq(s, Len(s) - n + 1, Len(s))

Carries(l, K) == l # NoLine /\ kind[l] \in K

\* The last line of s that carries one of K.
LastCarrying(s, K) ==
  LET L == {l \in Decoded(s) : Carries(l, K)}
  IN  IF L = {} THEN NoLine ELSE CHOOSE l \in L : \A m \in L : m <= l

\* publish is a QoS 0 publish: without a link to the broker it is lost.
Show(l) == shown' \in {shown, l}

\* The tail is replayed into `last`, blank snapshots too; what is not blank in
\* the end is published.
Replay == /\ bpc = "start"
          /\ last' = LastCarrying(LastLines(file, Window), {"snap", "blank"})
          /\ Show(IF Carries(last', {"snap"}) THEN last' ELSE shown)
          /\ bpc' = "open"
          /\ UNCHANGED <<pos, restarts>>

\* The log is opened a second time, at its end.
Open == /\ bpc = "open"
        /\ pos' = Len(file) /\ bpc' = "follow"
        /\ UNCHANGED <<last, shown, restarts>>

\* Faulty variant: a snapshot is shown only while nothing else is.
ReadLineOnce == /\ bpc = "follow" /\ pos < Len(file)
                /\ pos' = pos + 1
                /\ LET l == file[pos'] IN
                   /\ last' = IF last = NoLine /\ Carries(l, {"snap"}) /\ Complete(l)
                                THEN l ELSE last
                   /\ shown' = IF last = NoLine THEN last' ELSE shown
                /\ UNCHANGED <<bpc, restarts>>

\* The next line is shown if it carries a snapshot that is not blank.
ReadLine == /\ bpc = "follow" /\ pos < Len(file)
            /\ pos' = pos + 1
            /\ IF Carries(file[pos'], {"snap"}) /\ Complete(file[pos'])
                 THEN last' = file[pos'] /\ Show(last')
                 ELSE UNCHANGED <<last, shown>>
            /\ UNCHANGED <<bpc, restarts>>

\* Faulty variant: a file that did not shrink is read from the top, too.
QuietRewinds == /\ bpc = "follow" /\ pos >= Len(file)
                /\ pos' = 0
                /\ UNCHANGED <<bpc, last, shown, restarts>>

\* Nothing to read: the heartbeat may be due, and a file that shrank is read
\* from the top.
Quiet == /\ bpc = "follow" /\ pos >= Len(file)
         /\ Show(IF last = NoLine THEN shown ELSE last)
         /\ pos' = IF Len(file) < pos THEN 0 ELSE pos
         /\ UNCHANGED <<bpc, last, restarts>>

\* The process ends (a line cut after an odd number of digits raises, for one) and
\* is started again; the broker keeps what it retains.
Restart == /\ bpc # "start" /\ restarts < MaxRestarts
           /\ restarts' = restarts + 1
           /\ bpc' = "start" /\ last' = NoLine /\ pos' = 0
           /\ UNCHANGED shown

Bridge     == Replay \/ Open \/ ReadLine \/ Quiet
BridgeNext == \/ LogNext /\ UNCHANGED bridgeVars
              \/ (Bridge \/ Restart) /\ UNCHANGED logVars
BridgeSpec == BridgeInit /\ [][BridgeNext]_processVars

\* The process runs, and while the log stays quiet one of its heartbeats gets
\* through in the end; the relay, the cap and the restarts need not do anything.
FairBridgeSpec == /\ BridgeSpec
                  /\ WF_processVars(Bridge /\ UNCHANGED logVars)
                  /\ WF_processVars(Quiet /\ shown' = last /\ UNCHANGED logVars)

-----------------------------------------------------------------------------
(* Properties. *)

\* Home Assistant is taken back to an older snapshot only when the cap has
\* truncated the log, whatever blanks, restarts and short replays there are.
ShownAdvances == [][shown' >= shown \/ Truncated]_shown

\* A snapshot that is all there before the bridge reads it is eventually shown or
\* overtaken by a newer one, even if its publish is lost, unless the bridge ends
\* or the log is truncated.
CatchesUp ==
  \A l \in 1 .. MaxLines, r \in 0 .. MaxRestarts :
    /\ bpc = "follow" /\ restarts = r
    /\ pos < Len(file) /\ file[Len(file)] = l /\ Carries(l, {"snap"}) /\ Complete(l)
    ~> shown >= l \/ restarts > r \/ Truncated
=============================================================================
