---------------------------- MODULE RelayWatcher ----------------------------
(***************************************************************************)
(* The incremental log follower of server/observability.py, which finds     *)
(* when an appliance was last seen and the cycle-end events that travel on  *)
(* :46030.  poll() measures the file and then reads it, and the relay and   *)
(* the size cap run in between.                                             *)
(***************************************************************************)
EXTENDS RelayLog

VARIABLES offset,    \* RelayWatcher._offsets of this file, or Unseen
          from,      \* where the poll that is under way reads from, or Unseen
          times,     \* history: how often each line was processed
          armed,     \* history: the lines there were at the first poll, or Unseen
          lost       \* history: lines that a read could not make anything of

watchVars == <<offset, from, times, armed, lost>>
vars      == <<logVars, watchVars>>

Unseen == -1

TypeOK == /\ LogTypeOK
          /\ offset \in 0 .. MaxLines \cup {Unseen}
          /\ from \in 0 .. MaxLines \cup {Unseen}
          /\ times \in [1 .. MaxLines -> Nat]
          /\ armed \in 0 .. MaxLines \cup {Unseen}
          /\ lost \subseteq 1 .. MaxLines
          /\ from # Unseen => from < offset

Init == /\ LogInit
        /\ offset = Unseen /\ from = Unseen
        /\ times = [l \in 1 .. MaxLines |-> 0]
        /\ armed = Unseen /\ lost = {}

\* Faulty variant: the first poll starts at the top.
StartAtTop == IF offset = Unseen \/ Len(file) < offset THEN 0 ELSE offset

\* Where a poll reads from: a file seen for the first time is armed at its end,
\* and one that shrank is read from the top.
StartOf == IF offset = Unseen THEN Len(file)
           ELSE IF Len(file) < offset THEN 0 ELSE offset

Arm == armed' = IF armed = Unseen THEN Len(kind) ELSE armed

\* Faulty variant: the end is not remembered when the file is first seen, and is
\* taken anew at every poll.
MeasureForgets ==
  /\ from = Unseen
  /\ IF StartOf = Len(file)
       THEN UNCHANGED <<offset, from>>
       ELSE offset' = Len(file) /\ from' = StartOf
  /\ Arm
  /\ UNCHANGED <<logVars, times, lost>>

\* poll() up to the read: when there is something to read, the size measured
\* becomes the offset.
Measure ==
  /\ from = Unseen
  /\ IF StartOf = Len(file)
       THEN /\ offset' = IF offset = Unseen THEN Len(file) ELSE offset
            /\ UNCHANGED from
       ELSE offset' = Len(file) /\ from' = StartOf
  /\ Arm
  /\ UNCHANGED <<logVars, times, lost>>

\* The lines that the offset measured has passed.
Behind == {file[i] : i \in {j \in DOMAIN file : from < j /\ j <= offset}}

\* What there is to read.
Unread == SubSeq(file, from + 1, Len(file))

Process(lines) ==
  times' = [l \in 1 .. MaxLines |-> IF l \in lines THEN times[l] + 1 ELSE times[l]]

\* Faulty variant: what was appended since the file was measured is cut off,
\* and the offset is the end of the file after the read.
ReadCut ==
  /\ from # Unseen
  /\ Process(Behind)
  /\ offset' = Len(file) /\ from' = Unseen
  /\ UNCHANGED <<logVars, armed, lost>>

\* The rest of poll(): everything from there to the present end is read, and
\* processed where it can be decoded.
Read ==
  /\ from # Unseen
  /\ Process(Decoded(Unread))
  /\ lost' = lost \cup {l \in Behind : ~Complete(l)}
  /\ from' = Unseen
  /\ UNCHANGED <<logVars, offset, armed>>

\* The file cannot be opened or read: the poll goes on without it, and the offset
\* has passed the lines already.
ReadFails ==
  /\ from # Unseen
  /\ lost' = lost \cup Behind
  /\ from' = Unseen
  /\ UNCHANGED <<logVars, offset, times, armed>>

Poll == Measure \/ Read \/ ReadFails
Next == (LogNext /\ UNCHANGED watchVars) \/ Poll
Spec == Init /\ [][Next]_vars

\* The observability thread polls every CHECK_INTERVAL.
FairSpec == Spec /\ WF_vars(Poll)

-----------------------------------------------------------------------------
(* Properties. *)

\* While the log is under its cap, the polls leave out no line that was written
\* since the watcher was armed and that they passed, other than by a read that
\* failed or came before the end of the line was there.  None is processed more
\* than twice: a second time only by the poll after the one it slipped into.
OnceOrTwice ==
  ~Truncated =>
    /\ \A l \in 1 .. MaxLines : times[l] <= 2
    /\ from = Unseen /\ offset # Unseen =>
         \A l \in Lines(SubSeq(file, 1, offset)) \ lost : l > armed => times[l] >= 1

\* While the log is under its cap, no poll processes a line that was there
\* before the watcher: an old END is not replayed.
NoHistory == ~Truncated => \A l \in 1 .. MaxLines : l <= armed => times[l] = 0

\* A line written since the watcher was armed is processed eventually, unless a
\* read of it fails, or the cap truncates the log.
SeenEventually ==
  \A l \in 1 .. MaxLines :
    armed # Unseen /\ l > armed /\ l <= Len(kind)
      ~> times[l] > 0 \/ l \in lost \/ Truncated
=============================================================================
