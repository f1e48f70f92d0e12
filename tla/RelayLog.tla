------------------------------ MODULE RelayLog ------------------------------
(***************************************************************************)
(* A relay log on /data: the relay (deploy/wm_relay.py) appends a line for  *)
(* every chunk it forwards, and the size cap of server/logcap.py truncates  *)
(* the file in place.  The modules that read the log extend this one.       *)
(*                                                                         *)
(* Lines are numbered in the order they were written and the file is the    *)
(* sequence of those it holds; sizes and offsets count lines, and an offset  *)
(* inside a line counts the line as passed.                                 *)
(***************************************************************************)
EXTENDS Integers, Sequences

CONSTANTS Kinds,     \* what a line may carry, see the modules that read it
          MaxLines,  \* bound: lines written in one execution
          Cap,       \* LGM_RELAY_LOG_CAP_MB; the cap is off when >= MaxLines
          Keep       \* what truncation keeps, a quarter of the cap

ASSUME LogAssumption == /\ MaxLines \in Nat /\ Cap \in Nat
                        /\ Keep \in Nat /\ Keep <= Cap

VARIABLES file,   \* the lines in the file
          kind,   \* history: what each line ever written carries
          half,   \* of the newest line too little has reached the file for a
                  \* reader to make anything of it
          capAt,  \* where truncate_oversized is
          skip,   \* lines of the file that its tail leaves out
          kept,   \* the tail it has read
          past    \* history: "whole", "cut" once the cap has begun to write, or
                  \* "torn" when it has then failed to truncate

logVars == <<file, kind, half, capAt, skip, kept, past>>

LogTypeOK == /\ file \in Seq(1 .. MaxLines)
             /\ kind \in Seq(Kinds)
             /\ half \in BOOLEAN
             /\ capAt \in {"idle", "read", "write", "cut"}
             /\ skip \in Nat
             /\ kept \in Seq(1 .. MaxLines)
             /\ past \in {"whole", "cut", "torn"}

LogInit == /\ file = <<>> /\ kind = <<>> /\ half = FALSE
           /\ capAt = "idle" /\ skip = 0 /\ kept = <<>> /\ past = "whole"

\* The relay writes and flushes a line; the file is open in append mode.  A long
\* one reaches the file in several writes.
WriteLine == /\ Len(kind) < MaxLines /\ ~half
             /\ \E k \in Kinds : kind' = Append(kind, k)
             /\ file' = Append(file, Len(kind'))
             /\ half' \in BOOLEAN
             /\ UNCHANGED <<capAt, skip, kept, past>>

WriteRest == /\ half /\ half' = FALSE
             /\ UNCHANGED <<file, kind, capAt, skip, kept, past>>

\* truncate_oversized opens the file, and measures that it is over the cap ...
CapMeasure == /\ capAt = "idle" /\ Len(file) > Cap
              /\ capAt' = "read" /\ skip' = Len(file) - Keep
              /\ UNCHANGED <<file, kind, half, kept, past>>

\* ... reads its tail, to wherever the file ends by now ...
CapRead == /\ capAt = "read"
           /\ capAt' = "write" /\ kept' = SubSeq(file, skip + 1, Len(file))
           /\ UNCHANGED <<file, kind, half, skip, past>>

\* ... writes that tail to the top, over what was there ...
CapWrite == /\ capAt = "write"
            /\ capAt' = "cut"
            /\ file' = kept \o SubSeq(file, Len(kept) + 1, Len(file))
            /\ past' = IF past = "torn" THEN past ELSE "cut"
            /\ UNCHANGED <<kind, half, skip, kept>>

CapDone == capAt' = "idle" /\ skip' = 0 /\ kept' = <<>>

\* Faulty variant: the tail is written to the top and nothing is cut off.
CapKeepsRest == /\ capAt = "cut" /\ CapDone
                /\ UNCHANGED <<file, kind, half, past>>

\* ... and cuts off the rest, with what was appended meanwhile.
CapTruncate == /\ capAt = "cut" /\ CapDone
               /\ file' = SubSeq(file, 1, Len(kept))
               /\ UNCHANGED <<kind, half, past>>

\* An OSError is caught, whichever step it comes from.
CapFail == /\ capAt # "idle" /\ CapDone
           /\ past' = IF capAt = "cut" THEN "torn" ELSE past
           /\ UNCHANGED <<file, kind, half>>

\* The cap has touched the log: it may no longer hold all that was written.
Truncated == past # "whole"

Relay   == WriteLine \/ WriteRest
SizeCap == CapMeasure \/ CapRead \/ CapWrite \/ CapTruncate \/ CapFail
LogNext == Relay \/ SizeCap

\* A line that a reader can decode, and those of s that it can.
Complete(l) == ~(half /\ l = Len(kind))
Lines(s) == {s[i] : i \in DOMAIN s}
Decoded(s) == {l \in Lines(s) : Complete(l)}

\* Whatever the relay appends while the cap rewrites the file, a rewrite that has
\* come to its end leaves the lines in the order they were written and none
\* twice: a reader that starts from the top then sees each appliance's states in
\* their order.  (Between the write and the truncation, and for good when the
\* truncation fails, the old lines follow the new ones.)
LogOrdered ==
  capAt # "cut" /\ past # "torn" =>
    \A i, j \in DOMAIN file : i < j => file[i] < file[j]
=============================================================================
