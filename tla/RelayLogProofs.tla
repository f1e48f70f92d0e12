-------------------------- MODULE RelayLogProofs --------------------------
(* Proofs about the relay log and what reads it, for a log of any length, any  *)
(* cap and any clock: the log's order (RelayLog), what the follower processes   *)
(* how often (RelayWatcher), the event that is told and the times that are      *)
(* shown (AgeMemory), and what the washer bridge shows (LocalBridge).          *)
EXTENDS AgeMemory, LocalBridge, TLAPS, WellFoundedInduction

USE LogAssumption DEF Unseen

-----------------------------------------------------------------------------
(* The log, whoever reads it. *)

\* Sizes: nothing is in the file that was not written, and a tail is not longer
\* than the file it was read from.
Sizes ==
  /\ Len(file) <= Len(kind) /\ Len(kind) <= MaxLines
  /\ capAt = "read" => skip <= Len(file)
  /\ capAt \in {"write", "cut"} => Len(kept) <= Len(file)

\* The lines of s were written, and are in the order they were written.
Wrote(s)   == \A i \in 1 .. Len(s) : s[i] <= Len(kind)
InOrder(s) == \A i, j \in 1 .. Len(s) : i < j => s[i] < s[j]

\* What is in order: the tail, and the file but for a rewrite under way, which has
\* put the tail on top of it.
Ordered ==
  /\ Wrote(file) /\ Wrote(kept)
  /\ past # "torn" =>
       /\ capAt # "cut" => InOrder(file)
       /\ capAt \in {"write", "cut"} => InOrder(kept)
       /\ capAt = "cut" => \A i \in 1 .. Len(kept) : file[i] = kept[i]

\* A log that the cap has not touched holds every line at its own number.
Whole == ~Truncated => /\ capAt # "cut" /\ Len(file) = Len(kind)
                       /\ \A i \in 1 .. Len(file) : file[i] = i

LogInv == LogTypeOK /\ Sizes /\ Ordered /\ Whole

\* The tail of a sequence: its length, and where in the sequence it is.
LEMMA LastLinesFacts ==
  ASSUME NEW S, NEW s \in Seq(S), NEW n \in Nat
  PROVE  /\ LastLines(s, n) \in Seq(S)
         /\ Len(LastLines(s, n)) <= n /\ Len(LastLines(s, n)) <= Len(s)
         /\ \E k \in Nat : /\ k + Len(LastLines(s, n)) = Len(s)
                           /\ \A i \in 1 .. Len(LastLines(s, n)) :
                                LastLines(s, n)[i] = s[i + k]
<1>1. CASE Len(s) <= n
  <2>1. LastLines(s, n) = s /\ Len(s) \in Nat
    BY <1>1 DEF LastLines
  <2>2. \E k \in Nat : k + Len(s) = Len(s) /\ \A i \in 1 .. Len(s) : s[i] = s[i + k]
    <3>1. 0 + Len(s) = Len(s) /\ \A i \in 1 .. Len(s) : s[i] = s[i + 0]
      BY <2>1
    <3> QED
      BY <3>1
  <2> QED
    BY <1>1, <2>1, <2>2
<1>2. CASE Len(s) > n
  <2> DEFINE k == Len(s) - n
  <2>1. k \in Nat /\ LastLines(s, n) = SubSeq(s, k + 1, Len(s))
    BY <1>2 DEF LastLines
  <2>2. /\ Len(SubSeq(s, k + 1, Len(s))) = n
        /\ SubSeq(s, k + 1, Len(s)) \in Seq(S)
        /\ \A i \in 1 .. n : SubSeq(s, k + 1, Len(s))[i] = s[i + k]
    BY <1>2
  <2>3. k + n = Len(s) /\ n <= Len(s)
    BY <1>2
  <2> HIDE DEF k
  <2>4. /\ LastLines(s, n) \in Seq(S) /\ Len(LastLines(s, n)) = n
        /\ \A i \in 1 .. n : LastLines(s, n)[i] = s[i + k]
    BY <2>1, <2>2
  <2>5. \E j \in Nat : /\ j + Len(LastLines(s, n)) = Len(s)
                       /\ \A i \in 1 .. Len(LastLines(s, n)) :
                            LastLines(s, n)[i] = s[i + j]
    <3>1. /\ k \in Nat /\ k + Len(LastLines(s, n)) = Len(s)
          /\ \A i \in 1 .. Len(LastLines(s, n)) : LastLines(s, n)[i] = s[i + k]
      BY <2>1, <2>3, <2>4
    <3> QED
      BY ONLY <3>1, Zenon
  <2>6. /\ LastLines(s, n) \in Seq(S)
        /\ Len(LastLines(s, n)) <= n /\ Len(LastLines(s, n)) <= Len(s)
    BY <2>3, <2>4
  <2> QED
    BY ONLY <2>5, <2>6, Zenon
<1> QED
  BY <1>1, <1>2

\* What is left of a sequence after its first n elements.
LEMMA RestFacts ==
  ASSUME NEW S, NEW s \in Seq(S), NEW n \in Nat, n <= Len(s)
  PROVE  /\ SubSeq(s, n + 1, Len(s)) \in Seq(S)
         /\ Len(SubSeq(s, n + 1, Len(s))) = Len(s) - n
         /\ \A i \in 1 .. Len(s) - n : SubSeq(s, n + 1, Len(s))[i] = s[i + n]
  OBVIOUS

\* A sequence with its top overwritten by another.
LEMMA OverFacts ==
  ASSUME NEW S, NEW s \in Seq(S), NEW t \in Seq(S), Len(t) <= Len(s),
         NEW u, u = t \o SubSeq(s, Len(t) + 1, Len(s))
  PROVE  /\ u \in Seq(S) /\ Len(u) = Len(s)
         /\ \A i \in 1 .. Len(s) : u[i] = IF i <= Len(t) THEN t[i] ELSE s[i]
<1> DEFINE r == SubSeq(s, Len(t) + 1, Len(s))
<1>1. /\ Len(t) \in Nat /\ Len(s) \in Nat
      /\ r \in Seq(S) /\ Len(r) = Len(s) - Len(t)
      /\ \A i \in 1 .. Len(s) - Len(t) : r[i] = s[i + Len(t)]
  BY RestFacts
<1> HIDE DEF r
<1>2. /\ t \o r \in Seq(S) /\ Len(t \o r) = Len(t) + Len(r)
      /\ \A i \in 1 .. Len(t) + Len(r) :
           (t \o r)[i] = IF i <= Len(t) THEN t[i] ELSE r[i - Len(t)]
  BY <1>1
<1>3. u = t \o r
  BY DEF r
<1>4. ASSUME NEW i \in 1 .. Len(s), i > Len(t)
      PROVE  r[i - Len(t)] = s[i]
  <2>1. i - Len(t) \in 1 .. Len(s) - Len(t) /\ (i - Len(t)) + Len(t) = i
    BY <1>1, <1>4
  <2> QED
    BY <1>1, <2>1
<1>5. u \in Seq(S) /\ Len(u) = Len(s)
  BY <1>1, <1>2, <1>3
<1>6. ASSUME NEW i \in 1 .. Len(s)
      PROVE  u[i] = IF i <= Len(t) THEN t[i] ELSE s[i]
  <2>1. i \in 1 .. Len(t) + Len(r)
    BY <1>1
  <2> QED
    BY <1>1, <1>2, <1>3, <1>4, <2>1
<1> QED
  BY <1>5, <1>6

\* The log starts empty.
LEMMA InitLog == LogInit => LogInv
<1> SUFFICES ASSUME LogInit PROVE LogInv
  OBVIOUS
<1>1. /\ file = <<>> /\ kind = <<>> /\ kept = <<>> /\ half = FALSE
      /\ capAt = "idle" /\ skip = 0 /\ past = "whole"
  BY DEF LogInit
<1>2. LogTypeOK
  <2>1. file \in Seq(1 .. MaxLines) /\ kept \in Seq(1 .. MaxLines) /\ kind \in Seq(Kinds)
    BY <1>1
  <2> QED
    BY <1>1, <2>1 DEF LogTypeOK
<1>3. Sizes /\ Ordered /\ Whole
  BY <1>1 DEF Sizes, Ordered, InOrder, Wrote, Whole
<1> QED
  BY <1>2, <1>3 DEF LogInv

\* The relay appends.
LEMMA RelayStep == LogInv /\ Relay => LogInv'
<1> SUFFICES ASSUME LogInv, Relay PROVE LogInv'
  OBVIOUS
<1>0. LogTypeOK /\ Sizes /\ Ordered /\ Whole
  BY DEF LogInv
<1>1. CASE WriteLine
  <2>1. PICK k \in Kinds : kind' = Append(kind, k)
    BY <1>1 DEF WriteLine
  <2>2. /\ Len(kind) < MaxLines /\ Len(kind') = Len(kind) + 1
        /\ Len(kind) \in Nat /\ Len(file) \in Nat /\ Len(kept) \in Nat
        /\ file' = Append(file, Len(kind) + 1) /\ Len(file') = Len(file) + 1
        /\ UNCHANGED <<capAt, skip, kept, past>>
    BY <1>0, <1>1, <2>1 DEF WriteLine, LogTypeOK
  <2>3. LogTypeOK'
    BY <1>0, <1>1, <2>1, <2>2 DEF LogTypeOK, WriteLine
  <2>4. Sizes'
    BY <1>0, <2>2 DEF Sizes, LogTypeOK
  <2>5. \A i \in 1 .. Len(file') :
          file'[i] = IF i <= Len(file) THEN file[i] ELSE Len(kind) + 1
    <3>1. file \in Seq(1 .. MaxLines)
      BY <1>0 DEF LogTypeOK
    <3> QED
      BY ONLY <2>2, <3>1
  <2>6. /\ \A i \in 1 .. Len(file) : file[i] \in Nat /\ file[i] <= Len(kind)
        /\ \A i \in 1 .. Len(kept) : kept[i] \in Nat /\ kept[i] <= Len(kind)
    BY <1>0 DEF LogTypeOK, Ordered, Wrote
  <2>7. Wrote(file)' /\ Wrote(kept)'
    BY <2>2, <2>5, <2>6 DEF Wrote
  <2>8. InOrder(file) => InOrder(file)'
    <3> SUFFICES ASSUME InOrder(file),
                        NEW i \in 1 .. Len(file'), NEW j \in 1 .. Len(file'), i < j
                 PROVE  file'[i] < file'[j]
      BY DEF InOrder
    <3>1. i \in 1 .. Len(file) /\ file'[i] = file[i]
      BY <2>2, <2>5
    <3>2. CASE j <= Len(file)
      BY <2>2, <2>5, <3>1, <3>2 DEF InOrder
    <3>3. CASE j > Len(file)
      <4>1. file'[j] = Len(kind) + 1
        BY <2>5, <3>3
      <4>2. file[i] \in Nat /\ file[i] <= Len(kind)
        BY <2>6, <3>1
      <4> QED
        BY <2>2, <3>1, <4>1, <4>2
    <3> QED
      BY <2>2, <3>2, <3>3
  <2>9. capAt = "cut" => \A i \in 1 .. Len(kept) : file'[i] = file[i]
    BY <1>0, <2>2, <2>5 DEF Sizes
  <2>10. Ordered'
    BY <1>0, <2>2, <2>7, <2>8, <2>9 DEF Ordered, InOrder
  <2>11. Whole'
    BY <1>0, <2>2, <2>5 DEF Whole, Truncated
  <2> QED
    BY <2>3, <2>4, <2>10, <2>11 DEF LogInv
<1>2. CASE WriteRest
  BY <1>0, <1>2 DEF WriteRest, LogInv, LogTypeOK, Sizes, Ordered, InOrder, Wrote, Whole,
                    Truncated
<1> QED
  BY <1>1, <1>2 DEF Relay

\* The cap measures and reads.
LEMMA CapReadStep == LogInv /\ (CapMeasure \/ CapRead) => LogInv'
<1> SUFFICES ASSUME LogInv, CapMeasure \/ CapRead PROVE LogInv'
  OBVIOUS
<1>0. /\ LogTypeOK /\ Sizes /\ Ordered /\ Whole
      /\ Len(file) \in Nat /\ Len(kind) \in Nat /\ file \in Seq(1 .. MaxLines)
  BY DEF LogInv, LogTypeOK
<1>1. CASE CapMeasure
  <2>1. /\ capAt = "idle" /\ capAt' = "read" /\ Len(file) > Cap
        /\ skip' = Len(file) - Keep /\ UNCHANGED <<file, kind, half, kept, past>>
    BY <1>1 DEF CapMeasure
  <2>2. skip' \in Nat /\ skip' <= Len(file)
    BY <1>0, <2>1
  <2>3. LogTypeOK' /\ Sizes'
    BY <1>0, <2>1, <2>2 DEF LogTypeOK, Sizes
  <2>4. Ordered' /\ Whole'
    BY <1>0, <2>1 DEF Ordered, InOrder, Wrote, Whole, Truncated
  <2> QED
    BY <2>3, <2>4 DEF LogInv
<1>2. CASE CapRead
  <2>1. /\ capAt = "read" /\ capAt' = "write" /\ skip \in Nat /\ skip <= Len(file)
        /\ kept' = SubSeq(file, skip + 1, Len(file))
        /\ UNCHANGED <<file, kind, half, skip, past>>
    BY <1>0, <1>2 DEF CapRead, LogTypeOK, Sizes
  <2>2. /\ kept' \in Seq(1 .. MaxLines) /\ Len(kept') = Len(file) - skip
        /\ \A i \in 1 .. Len(file) - skip : kept'[i] = file[i + skip]
    BY <1>0, <2>1, RestFacts
  <2>3. LogTypeOK' /\ Sizes'
    BY <1>0, <2>1, <2>2 DEF LogTypeOK, Sizes
  <2>4. \A i \in 1 .. Len(kept') : i + skip \in 1 .. Len(file)
    BY <1>0, <2>1, <2>2
  <2>5. Wrote(kept)'
    BY <1>0, <2>1, <2>2, <2>4 DEF Ordered, Wrote
  <2>6. ASSUME InOrder(file), NEW i \in 1 .. Len(kept'), NEW j \in 1 .. Len(kept'), i < j
        PROVE  kept'[i] < kept'[j]
    <3>1. i + skip < j + skip
      BY <2>1, <2>2, <2>6, <1>0
    <3> QED
      BY <2>2, <2>4, <2>6, <3>1 DEF InOrder
  <2>7. InOrder(file) => InOrder(kept)'
    BY <2>6 DEF InOrder
  <2>8. Ordered' /\ Whole'
    BY <1>0, <2>1, <2>5, <2>7 DEF Ordered, InOrder, Wrote, Whole, Truncated
  <2> QED
    BY <2>3, <2>8 DEF LogInv
<1> QED
  BY <1>1, <1>2

\* The cap writes, truncates or fails.
LEMMA CapWriteStep == LogInv /\ (CapWrite \/ CapTruncate \/ CapFail) => LogInv'
<1> SUFFICES ASSUME LogInv, CapWrite \/ CapTruncate \/ CapFail PROVE LogInv'
  OBVIOUS
<1>0. /\ LogTypeOK /\ Sizes /\ Ordered /\ Whole
      /\ Len(file) \in Nat /\ Len(kind) \in Nat /\ Len(kept) \in Nat
      /\ file \in Seq(1 .. MaxLines) /\ kept \in Seq(1 .. MaxLines)
  BY DEF LogInv, LogTypeOK
<1>1. CASE CapWrite
  <2>1. /\ capAt = "write" /\ capAt' = "cut" /\ Len(kept) <= Len(file)
        /\ file' = kept \o SubSeq(file, Len(kept) + 1, Len(file))
        /\ past' # "whole" /\ past' \in {"cut", "torn"} /\ (past = "torn" => past' = past)
        /\ UNCHANGED <<kind, half, skip, kept>>
    BY <1>0, <1>1 DEF CapWrite, Sizes
  <2>2. /\ file' \in Seq(1 .. MaxLines) /\ Len(file') = Len(file)
        /\ \A i \in 1 .. Len(file) :
             file'[i] = IF i <= Len(kept) THEN kept[i] ELSE file[i]
    BY <1>0, <2>1, OverFacts
  <2>3. LogTypeOK' /\ Sizes' /\ Whole'
    BY <1>0, <2>1, <2>2 DEF LogTypeOK, Sizes, Whole, Truncated
  <2>4. Wrote(file)' /\ Wrote(kept)'
    BY <1>0, <2>1, <2>2 DEF Ordered, Wrote
  <2>5. \A i \in 1 .. Len(kept) : file'[i] = kept[i]
    BY <1>0, <2>1, <2>2
  <2>6. Ordered'
    BY <1>0, <2>1, <2>4, <2>5 DEF Ordered, InOrder
  <2> QED
    BY <2>3, <2>6 DEF LogInv
<1>2. CASE CapTruncate
  <2>1. /\ capAt = "cut" /\ capAt' = "idle" /\ skip' = 0 /\ kept' = <<>>
        /\ Len(kept) <= Len(file) /\ past # "whole"
        /\ file' = SubSeq(file, 1, Len(kept)) /\ UNCHANGED <<kind, half, past>>
    BY <1>0, <1>2 DEF CapTruncate, CapDone, Sizes, Whole, Truncated
  <2>2. /\ file' \in Seq(1 .. MaxLines) /\ Len(file') = Len(kept)
        /\ \A i \in 1 .. Len(kept) : file'[i] = file[i]
    BY <1>0, <2>1
  <2>3. LogTypeOK' /\ Sizes' /\ Whole'
    BY <1>0, <2>1, <2>2 DEF LogTypeOK, Sizes, Whole, Truncated
  <2>4. Wrote(file)' /\ Wrote(kept)'
    BY <1>0, <2>1, <2>2 DEF Ordered, Wrote
  <2>5. past # "torn" => InOrder(file)'
    BY <1>0, <2>1, <2>2 DEF Ordered, InOrder
  <2>6. Ordered'
    BY <2>1, <2>4, <2>5 DEF Ordered
  <2> QED
    BY <2>3, <2>6 DEF LogInv
<1>3. CASE CapFail
  <2>1. /\ capAt' = "idle" /\ skip' = 0 /\ kept' = <<>>
        /\ past' = IF capAt = "cut" THEN "torn" ELSE past
        /\ UNCHANGED <<file, kind, half>>
    BY <1>3 DEF CapFail, CapDone
  <2>2. LogTypeOK' /\ Sizes'
    BY <1>0, <2>1 DEF LogTypeOK, Sizes
  <2>3. Ordered'
    BY <1>0, <2>1 DEF Ordered, InOrder, Wrote
  <2>4. Whole'
    BY <1>0, <2>1 DEF Whole, Truncated
  <2> QED
    BY <2>2, <2>3, <2>4 DEF LogInv
<1> QED
  BY <1>1, <1>2, <1>3

\* Every step of the relay and of the cap keeps the log as it should be.
LEMMA LogStep == LogInv /\ LogNext => LogInv'
BY RelayStep, CapReadStep, CapWriteStep DEF LogNext, SizeCap

\* Truncation is for good, and until then the log only grows.
LEMMA StaysTruncated ==
  ASSUME LogInv, LogNext
  PROVE  /\ Truncated => Truncated'
         /\ Len(kind) <= Len(kind') /\ Len(kind') \in Nat
         /\ \A l \in 1 .. Len(kind) : kind'[l] = kind[l]
         /\ \A l \in 1 .. Len(kind) : Complete(l) => Complete(l)'
         /\ ~Truncated' => Len(file) <= Len(file')
<1>0. /\ Len(file) \in Nat /\ Len(kind) \in Nat /\ kind \in Seq(Kinds)
      /\ file \in Seq(1 .. MaxLines) /\ past \in {"whole", "cut", "torn"}
      /\ ~Truncated => capAt # "cut"
  BY DEF LogInv, LogTypeOK, Whole
<1>1. CASE WriteLine
  BY <1>0, <1>1 DEF WriteLine, Truncated, Complete
<1>2. CASE WriteRest \/ CapMeasure \/ CapRead \/ CapWrite \/ CapTruncate \/ CapFail
  <2>1. kind' = kind /\ (past # "whole" => past' # "whole")
    BY <1>0, <1>2 DEF WriteRest, CapMeasure, CapRead, CapWrite, CapTruncate, CapFail
  <2>2. ~Truncated' => file' = file
    BY <1>0, <1>2 DEF WriteRest, CapMeasure, CapRead, CapWrite, CapTruncate, CapFail,
                      Truncated
  <2>3. half' => half
    BY <1>2 DEF WriteRest, CapMeasure, CapRead, CapWrite, CapTruncate, CapFail
  <2> QED
    BY <1>0, <2>1, <2>2, <2>3 DEF Truncated, Complete
<1> QED
  BY <1>1, <1>2 DEF LogNext, Relay, SizeCap

-----------------------------------------------------------------------------
(* The follower, on a log that has not been truncated. *)

\* What has been processed how often: lines up to the offset at least once if they
\* were not lost, lines beyond it at most once, and between measuring and reading
\* what came after the measure not at all.
Counts ==
  /\ \A l \in 1 .. MaxLines : l > Len(kind) => times[l] = 0
  /\ from = Unseen => \A l \in 1 .. MaxLines :
       /\ times[l] <= 2
       /\ l > offset => times[l] <= 1
       /\ armed < l /\ l <= offset => times[l] >= 1 \/ l \in lost
  /\ from # Unseen => \A l \in 1 .. MaxLines :
       /\ times[l] <= 2
       /\ l > from => times[l] <= 1
       /\ l > offset => times[l] = 0
       /\ armed < l /\ l <= from => times[l] >= 1 \/ l \in lost

\* Where the follower stands: past what was there when it was armed, and not
\* past the end.
Place ==
  /\ offset = Unseen => from = Unseen /\ armed = Unseen
                        /\ \A l \in 1 .. MaxLines : times[l] = 0
  /\ offset # Unseen => armed # Unseen /\ armed <= offset /\ offset <= Len(file)
  /\ from # Unseen => armed <= from

WatchInv == ~Truncated => Counts /\ Place /\ NoHistory

\* A line that was processed was all there, and still is.
Finished ==
  \A l \in 1 .. MaxLines : times[l] > 0 => l \in 1 .. Len(kind) /\ Complete(l)

IInv == TypeOK /\ LogInv /\ Finished /\ WatchInv

\* The watcher has processed nothing and holds no position.
LEMMA InitHolds == Init => IInv
<1> SUFFICES ASSUME Init PROVE IInv
  OBVIOUS
<1>1. LogInv
  BY InitLog DEF Init
<1>2. TypeOK
  BY <1>1 DEF Init, TypeOK, LogInv
<1>3. Counts /\ Place /\ NoHistory /\ Finished
  BY DEF Init, LogInit, Counts, Place, NoHistory, Finished
<1> QED
  BY <1>1, <1>2, <1>3 DEF IInv, WatchInv

\* On a log that is whole, what there is to read and what the offset has passed.
LEMMA UnreadFacts ==
  ASSUME LogInv, ~Truncated, from \in Nat, offset \in Nat,
         from < offset, offset <= Len(file)
  PROVE  /\ \A l \in 1 .. MaxLines : l \in Decoded(Unread)
              <=> from < l /\ l <= Len(file) /\ Complete(l)
         /\ \A l \in 1 .. MaxLines : l \in Behind <=> from < l /\ l <= offset
<1>1. /\ file \in Seq(1 .. MaxLines) /\ Len(file) \in Nat
      /\ \A i \in 1 .. Len(file) : file[i] = i
  BY DEF LogInv, LogTypeOK, Whole
<1>2. /\ Unread \in Seq(1 .. MaxLines) /\ Len(Unread) = Len(file) - from
      /\ \A i \in 1 .. Len(file) - from : Unread[i] = file[i + from]
  BY <1>1, RestFacts DEF Unread
<1>3. /\ DOMAIN Unread = 1 .. Len(file) - from
      /\ \A i \in 1 .. Len(file) - from : Unread[i] = i + from
  <2>1. \A i \in 1 .. Len(file) - from : i + from \in 1 .. Len(file)
    BY <1>1
  <2> QED
    BY <1>1, <1>2, <2>1
<1>4. \A l \in 1 .. MaxLines : l \in Lines(Unread) <=> from < l /\ l <= Len(file)
  <2>1. ASSUME NEW l \in 1 .. MaxLines, l \in Lines(Unread)
        PROVE  from < l /\ l <= Len(file)
    <3>1. PICK i \in 1 .. Len(file) - from : l = i + from
      BY <1>3, <2>1 DEF Lines
    <3> QED
      BY <1>1, <3>1
  <2>2. ASSUME NEW l \in 1 .. MaxLines, from < l, l <= Len(file)
        PROVE  l \in Lines(Unread)
    <3>1. l - from \in 1 .. Len(file) - from /\ (l - from) + from = l
      BY <1>1, <2>2
    <3>2. l - from \in DOMAIN Unread /\ Unread[l - from] = l
      BY <1>3, <3>1
    <3> QED
      BY <3>2 DEF Lines
  <2> QED
    BY <2>1, <2>2
<1>5. \A l \in 1 .. MaxLines : l \in Behind <=> from < l /\ l <= offset
  <2>1. DOMAIN file = 1 .. Len(file)
    BY <1>1
  <2>2. ASSUME NEW l \in 1 .. MaxLines, l \in Behind
        PROVE  from < l /\ l <= offset
    <3>1. PICK i \in DOMAIN file : from < i /\ i <= offset /\ l = file[i]
      BY <2>2 DEF Behind
    <3>2. l = i
      BY <1>1, <2>1, <3>1
    <3> QED
      BY ONLY <3>1, <3>2
  <2>3. ASSUME NEW l \in 1 .. MaxLines, from < l, l <= offset
        PROVE  l \in Behind
    <3>1. l \in DOMAIN file
      BY ONLY <1>1, <2>1, <2>3, from \in Nat, offset \in Nat, offset <= Len(file)
    <3>2. file[l] = l
      BY ONLY <1>1, <2>1, <3>1
    <3> QED
      BY ONLY <2>3, <3>1, <3>2, Zenon DEF Behind
  <2> QED
    BY <2>2, <2>3
<1> QED
  BY <1>4, <1>5 DEF Decoded

\* The log is what it was as long as nobody touches it.
LEMMA LogSame == LogInv /\ UNCHANGED logVars => LogInv'
BY DEF logVars, LogInv, LogTypeOK, Sizes, Ordered, Wrote, InOrder, Whole, Truncated

\* The lines of the end of the file were written.
LEMMA LinesWritten ==
  ASSUME LogInv, NEW a \in Nat
  PROVE  Lines(SubSeq(file, a + 1, Len(file))) \subseteq 1 .. Len(kind)
<1>1. /\ file \in Seq(1 .. MaxLines) /\ kind \in Seq(Kinds) /\ MaxLines \in Nat
      /\ Len(kind) \in Nat /\ Len(file) \in Nat
      /\ \A i \in 1 .. Len(file) : file[i] <= Len(kind)
  <2>1. LogTypeOK /\ Wrote(file)
    BY Zenon DEF LogInv, Ordered
  <2>2. file \in Seq(1 .. MaxLines) /\ kind \in Seq(Kinds)
    BY ONLY <2>1, Zenon DEF LogTypeOK
  <2>3. Len(kind) \in Nat /\ Len(file) \in Nat
    BY <2>2
  <2>4. \A i \in 1 .. Len(file) : file[i] <= Len(kind)
    BY ONLY <2>1, Zenon DEF Wrote
  <2>5. MaxLines \in Nat
    BY LogAssumption
  <2> QED
    BY ONLY <2>2, <2>3, <2>4, <2>5
<1>2. CASE a < Len(file)
  <2> DEFINE r == SubSeq(file, a + 1, Len(file))
  <2>1. /\ r \in Seq(1 .. MaxLines) /\ Len(r) = Len(file) - a
        /\ \A i \in 1 .. Len(file) - a : r[i] = file[i + a]
    BY <1>1, <1>2, RestFacts
  <2> HIDE DEF r
  <2>2. ASSUME NEW i \in DOMAIN r PROVE r[i] \in 1 .. Len(kind)
    <3>1. DOMAIN r = 1 .. Len(r)
      BY <2>1
    <3>2. i \in 1 .. Len(file) - a /\ i + a \in 1 .. Len(file)
      BY <1>1, <1>2, <2>1, <3>1
    <3>3. file[i + a] \in 1 .. MaxLines /\ file[i + a] <= Len(kind)
      BY <1>1, <3>2
    <3>4. r[i] = file[i + a]
      BY <2>1, <3>2
    <3>5. file[i + a] \in 1 .. Len(kind)
      BY <1>1, <3>3
    <3> QED
      BY <3>4, <3>5
  <2>3. Lines(r) \subseteq 1 .. Len(kind)
    BY <2>2 DEF Lines
  <2> QED
    BY <2>3 DEF r
<1>3. CASE ~ (a < Len(file))
  <2>1. SubSeq(file, a + 1, Len(file)) = <<>>
    BY <1>1, <1>3
  <2> QED
    BY <2>1 DEF Lines
<1> QED
  BY <1>2, <1>3

\* No step processes a line that is not all there.
LEMMA FinishedStep ==
  ASSUME TypeOK, LogInv, Finished, [Next]_vars
  PROVE  Finished'
<1>0. MaxLines \in Nat /\ times \in [1 .. MaxLines -> Nat] /\ Len(kind) \in Nat
  BY DEF TypeOK, LogInv, LogTypeOK
<1>1. CASE LogNext /\ UNCHANGED watchVars
  <2>1. /\ Len(kind) <= Len(kind') /\ Len(kind') \in Nat
        /\ \A l \in 1 .. Len(kind) : Complete(l) => Complete(l)'
    BY <1>1, StaysTruncated
  <2>2. times' = times
    BY <1>1 DEF watchVars
  <2> SUFFICES ASSUME NEW l \in 1 .. MaxLines, times'[l] > 0
               PROVE  l \in 1 .. Len(kind') /\ Complete(l)'
    BY DEF Finished
  <2>3. l \in 1 .. Len(kind) /\ Complete(l)
    BY <2>2 DEF Finished
  <2> QED
    BY <1>0, <2>1, <2>3
<1>2. CASE Measure \/ ReadFails \/ UNCHANGED vars
  BY <1>2 DEF Measure, ReadFails, vars, logVars, watchVars, Finished, Complete
<1>3. CASE Read
  <2>1. /\ times' = [l \in 1 .. MaxLines |->
                       IF l \in Decoded(Unread) THEN times[l] + 1 ELSE times[l]]
        /\ UNCHANGED <<kind, half>> /\ from \in Nat
    BY <1>3 DEF Read, Process, logVars, TypeOK
  <2>2. Lines(Unread) \subseteq 1 .. Len(kind)
    BY <2>1, LinesWritten DEF Unread
  <2> SUFFICES ASSUME NEW l \in 1 .. MaxLines, times'[l] > 0
               PROVE  l \in 1 .. Len(kind) /\ Complete(l)
    BY <2>1 DEF Finished, Complete
  <2>3. CASE l \in Decoded(Unread)
    BY <2>2, <2>3 DEF Decoded
  <2>4. CASE l \notin Decoded(Unread)
    BY <2>1, <2>4 DEF Finished
  <2> QED
    BY <2>3, <2>4
<1> QED
  BY <1>1, <1>2, <1>3 DEF Next, Poll

\* Every step of the log and of the watcher keeps the invariant.
LEMMA StepHolds == IInv /\ [Next]_vars => IInv'
<1> SUFFICES ASSUME IInv, [Next]_vars PROVE IInv'
  OBVIOUS
<1>f. Finished'
  BY FinishedStep DEF IInv
<1>0. /\ TypeOK /\ LogInv /\ WatchInv
      /\ Len(file) \in Nat /\ Len(kind) \in Nat
      /\ Len(file) <= Len(kind) /\ Len(kind) <= MaxLines
  BY DEF IInv, LogInv, LogTypeOK, Sizes
<1>1. CASE LogNext /\ UNCHANGED watchVars
  <2>1. LogInv'
    BY <1>0, <1>1, LogStep
  <2>2. TypeOK'
    BY <1>0, <1>1, <2>1 DEF TypeOK, LogInv, watchVars
  <2>3. ASSUME ~Truncated' PROVE (Counts /\ Place /\ NoHistory)'
    <3>1. ~Truncated
      BY <1>0, <1>1, <2>3, StaysTruncated
    <3>2. Counts /\ Place /\ NoHistory
      BY <1>0, <3>1 DEF WatchInv
    <3>3. /\ UNCHANGED <<offset, from, times, armed, lost>>
          /\ Len(kind) <= Len(kind)' /\ Len(file) <= Len(file)'
          /\ Len(kind)' \in Nat /\ Len(file)' \in Nat
      BY <1>0, <1>1, <2>1, <2>3, StaysTruncated DEF watchVars, LogInv, LogTypeOK
    <3>4. /\ offset \in Int /\ from \in Int /\ armed \in Int
          /\ times \in [1 .. MaxLines -> Nat]
      BY <1>0 DEF TypeOK
    <3>5. Counts'
      BY <1>0, <3>2, <3>3, <3>4 DEF Counts
    <3>6. Place'
      BY <1>0, <3>2, <3>3, <3>4 DEF Place
    <3>7. NoHistory'
      BY <3>1, <3>2, <3>3 DEF NoHistory
    <3> QED
      BY <3>5, <3>6, <3>7
  <2> QED
    BY <1>f, <2>1, <2>2, <2>3 DEF IInv, WatchInv
<1>2. CASE Measure
  <2>1. /\ UNCHANGED logVars /\ UNCHANGED <<times, lost>> /\ from = Unseen
        /\ armed' = IF armed = Unseen THEN Len(kind) ELSE armed
        /\ IF StartOf = Len(file)
             THEN /\ offset' = IF offset = Unseen THEN Len(file) ELSE offset
                  /\ UNCHANGED from
             ELSE offset' = Len(file) /\ from' = StartOf
    BY <1>2 DEF Measure, Arm
  <2>2. LogInv' /\ (Truncated' <=> Truncated) /\ file' = file /\ kind' = kind
    BY <1>0, <2>1, LogSame DEF logVars, Truncated
  <2>3. /\ StartOf \in 0 .. MaxLines
        /\ StartOf # Len(file) => StartOf < Len(file)
    BY <1>0 DEF StartOf, TypeOK
  <2>4. TypeOK'
    BY <1>0, <2>1, <2>2, <2>3 DEF TypeOK, LogInv
  <2>5. ASSUME ~Truncated' PROVE (Counts /\ Place /\ NoHistory)'
    <3>1. ~Truncated /\ Len(file) = Len(kind)
      BY <1>0, <2>2, <2>5 DEF LogInv, Whole
    <3>2. Counts /\ Place /\ NoHistory
      BY <1>0, <3>1 DEF WatchInv
    <3>3. offset # Unseen => StartOf = offset
      BY <1>0, <3>2 DEF StartOf, Place, TypeOK
    <3>4. CASE offset = Unseen
      <4>1. /\ offset' = Len(file) /\ from' = Unseen /\ armed' = Len(kind)
            /\ \A l \in 1 .. MaxLines : times'[l] = 0
        BY <1>0, <2>1, <3>2, <3>4 DEF StartOf, Place
      <4> QED
        BY <1>0, <2>2, <3>1, <4>1 DEF Counts, Place, NoHistory
    <3>5. CASE offset # Unseen /\ offset = Len(file)
      <4>1. UNCHANGED <<offset, from, armed, times, kind, file, lost>>
        BY <2>1, <2>2, <3>2, <3>3, <3>5 DEF Place
      <4>2. Counts'
        BY <3>2, <4>1 DEF Counts
      <4>3. Place'
        BY <3>2, <4>1 DEF Place
      <4>4. NoHistory'
        BY <3>1, <3>2, <4>1 DEF NoHistory
      <4> QED
        BY <4>2, <4>3, <4>4
    <3>6. CASE offset # Unseen /\ offset # Len(file)
      <4>1. /\ offset' = Len(file) /\ from' = offset
            /\ UNCHANGED <<armed, times, kind, file, lost>>
        BY <2>1, <2>2, <3>2, <3>3, <3>6 DEF Place
      <4> QED
        BY <1>0, <2>1, <3>1, <3>2, <3>6, <4>1 DEF Counts, Place, NoHistory, TypeOK
    <3> QED
      BY <3>4, <3>5, <3>6
  <2> QED
    BY <1>f, <2>2, <2>4, <2>5 DEF IInv, WatchInv
<1>3. CASE Read
  <2>1. /\ UNCHANGED logVars /\ UNCHANGED <<offset, armed>>
        /\ from # Unseen /\ from' = Unseen
        /\ times' = [l \in 1 .. MaxLines |->
                       IF l \in Decoded(Unread) THEN times[l] + 1 ELSE times[l]]
        /\ lost' = lost \cup {l \in Behind : ~Complete(l)}
    BY <1>3 DEF Read, Process
  <2>2. LogInv' /\ (Truncated' <=> Truncated) /\ file' = file /\ kind' = kind
    BY <1>0, <2>1, LogSame DEF logVars, Truncated
  <2>3. TypeOK'
    <3>1. Behind \subseteq 1 .. MaxLines
      BY <1>0 DEF Behind, LogInv, LogTypeOK
    <3>2. lost' \subseteq 1 .. MaxLines
      BY <1>0, <2>1, <3>1 DEF TypeOK
    <3>3. times' \in [1 .. MaxLines -> Nat]
      BY <1>0, <2>1 DEF TypeOK
    <3> QED
      BY <1>0, <2>1, <2>2, <3>2, <3>3 DEF TypeOK, LogInv
  <2>4. ASSUME ~Truncated' PROVE (Counts /\ Place /\ NoHistory)'
    <3>1. ~Truncated /\ Len(file) = Len(kind)
      BY <1>0, <2>2, <2>4 DEF LogInv, Whole
    <3>2. Counts /\ Place /\ NoHistory
      BY <1>0, <3>1 DEF WatchInv
    <3>0. /\ from \in Nat /\ offset \in Nat /\ armed \in Nat
          /\ from < offset /\ offset <= Len(file) /\ armed <= from
      BY <1>0, <2>1, <3>2 DEF Place, TypeOK
    <3>3. /\ \A l \in 1 .. MaxLines : l \in Decoded(Unread)
               <=> from < l /\ l <= Len(file) /\ Complete(l)
          /\ \A l \in 1 .. MaxLines : l \in Behind <=> from < l /\ l <= offset
      BY <1>0, <3>0, <3>1, UnreadFacts
    <3>4. \A l \in 1 .. MaxLines :
            /\ times[l] \in Nat
            /\ times'[l] = IF from < l /\ l <= Len(file) /\ Complete(l)
                             THEN times[l] + 1 ELSE times[l]
            /\ l \in lost' <=> l \in lost \/ (from < l /\ l <= offset /\ ~Complete(l))
      BY <1>0, <2>1, <3>3 DEF TypeOK
    <3>5. Counts'
      <4>2. \A l \in 1 .. MaxLines :
              /\ times[l] <= 2 /\ (l > from => times[l] <= 1)
              /\ (l > offset => times[l] = 0)
              /\ (armed < l /\ l <= from => times[l] >= 1 \/ l \in lost)
              /\ (l > Len(kind) => times[l] = 0)
        BY <2>1, <3>2 DEF Counts
      <4>3. \A l \in 1 .. MaxLines :
              /\ times'[l] <= 2 /\ (l > offset => times'[l] <= 1)
              /\ (armed < l /\ l <= offset => times'[l] >= 1 \/ l \in lost')
              /\ (l > Len(kind) => times'[l] = 0)
        BY <1>0, <3>0, <3>1, <3>4, <4>2
      <4> QED
        BY <2>1, <2>2, <4>3 DEF Counts
    <3>6. Place' /\ NoHistory'
      BY <1>0, <2>1, <2>2, <3>0, <3>1, <3>2, <3>4 DEF Place, NoHistory
    <3> QED
      BY <3>5, <3>6
  <2> QED
    BY <1>f, <2>2, <2>3, <2>4 DEF IInv, WatchInv
<1>4. CASE ReadFails
  <2>1. /\ UNCHANGED logVars /\ UNCHANGED <<offset, times, armed>>
        /\ from # Unseen /\ from' = Unseen /\ lost' = lost \cup Behind
    BY <1>4 DEF ReadFails
  <2>2. LogInv' /\ (Truncated' <=> Truncated) /\ file' = file /\ kind' = kind
    BY <1>0, <2>1, LogSame DEF logVars, Truncated
  <2>3. TypeOK'
    <3>1. Behind \subseteq 1 .. MaxLines
      BY <1>0 DEF Behind, LogInv, LogTypeOK
    <3> QED
      BY <1>0, <2>1, <2>2, <3>1 DEF TypeOK, LogInv
  <2>4. ASSUME ~Truncated' PROVE (Counts /\ Place /\ NoHistory)'
    <3>1. ~Truncated /\ Len(file) = Len(kind)
      BY <1>0, <2>2, <2>4 DEF LogInv, Whole
    <3>2. Counts /\ Place /\ NoHistory
      BY <1>0, <3>1 DEF WatchInv
    <3>0. /\ from \in Nat /\ offset \in Nat /\ armed \in Nat
          /\ from < offset /\ offset <= Len(file) /\ armed <= from
      BY <1>0, <2>1, <3>2 DEF Place, TypeOK
    <3>3. \A l \in 1 .. MaxLines : l \in lost' <=> l \in lost \/ (from < l /\ l <= offset)
      BY <1>0, <2>1, <3>0, <3>1, UnreadFacts
    <3> QED
      BY <1>0, <2>1, <2>2, <3>0, <3>1, <3>2, <3>3 DEF Counts, Place, NoHistory, TypeOK
  <2> QED
    BY <1>f, <2>2, <2>3, <2>4 DEF IInv, WatchInv
<1>5. CASE UNCHANGED vars
  <2>1. UNCHANGED logVars /\ UNCHANGED <<offset, from, times, armed, lost>>
    BY <1>5 DEF vars, watchVars
  <2>2. LogInv' /\ (Truncated' <=> Truncated) /\ file' = file /\ kind' = kind
    BY <1>0, <2>1, LogSame DEF logVars, Truncated
  <2>3. TypeOK'
    BY <1>0, <2>1, <2>2 DEF TypeOK, LogInv
  <2> QED
    BY <1>f, <1>0, <2>1, <2>2, <2>3 DEF IInv, WatchInv, Counts, Place, NoHistory
<1> QED
  BY <1>1, <1>2, <1>3, <1>4, <1>5 DEF Next, Poll

\* IInv holds throughout.
LEMMA Invariance == Spec => []IInv
BY InitHolds, StepHolds, PTL DEF Spec

\* The variables of log and watcher always have their types.
THEOREM TypeCorrect == Spec => []TypeOK
<1>1. IInv => TypeOK
  BY DEF IInv
<1> QED
  BY <1>1, Invariance, PTL

\* However the relay's appends and the cap's in-place rewrite interleave, the
\* log stays in the order it was written.
THEOREM LogAlwaysOrdered == Spec => []LogOrdered
<1>1. IInv => LogOrdered
  <2> SUFFICES ASSUME IInv, capAt # "cut", past # "torn"
               PROVE  \A i, j \in DOMAIN file : i < j => file[i] < file[j]
    BY DEF LogOrdered
  <2>1. file \in Seq(1 .. MaxLines) /\ InOrder(file)
    BY DEF IInv, LogInv, LogTypeOK, Ordered
  <2>2. DOMAIN file = 1 .. Len(file)
    BY <2>1
  <2> QED
    BY <2>1, <2>2 DEF InOrder
<1> QED
  BY <1>1, Invariance, PTL

\* Until the cap truncates the log, no line from before the watcher is processed.
THEOREM HistoryLeftAlone == Spec => []NoHistory
<1>1. IInv => NoHistory
  BY DEF IInv, WatchInv, NoHistory
<1> QED
  BY <1>1, Invariance, PTL

\* Until the cap touches the log, a line the follower has passed was processed
\* once or twice, or lost to a read that failed or came before its end was there.
THEOREM AlwaysOnceOrTwice == Spec => []OnceOrTwice
<1>1. ASSUME IInv PROVE OnceOrTwice
  <2> SUFFICES ASSUME ~Truncated PROVE
        /\ \A l \in 1 .. MaxLines : times[l] <= 2
        /\ from = Unseen /\ offset # Unseen =>
             \A l \in Lines(SubSeq(file, 1, offset)) \ lost :
               l > armed => times[l] >= 1
    BY DEF OnceOrTwice
  <2>1. Counts /\ Place
    BY <1>1 DEF IInv, WatchInv
  <2>2. \A l \in 1 .. MaxLines : times[l] <= 2
    BY <2>1 DEF Counts
  <2>3. ASSUME from = Unseen, offset # Unseen,
               NEW l \in Lines(SubSeq(file, 1, offset)) \ lost, l > armed
        PROVE  times[l] >= 1
    <3>1. /\ offset \in Nat /\ offset <= Len(file) /\ file \in Seq(1 .. MaxLines)
          /\ armed \in Nat /\ \A i \in 1 .. Len(file) : file[i] = i
      BY <1>1, <2>1, <2>3 DEF IInv, LogInv, TypeOK, LogTypeOK, Place, Whole
    <3>2. DOMAIN SubSeq(file, 1, offset) = 1 .. offset
      BY <3>1
    <3>3. PICK i \in 1 .. offset : l = SubSeq(file, 1, offset)[i]
      BY <3>2 DEF Lines
    <3>4. l = i /\ i \in 1 .. Len(file)
      BY <3>1, <3>3
    <3>5. l \in 1 .. MaxLines
      BY <3>1, <3>4
    <3> QED
      BY <2>1, <2>3, <3>1, <3>3, <3>4, <3>5 DEF Counts
  <2> QED
    BY <2>2, <2>3
<1> QED
  BY <1>1, Invariance, PTL

-----------------------------------------------------------------------------
(* The follower as part of the age memory. *)

\* A step of the observability thread, the relay, the cap or the store is a step
\* of the follower over its log, or none.
LEMMA AgeStep == ASSUME AgeNext PROVE [Next]_vars
<1>1. CASE Seed \/ Store \/ Tick
  BY <1>1 DEF Seed, Store, Tick
<1>2. CASE Stamp \/ LogCap
  BY <1>2 DEF Stamp, LogCap, LogNext, Relay, SizeCap, Next
<1>3. CASE Pass
  BY <1>3 DEF Pass, PassMeasure, PassRead, PassFails, Poll, Next
<1> QED
  BY <1>1, <1>2, <1>3 DEF AgeNext

\* The age memory uses the follower as it is: what is proved of the follower
\* holds of it there, too.
THEOREM FollowerKept == AgeSpec => Spec
<1>1. AgeInit => Init
  BY DEF AgeInit
<1>2. [AgeNext]_allVars => [Next]_vars
  BY AgeStep DEF allVars
<1> QED
  BY <1>1, <1>2, PTL DEF AgeSpec, Spec

\* The start of a day, and the time of day.
LEMMA DivMod ==
  ASSUME NEW n \in Nat, NEW d \in Nat \ {0}
  PROVE  /\ (n \div d) * d \in Nat /\ n % d \in 0 .. d - 1
         /\ (n \div d) * d <= n /\ n < (n \div d) * d + d
         /\ d <= n => d <= (n \div d) * d
OBVIOUS

\* A bounded set of times has a latest one.
LEMMA LatestOf ==
  ASSUME NEW n \in Nat, NEW S, S \subseteq -1 .. n, S # {}
  PROVE  Max(S) \in S /\ \A y \in S : y <= Max(S)
<1> DEFINE T == {n - x : x \in S}
<1>1. T \subseteq Int /\ \A t \in T : t >= 0
  OBVIOUS
<1>2. T \subseteq Nat /\ T # {}
  <2>1. PICK x \in S : TRUE
    OBVIOUS
  <2>2. n - x \in T
    BY <2>1
  <2>3. \A t \in T : t \in Nat
    BY <1>1
  <2> QED
    BY <2>2, <2>3
<1>3. PICK t \in T : \A u \in T : ~ (<<u, t>> \in OpToRel(<, Nat))
  BY <1>2, NatLessThanWellFounded, WFMin
<1>4. \A u \in T : ~ (u < t)
  BY <1>2, <1>3 DEF OpToRel
<1>5. PICK x \in S : t = n - x
  BY <1>3
<1>6. ASSUME NEW y \in S PROVE x >= y
  <2>1. n - y \in T
    OBVIOUS
  <2>2. ~ (n - y < n - x)
    BY <1>4, <1>5, <2>1
  <2>3. x \in Int /\ y \in Int
    OBVIOUS
  <2> QED
    BY <2>2, <2>3
<1> QED
  BY <1>5, <1>6 DEF Max

\* The clock, what it stamps, and that the memory is seeded before a pass.
AgeTypes ==
  /\ now \in Nat /\ Day <= now /\ zone \in Zones
  /\ when \in Seq(Nat) /\ Len(when) = Len(kind)
  /\ memory \in -2 .. now /\ stored \in -1 .. now
  /\ from # Unseen => memory # Unseeded

\* What is guessed for a time of day is less than a day ago.
LEMMA EpochFacts ==
  ASSUME AgeTypes, NEW stamp \in 0 .. Day - 1
  PROVE  /\ SightingEpoch(stamp) \in 0 .. now
         /\ now - Day < SightingEpoch(stamp)
<1>1. now \in Nat /\ Day <= now /\ Day \in Nat \ {0}
  BY AgeAssumption DEF AgeTypes
<1> DEFINE q == (now \div Day) * Day
<1>2. q \in Nat /\ q <= now /\ now < q + Day /\ Day <= q
  BY <1>1, DivMod
<1>3. SightingEpoch(stamp) = IF q + stamp > now THEN q + stamp - Day ELSE q + stamp
  BY <1>1 DEF SightingEpoch
<1> HIDE DEF q
<1> QED
  BY <1>1, <1>2, <1>3

\* What some lines of the log amount to is less than a day ago, too.
LEMMA SightingFacts ==
  ASSUME AgeTypes, NEW L, L \subseteq DOMAIN when
  PROVE  /\ Sighting(L) \in -1 .. now
         /\ L # {} => Sighting(L) >= 0 /\ now - Day < Sighting(L)
<1> DEFINE E == {SightingEpoch((when[l] + zone) % Day) : l \in L}
<1>1. ASSUME NEW l \in L
      PROVE  LET e == SightingEpoch((when[l] + zone) % Day)
             IN  e \in 0 .. now /\ now - Day < e
  <2>1. when[l] \in Nat /\ zone \in Nat /\ Day \in Nat \ {0}
    BY AgeAssumption DEF AgeTypes
  <2>2. (when[l] + zone) % Day \in 0 .. Day - 1
    BY <2>1, DivMod
  <2> QED
    BY <2>2, EpochFacts
<1>2. E \cup {None} \subseteq -1 .. now /\ E \cup {None} # {}
  BY <1>1 DEF None, AgeTypes
<1>3. /\ Sighting(L) = Max(E \cup {None})
      /\ Max(E \cup {None}) \in E \cup {None}
      /\ \A y \in E \cup {None} : y <= Max(E \cup {None})
  BY <1>2, LatestOf DEF Sighting, Latest, AgeTypes
<1>4. Sighting(L) \in -1 .. now
  BY <1>2, <1>3
<1>5. ASSUME NEW l \in L PROVE Sighting(L) >= 0 /\ now - Day < Sighting(L)
  <2> DEFINE e == SightingEpoch((when[l] + zone) % Day)
  <2>1. e \in 0 .. now /\ now - Day < e
    BY <1>1
  <2>2. e <= Sighting(L)
    BY <1>3
  <2>3. now \in Nat /\ Day \in Nat
    BY AgeAssumption DEF AgeTypes
  <2> HIDE DEF e
  <2> QED
    BY <1>4, <2>1, <2>2, <2>3
<1> QED
  BY <1>4, <1>5

\* The State of the last event is not told, because the sink raises.
Miss(L) == /\ missed' = missed \cup {l \in Events(L) : l > told}
           /\ told' = told

\* What is remembered after a pass over some lines is in range; when there were
\* lines, their last event is told or missed.
LEMMA PublishFacts ==
  ASSUME AgeTypes, memory # Unseeded, NEW L, L \subseteq DOMAIN when, Publish(L)
  PROVE  /\ memory' \in -1 .. now
         /\ L # {} => Tell(L) \/ Miss(L)
         /\ Tell(L) \/ Miss(L) \/ UNCHANGED <<told, missed>>
<1>1. /\ memory \in -1 .. now /\ stored \in -1 .. now /\ now \in Nat
      /\ Sighting(L) \in -1 .. now
      /\ L # {} => Sighting(L) >= 0 /\ now - Day < Sighting(L)
  BY SightingFacts DEF AgeTypes, Unseeded
<1> DEFINE m == Latest({memory, Sighting(L)})
<1>2. m \in -1 .. now /\ Sighting(L) <= m
  <2>1. {memory, Sighting(L)} \cup {None} \subseteq -1 .. now
    BY <1>1 DEF None
  <2>2. /\ m \in {memory, Sighting(L)} \cup {None}
        /\ \A y \in {memory, Sighting(L)} \cup {None} : y <= m
    BY <1>1, <2>1, LatestOf DEF Latest
  <2> QED
    BY <2>1, <2>2
<1>3. memory' = IF m # None /\ now - m > MaxAge THEN None ELSE m
  BY DEF Publish, Remember
<1> HIDE DEF m
<1>4. memory' \in -1 .. now
  BY <1>1, <1>2, <1>3 DEF None
<1>5. L # {} => memory' >= 0
  <2>1. MaxAge \in Nat /\ Day \in Nat /\ Day <= MaxAge + 1
    BY AgeAssumption
  <2> QED
    BY <1>1, <1>2, <1>3, <2>1 DEF None
<1> DEFINE seen == Latest({memory', stored})
<1>6. memory' <= seen
  <2>1. {memory', stored} \cup {None} \subseteq -1 .. now
    BY <1>1, <1>4 DEF None
  <2>2. \A y \in {memory', stored} \cup {None} : y <= seen
    BY <1>1, <2>1, LatestOf DEF Latest
  <2> QED
    BY <2>2
<1>7. \/ seen = None /\ UNCHANGED <<told, missed>>
      \/ seen # None /\ (Tell(L) \/ Miss(L))
  BY DEF Publish, Miss, shownVars
<1> HIDE DEF seen
<1>8. L # {} => seen # None
  BY <1>4, <1>5, <1>6 DEF None
<1> QED
  BY <1>4, <1>7, <1>8

\* The lines of the end of the file were stamped.
LEMMA LinesStamped ==
  ASSUME IInv, AgeTypes, NEW a \in Nat
  PROVE  Decoded(SubSeq(file, a + 1, Len(file))) \subseteq DOMAIN when
<1>1. Lines(SubSeq(file, a + 1, Len(file))) \subseteq 1 .. Len(kind)
  BY LinesWritten DEF IInv
<1>2. DOMAIN when = 1 .. Len(kind)
  BY DEF AgeTypes
<1> QED
  BY <1>1, <1>2 DEF Decoded

\* The clock's and the memory's types are kept.
LEMMA AgeTypesStep ==
  ASSUME IInv, AgeTypes, AgeNext
  PROVE  AgeTypes'
<1>0. now \in Nat /\ zone \in Zones /\ Day <= now /\ Day \in Nat
  BY AgeAssumption DEF AgeTypes
<1>1. CASE Seed
  <2>1. file \in Seq(1 .. MaxLines) /\ SubSeq(file, 0 + 1, Len(file)) = file
    BY DEF IInv, LogInv, LogTypeOK
  <2>2. Decoded(file) \subseteq DOMAIN when
    BY <2>1, LinesStamped
  <2>3. memory' \in -1 .. now
    BY <1>0, <1>1, <2>2, SightingFacts DEF Seed, None
  <2> QED
    BY <1>0, <1>1, <2>3 DEF Seed, AgeTypes, vars, logVars, watchVars, Unseeded
<1>2. CASE PassMeasure
  <2>1. memory # Unseeded /\ UNCHANGED kind
    BY <1>2 DEF PassMeasure, Measure, logVars
  <2>2. CASE from' = Unseen
    <3>1. Publish({})
      BY <1>2, <2>2 DEF PassMeasure
    <3>2. memory' \in -1 .. now
      BY <2>1, <3>1, PublishFacts
    <3> QED
      BY <1>0, <2>1, <2>2, <3>1, <3>2 DEF Publish, AgeTypes
  <2>3. CASE from' # Unseen
    BY <1>2, <2>1, <2>3 DEF PassMeasure, ageVars, AgeTypes
  <2> QED
    BY <2>2, <2>3
<1>3. CASE PassRead
  <2> DEFINE L == Decoded(Unread)
  <2>1. /\ from \in Nat /\ Publish(L) /\ from' = Unseen /\ UNCHANGED kind
        /\ memory # Unseeded
    BY <1>3 DEF PassRead, Read, IInv, TypeOK, logVars, AgeTypes
  <2>2. L \subseteq DOMAIN when
    BY <2>1, LinesStamped DEF Unread
  <2> HIDE DEF L
  <2>3. memory' \in -1 .. now
    BY <2>1, <2>2, PublishFacts
  <2> QED
    BY <1>0, <2>1, <2>3 DEF Publish, AgeTypes
<1>4. CASE Stamp
  <2>1. kind \in Seq(Kinds)
    BY DEF IInv, LogInv, LogTypeOK
  <2>2. Len(kind') = Len(kind) + 1 /\ when' = Append(when, now)
        /\ UNCHANGED <<from, now, zone, memory, stored>>
    BY <1>4, <2>1 DEF Stamp, WriteLine, watchVars
  <2> QED
    BY <1>0, <2>2 DEF AgeTypes
<1>5. CASE LogCap
  BY <1>5 DEF LogCap, SizeCap, WriteRest, CapMeasure, CapRead, CapWrite,
       CapTruncate, CapFail, ageVars, watchVars, AgeTypes
<1>6. CASE Store
  BY <1>0, <1>6 DEF Store, AgeTypes, vars, logVars, watchVars
<1>7. CASE Tick
  BY <1>0, <1>7 DEF Tick, AgeTypes, vars, logVars, watchVars
<1>8. CASE PassFails
  <2>1. memory # Unseeded /\ Publish({}) /\ from' = Unseen /\ UNCHANGED kind
    BY <1>8 DEF PassFails, ReadFails, logVars, AgeTypes
  <2>2. memory' \in -1 .. now
    BY <2>1, PublishFacts
  <2> QED
    BY <1>0, <2>1, <2>2 DEF Publish, AgeTypes
<1> QED
  BY <1>1, <1>2, <1>3, <1>4, <1>5, <1>6, <1>7, <1>8 DEF AgeNext, Pass

-----------------------------------------------------------------------------
(* The event that is told. *)

\* On a log that is not truncated the event told last is one that was processed,
\* and no later one was told.
ToldNewest ==
  ~Truncated =>
    /\ told \in Nat
    /\ told = 0 \/ told \in Events(Processed) \ missed
    /\ \A l \in Events(Processed) \ missed : l <= told

\* What a read processes of a log that is whole.
LEMMA LinesRead ==
  ASSUME IInv, ~Truncated, from # Unseen
  PROVE  /\ from \in Nat /\ from < Len(file) /\ Len(file) \in Nat
         /\ Decoded(Unread) = {l \in from + 1 .. Len(file) : Complete(l)}
         /\ Decoded(Unread) \subseteq DOMAIN kind
<1>1. /\ from \in Nat /\ from < offset /\ offset \in Nat /\ offset <= Len(file)
      /\ Len(file) \in Nat /\ Len(file) = Len(kind) /\ Len(file) <= MaxLines
      /\ LogInv /\ kind \in Seq(Kinds) /\ MaxLines \in Nat
  BY DEF IInv, WatchInv, Place, TypeOK, LogInv, LogTypeOK, Whole, Sizes
<1>2. \A l \in 1 .. MaxLines : l \in Decoded(Unread)
         <=> from < l /\ l <= Len(file) /\ Complete(l)
  BY <1>1, UnreadFacts
<1>3. Decoded(Unread) \subseteq 1 .. Len(kind)
  BY <1>1, LinesWritten DEF Unread, Decoded
<1>4. ASSUME NEW l PROVE l \in Decoded(Unread)
                           <=> l \in from + 1 .. Len(file) /\ Complete(l)
  <2>1. l \in Decoded(Unread) => l \in 1 .. MaxLines
    BY <1>1, <1>3
  <2>2. l \in from + 1 .. Len(file) <=> l \in 1 .. MaxLines /\ from < l /\ l <= Len(file)
    BY <1>1
  <2> QED
    BY <1>2, <2>1, <2>2
<1>5. Decoded(Unread) = {l \in from + 1 .. Len(file) : Complete(l)}
  BY <1>4
<1>6. DOMAIN kind = 1 .. Len(kind)
  BY <1>1
<1> QED
  BY <1>1, <1>3, <1>5, <1>6

\* A read adds its lines to those that were processed.
LEMMA ReadProcesses ==
  ASSUME IInv, ~Truncated, Read
  PROVE  Processed' = Processed \cup Decoded(Unread)
<1> DEFINE L == Decoded(Unread)
<1>1. /\ UNCHANGED kind
      /\ times' = [l \in 1 .. MaxLines |-> IF l \in L THEN times[l] + 1 ELSE times[l]]
  BY DEF Read, Process, logVars
<1>2. L \subseteq DOMAIN kind
  BY LinesRead DEF Read
<1>3. DOMAIN kind \subseteq 1 .. MaxLines /\ times \in [1 .. MaxLines -> Nat]
  BY DEF IInv, TypeOK, LogInv, LogTypeOK, Sizes
<1> HIDE DEF L
<1>4. \A l \in DOMAIN kind : /\ times[l] \in Nat
                             /\ times'[l] = IF l \in L THEN times[l] + 1 ELSE times[l]
  BY <1>1, <1>3
<1>5. \A l \in DOMAIN kind : times'[l] > 0 <=> times[l] > 0 \/ l \in L
  BY <1>4
<1>6. DOMAIN kind' = DOMAIN kind
  BY <1>1
<1>7. Processed' = Processed \cup L
  BY <1>2, <1>5, <1>6 DEF Processed
<1> QED
  BY <1>7 DEF L

\* A line of the log that was processed before is not behind what is read, or is
\* read again.
LEMMA ReadAgain ==
  ASSUME IInv, ~Truncated, from # Unseen, NEW l \in Processed, l \notin Decoded(Unread)
  PROVE  l \in Nat /\ l <= from
<1>1. /\ from \in Nat /\ Len(file) \in Nat
      /\ Decoded(Unread) = {m \in from + 1 .. Len(file) : Complete(m)}
  BY LinesRead
<1>2. Len(file) = Len(kind) /\ kind \in Seq(Kinds) /\ Len(kind) <= MaxLines
      /\ MaxLines \in Nat
  BY DEF IInv, LogInv, LogTypeOK, Whole, Sizes
<1>3. l \in 1 .. Len(file) /\ times[l] > 0 /\ l \in 1 .. MaxLines
  BY <1>2 DEF Processed
<1>4. Complete(l)
  BY <1>3 DEF IInv, Finished
<1> QED
  BY <1>1, <1>3, <1>4

\* Reading tells the last event of what it read, or misses it.
LEMMA ReadTells ==
  ASSUME IInv, AgeTypes, ToldNewest, PassRead
  PROVE  ToldNewest'
<1> DEFINE L == Decoded(Unread)
           V == Events(L)
           P == Events(Processed)
<1> SUFFICES ASSUME ~Truncated'
             PROVE  /\ told' \in Nat
                    /\ told' = 0 \/ told' \in Events(Processed)' \ missed'
                    /\ \A l \in Events(Processed)' \ missed' : l <= told'
  BY DEF ToldNewest
<1>1. from # Unseen /\ UNCHANGED <<file, kind>> /\ Publish(L) /\ Read
  BY DEF PassRead, Read, logVars
<1>2. ~Truncated
  BY DEF PassRead, Read, logVars, Truncated
<1>3. /\ L = {l \in from + 1 .. Len(file) : Complete(l)} /\ from \in Nat
      /\ from < Len(file) /\ Len(file) \in Nat /\ L \subseteq DOMAIN kind
  BY <1>1, <1>2, LinesRead
<1>4. Tell(L) \/ Miss(L) \/ (L = {} /\ UNCHANGED <<told, missed>>)
  <2>1. DOMAIN kind = DOMAIN when
    BY DEF AgeTypes, IInv, LogInv, LogTypeOK
  <2>2. L \subseteq DOMAIN when /\ memory # Unseeded
    BY <1>1, <1>3, <2>1 DEF AgeTypes
  <2> QED
    BY <1>1, <2>2, PublishFacts
<1>5. Events(Processed)' = P \cup V
  <2>1. Processed' = Processed \cup L
    BY <1>1, <1>2, ReadProcesses
  <2> QED
    BY <1>1, <2>1 DEF Events
<1>6. /\ told \in Nat /\ (told = 0 \/ told \in P \ missed)
      /\ \A l \in P \ missed : l <= told
  BY <1>2 DEF ToldNewest
<1>7. \A l \in V : l \in L /\ l \in Nat /\ from < l
  BY <1>3 DEF Events
<1>8. \A l \in P : l \notin V => l \notin L /\ l \in Nat /\ l <= from
  <2> SUFFICES ASSUME NEW l \in P, l \notin V PROVE l \notin L /\ l \in Nat /\ l <= from
    OBVIOUS
  <2>1. l \in Processed /\ kind[l] = "event" /\ l \notin L
    BY DEF Events
  <2> QED
    BY <1>1, <1>2, <2>1, ReadAgain
<1>9. \A l \in L : kind[l] = "event" => l \in V
  BY DEF Events
<1>10. V \subseteq L /\ V \subseteq -1 .. Len(file)
  BY <1>3 DEF Events
<1>v. V # {} => Max(V) \in V /\ \A y \in V : y <= Max(V)
  BY <1>3, <1>10, LatestOf
<1>t. Tell(L) <=> told' = (IF V = {} THEN told ELSE Max(V)) /\ missed' = missed \ L
  BY DEF Tell
<1>m. Miss(L) <=> missed' = missed \cup {l \in V : l > told} /\ told' = told
  BY DEF Miss
<1>p. \A l \in P \cap L : l \in V
  BY DEF Events
<1> HIDE DEF L, V, P
<1>11. CASE Tell(L) /\ V # {}
  <2>1. told' = Max(V) /\ missed' = missed \ L
    BY <1>11, <1>t
  <2>2. told' \in V /\ told' \in Nat /\ from < told' /\ \A y \in V : y <= told'
    BY <1>7, <1>11, <1>v, <2>1
  <2>3. told' \in (P \cup V) \ missed'
    BY <1>7, <2>1, <2>2
  <2>4. ASSUME NEW l \in (P \cup V) \ missed' PROVE l <= told'
    <3>1. CASE l \in V
      BY <2>2, <3>1
    <3>2. CASE l \notin V
      <4>1. l \in Nat /\ l <= from
        BY <1>8, <2>4, <3>2
      <4> QED
        BY <1>3, <2>2, <4>1
    <3> QED
      BY <3>1, <3>2
  <2> QED
    BY <1>5, <2>2, <2>3, <2>4
<1>12. CASE (Tell(L) /\ V = {}) \/ (L = {} /\ UNCHANGED <<told, missed>>)
  <2>1. V = {} /\ told' = told /\ missed' = missed \ L
    BY <1>10, <1>12, <1>t
  <2>2. P \cap L = {}
    BY <1>p, <2>1
  <2>3. P \ missed' = P \ missed
    BY <2>1, <2>2
  <2> QED
    BY <1>5, <1>6, <2>1, <2>3
<1>13. CASE Miss(L)
  <2>1. missed' = missed \cup {l \in V : l > told} /\ told' = told
    BY <1>13, <1>m
  <2>2. told = 0 \/ told \in P \ missed'
    <3>1. ~(told > told)
      BY <1>6
    <3> QED
      BY <1>6, <2>1, <3>1
  <2>3. ASSUME NEW l \in (P \cup V) \ missed' PROVE l <= told
    <3>1. CASE l \in V
      <4>1. l \in Nat /\ ~(l > told)
        BY <1>7, <2>1, <2>3, <3>1
      <4> QED
        BY <1>6, <4>1
    <3>2. CASE l \notin V
      BY <1>6, <2>1, <2>3, <3>2
    <3> QED
      BY <3>1, <3>2
  <2> QED
    BY <1>5, <1>6, <2>1, <2>2, <2>3
<1> QED
  BY <1>4, <1>11, <1>12, <1>13

\* Every step keeps the newest event told.
LEMMA ToldStep ==
  ASSUME IInv, AgeTypes, ToldNewest, AgeNext
  PROVE  ToldNewest'
<1>1. CASE Seed \/ Store \/ Tick
  BY <1>1 DEF Seed, Store, Tick, ToldNewest, Events, Processed, Truncated, vars, logVars,
              watchVars, shownVars
<1>2. CASE PassMeasure \/ PassFails
  <2>1. UNCHANGED <<file, kind, times, past>>
    BY <1>2 DEF PassMeasure, Measure, PassFails, ReadFails, logVars
  <2>2. told' = told /\ missed' = missed
    <3>1. CASE UNCHANGED ageVars
      BY <3>1 DEF ageVars, shownVars
    <3>2. CASE Publish({}) /\ memory # Unseeded
      <4>1. Tell({}) \/ Miss({}) \/ UNCHANGED <<told, missed>>
        BY <3>2, PublishFacts
      <4> QED
        BY <4>1 DEF Tell, Miss, Events
    <3> QED
      BY <1>2, <3>1, <3>2 DEF PassMeasure, PassFails, ReadFails, AgeTypes
  <2> QED
    BY <2>1, <2>2 DEF ToldNewest, Events, Processed, Truncated
<1>3. CASE Stamp
  <2> SUFFICES ASSUME ~Truncated' PROVE ToldNewest'
    BY DEF ToldNewest
  <2>1. PICK k \in Kinds : kind' = Append(kind, k)
    BY <1>3 DEF Stamp, WriteLine
  <2>2. /\ UNCHANGED <<told, missed, times>>
        /\ Len(kind) < MaxLines /\ LogNext
    BY <1>3 DEF Stamp, WriteLine, LogNext, Relay, watchVars, shownVars
  <2>3. /\ kind \in Seq(Kinds) /\ MaxLines \in Nat /\ ~Truncated
    BY <2>2, StaysTruncated DEF IInv, LogInv, LogTypeOK
  <2>4. /\ DOMAIN kind' = DOMAIN kind \cup {Len(kind) + 1}
        /\ \A l \in DOMAIN kind : kind'[l] = kind[l]
        /\ Len(kind) + 1 \in 1 .. MaxLines
    BY <2>1, <2>2, <2>3
  <2>5. times[Len(kind) + 1] = 0
    BY <2>3, <2>4 DEF IInv, WatchInv, Counts
  <2>6. Processed' = Processed /\ Processed \subseteq DOMAIN kind
    BY <2>2, <2>4, <2>5 DEF Processed
  <2>7. Events(Processed)' = Events(Processed)
    BY <2>4, <2>6 DEF Events
  <2> QED
    BY <2>2, <2>3, <2>7 DEF ToldNewest
<1>4. CASE LogCap
  <2>1. UNCHANGED <<kind, times, told, missed>> /\ LogNext
    BY <1>4 DEF LogCap, LogNext, Relay, SizeCap, WriteRest, CapMeasure, CapRead, CapWrite,
                CapTruncate, CapFail, ageVars, watchVars, shownVars
  <2>2. Truncated => Truncated'
    BY <2>1, StaysTruncated DEF IInv
  <2> QED
    BY <2>1, <2>2 DEF ToldNewest, Processed, Events
<1> QED
  BY <1>1, <1>2, <1>3, <1>4, ReadTells DEF AgeNext, Pass

\* Follower, clock and told event, always.
LEMMA AgeInvariance == AgeSpec => [](IInv /\ AgeTypes /\ ToldNewest)
<1>1. AgeInit => IInv /\ AgeTypes /\ ToldNewest
  <2> SUFFICES ASSUME AgeInit PROVE IInv /\ AgeTypes /\ ToldNewest
    OBVIOUS
  <2>1. IInv
    BY InitHolds DEF AgeInit
  <2>2. kind = <<>> /\ when = <<>> /\ told = 0 /\ Day \in Nat /\ Day # 0
    BY AgeAssumption DEF AgeInit, Init, LogInit
  <2> QED
    BY <2>1, <2>2 DEF AgeInit, Init, LogInit, AgeTypes, ToldNewest, Events, Processed,
                      None, Unseeded
<1>2. IInv /\ AgeTypes /\ ToldNewest /\ [AgeNext]_allVars
        => (IInv /\ AgeTypes /\ ToldNewest)'
  <2>1. CASE AgeNext
    BY <2>1, AgeStep, StepHolds, AgeTypesStep, ToldStep
  <2>2. CASE UNCHANGED allVars
    BY <2>2, StepHolds DEF allVars, vars, logVars, watchVars, ageVars, shownVars, AgeTypes,
                           ToldNewest, Events, Processed, Truncated
  <2> QED
    BY <2>1, <2>2
<1> QED
  BY <1>1, <1>2, PTL DEF AgeSpec

\* For any log, clock, zone and day: until the cap touches the log, the event told
\* last is the newest of those processed whose publish got through.
THEOREM EventsAlwaysCurrent == AgeSpec => []EventsCurrent
<1>1. ASSUME IInv, AgeTypes, ToldNewest PROVE EventsCurrent
  <2> SUFFICES ASSUME ~Truncated
               PROVE  told = Max((Events(Processed) \ missed) \cup {0})
    BY DEF EventsCurrent
  <2> DEFINE V == (Events(Processed) \ missed) \cup {0}
  <2>1. Len(kind) \in Nat /\ DOMAIN kind = 1 .. Len(kind)
    BY <1>1 DEF IInv, LogInv, LogTypeOK
  <2>2. V \subseteq -1 .. Len(kind) /\ V # {}
    BY <2>1 DEF Processed, Events
  <2>3. Max(V) \in V /\ \A y \in V : y <= Max(V)
    BY <2>1, <2>2, LatestOf
  <2>4. told \in V /\ \A y \in V : y <= told
    BY <1>1 DEF ToldNewest
  <2>5. Max(V) \in Int /\ told \in Int
    BY <2>1, <2>2, <2>3, <2>4
  <2>6. told <= Max(V) /\ Max(V) <= told
    BY <2>3, <2>4
  <2> HIDE DEF V
  <2>7. told = Max(V)
    BY <2>5, <2>6
  <2> QED
    BY <2>7 DEF V
<1> QED
  BY <1>1, AgeInvariance, PTL

-----------------------------------------------------------------------------
(* The time that is shown. *)

\* Lines are stamped in their order, and none in the future.
Clocked == /\ \A i, j \in DOMAIN when : i <= j => when[i] <= when[j]
           /\ \A i \in DOMAIN when : when[i] <= now

\* What the follower has not read yet is not older than the unit that precedes
\* the present one: there is a pass in every unit.
Fresh ==
  ~Truncated /\ offset # Unseen =>
    /\ memory # Unseeded
    /\ \A l \in DOMAIN when :
         /\ l > offset => now - 1 <= when[l]
         /\ l > offset /\ (polled \/ from # Unseen) => when[l] = now
         /\ from # Unseen /\ l > from => now - 1 <= when[l]

\* Before a line is processed, the memory is that of a line in the log or whole
\* days after it, and not after what the follower will process.
Guessed ==
  /\ memory >= 0 => \E l \in DOMAIN when :
                      memory >= when[l] /\ memory % Day = when[l] % Day
  /\ offset # Unseen => \A l \in DOMAIN when : l > armed => memory <= when[l]

\* From then on it is the time of the newest line processed unless that is too
\* old, and what is shown is that time or the store's if the sink took it.
Known ==
  /\ memory = Newest \/ (memory = None /\ now - Newest > MaxAge)
  /\ now - Newest <= MaxAge /\ heard => lastSeen \in Newest .. Latest({Newest, stored})

Remembered == zone = 0 /\ ~Truncated => IF Processed = {} THEN Guessed ELSE Known

\* Multiples of d that are less than 2 * d apart are equal or next to each other.
LEMMA Multiples ==
  ASSUME NEW d \in Nat \ {0}, NEW p \in Nat, NEW q \in Nat
  PROVE  /\ p * d \in Nat /\ q * d \in Nat
         /\ p <= q => p * d <= q * d
         /\ p < q => p * d + d <= q * d
         /\ p + 1 < q => p * d + 2 * d <= q * d
<1>1. \A k \in Nat : k * d \in Nat
  OBVIOUS
<1>2. ASSUME p <= q PROVE p * d <= q * d
  <2>1. q - p \in Nat /\ q * d = p * d + (q - p) * d
    BY <1>2
  <2> QED
    BY <1>1, <2>1
<1>3. ASSUME p < q PROVE p * d + d <= q * d
  <2>1. q - p - 1 \in Nat /\ q * d = p * d + d + (q - p - 1) * d
    BY <1>3
  <2> QED
    BY <1>1, <2>1
<1>4. ASSUME p + 1 < q PROVE p * d + 2 * d <= q * d
  <2>1. q - p - 2 \in Nat /\ q * d = p * d + 2 * d + (q - p - 2) * d
    BY <1>4
  <2> QED
    BY <1>1, <2>1
<1> QED
  BY <1>1, <1>2, <1>3, <1>4

\* The remainder is what is left of the multiple.
LEMMA Remainder ==
  ASSUME NEW d \in Nat \ {0}, NEW n \in Nat
  PROVE  n \div d \in Nat /\ n = (n \div d) * d + (n % d)
OBVIOUS

LEMMA RemainderOf ==
  ASSUME NEW d \in Nat \ {0}, NEW q \in Nat, NEW s \in 0 .. d - 1
  PROVE  (q * d + s) % d = s
<1>1. q * d + s \in Nat
  BY Multiples
<1>2. PICK n \in Nat : n = q * d + s
  BY <1>1
<1>3. PICK p \in Nat : p = n \div d
  BY Remainder
<1>4. n = p * d + (n % d) /\ n % d \in 0 .. d - 1
  BY <1>3, Remainder, DivMod
<1>5. ~ (p < q) /\ ~ (q < p)
  <2>1. /\ p * d \in Nat /\ q * d \in Nat
        /\ p < q => p * d + d <= q * d
        /\ q < p => q * d + d <= p * d
    BY Multiples
  <2> QED
    BY <1>2, <1>4, <2>1
<1>6. p = q
  BY <1>5
<1>7. q * d \in Nat
  BY Multiples
<1> QED
  BY <1>2, <1>4, <1>6, <1>7

\* A time of the past is guessed right when it is less than a day ago, and else
\* whole days too late.
LEMMA EpochOf ==
  ASSUME AgeTypes, NEW w \in Nat, w <= now
  PROVE  /\ w <= SightingEpoch(w % Day)
         /\ SightingEpoch(w % Day) % Day = w % Day
         /\ now - w < Day => SightingEpoch(w % Day) = w
<1>1. now \in Nat /\ Day <= now /\ Day \in Nat \ {0}
  BY AgeAssumption DEF AgeTypes
<1>2. PICK q \in Nat : q = now \div Day
  BY <1>1, Remainder
<1>3. PICK p \in Nat : p = w \div Day
  BY <1>1, Remainder
<1>4. PICK s \in 0 .. Day - 1 : s = w % Day
  BY <1>1, DivMod
<1>5. /\ q * Day \in Nat /\ q * Day <= now /\ now < q * Day + Day /\ Day <= q * Day
      /\ w = p * Day + s /\ p * Day \in Nat
  BY <1>1, <1>2, <1>3, <1>4, DivMod, Remainder, Multiples
<1>6. SightingEpoch(s) = IF q * Day + s > now THEN q * Day + s - Day ELSE q * Day + s
  BY <1>1, <1>2 DEF SightingEpoch
<1>7. /\ p <= q => p * Day <= q * Day
      /\ p < q => p * Day + Day <= q * Day
      /\ p + 1 < q => p * Day + 2 * Day <= q * Day
      /\ q < p => q * Day + Day <= p * Day
      /\ p = q => p * Day = q * Day
      /\ q = p + 1 => q * Day = p * Day + Day
  BY <1>1, Multiples
<1>8. w <= SightingEpoch(s) /\ (now - w < Day => SightingEpoch(s) = w)
  <2>1. \/ q < p \/ p = q \/ q = p + 1 \/ p + 1 < q
    OBVIOUS
  <2> QED
    BY <1>1, <1>5, <1>6, <1>7, <2>1
<1>9. SightingEpoch(s) % Day = s
  <2>1. CASE q * Day + s > now
    <3>1. q # 0
      BY <1>1, <1>5
    <3>2. q - 1 \in Nat /\ (q - 1) * Day = q * Day - Day
      BY <1>1, <3>1
    <3>3. SightingEpoch(s) = (q - 1) * Day + s
      BY <1>1, <1>5, <1>6, <2>1, <3>2
    <3> QED
      BY <1>1, <3>2, <3>3, RemainderOf
  <2>2. CASE ~ (q * Day + s > now)
    BY <1>1, <1>6, <2>2, RemainderOf
  <2> QED
    BY <2>1, <2>2
<1> QED
  BY <1>4, <1>8, <1>9

\* Lines less than a day old amount to the time of the newest.
LEMMA SightingNewest ==
  ASSUME AgeTypes, zone = 0, NEW L, L \subseteq DOMAIN when, NEW n \in L,
         \A l \in L : now - when[l] < Day /\ when[l] <= when[n],
         when[n] <= now
  PROVE  Sighting(L) = when[n]
<1> DEFINE E == {SightingEpoch((when[l] + zone) % Day) : l \in L}
<1>1. now \in Nat /\ \A l \in L : when[l] \in Nat
  BY DEF AgeTypes
<1>2. ASSUME NEW l \in L PROVE SightingEpoch((when[l] + zone) % Day) = when[l]
  <2>1. PICK w \in Nat : w = when[l]
    BY <1>1
  <2>2. PICK v \in Nat : v = when[n]
    BY <1>1
  <2>3. w <= now /\ now - w < Day
    BY <1>1, <2>1, <2>2
  <2>4. SightingEpoch(w % Day) = w
    BY <2>3, EpochOf
  <2>5. when[l] + zone = w
    BY <2>1
  <2> QED
    BY <2>1, <2>4, <2>5
<1>3. E = {when[l] : l \in L}
  BY <1>2
<1> HIDE DEF E
<1>4. E \cup {None} \subseteq -1 .. now /\ when[n] \in E
  <2>1. \A l \in L : when[l] \in 0 .. now
    BY <1>1
  <2> QED
    BY <1>1, <1>3, <2>1 DEF None
<1>5. /\ Sighting(L) \in E \cup {None}
      /\ \A y \in E \cup {None} : y <= Sighting(L)
  <2>1. E \cup {None} # {}
    BY <1>4
  <2> QED
    BY <1>1, <1>4, <2>1, LatestOf DEF Sighting, Latest, E
<1>6. \A y \in E : y <= when[n] /\ y \in Nat
  BY <1>1, <1>3
<1>7. when[n] <= Sighting(L) /\ when[n] \in Nat /\ Sighting(L) \in Int
  BY <1>1, <1>4, <1>5
<1>8. Sighting(L) <= when[n]
  BY <1>5, <1>6, <1>7 DEF None
<1> QED
  BY <1>7, <1>8

\* What older lines amount to is whole days after one of them.
LEMMA SightingOlder ==
  ASSUME AgeTypes, zone = 0, NEW L, L \subseteq DOMAIN when,
         \A l \in L : when[l] <= now,
         Sighting(L) >= 0
  PROVE  \E l \in L : Sighting(L) >= when[l] /\ Sighting(L) % Day = when[l] % Day
<1> DEFINE E == {SightingEpoch((when[l] + zone) % Day) : l \in L}
<1>1. now \in Nat /\ \A l \in L : when[l] \in Nat
  BY DEF AgeTypes
<1>2. ASSUME NEW l \in L
      PROVE  LET e == SightingEpoch((when[l] + zone) % Day)
             IN  /\ e \in 0 .. now
                 /\ e >= when[l] /\ e % Day = when[l] % Day
  <2>1. PICK w \in Nat : w = when[l]
    BY <1>1
  <2>2. w <= now /\ when[l] + zone = w
    BY <2>1
  <2>3. w % Day \in 0 .. Day - 1
    BY AgeAssumption, DivMod
  <2>4. SightingEpoch(w % Day) \in 0 .. now
    BY <2>3, EpochFacts
  <2>5. w <= SightingEpoch(w % Day) /\ SightingEpoch(w % Day) % Day = w % Day
    BY <2>2, EpochOf
  <2> QED
    BY <2>1, <2>2, <2>4, <2>5
<1>3. E \cup {None} \subseteq -1 .. now /\ E \cup {None} # {}
  BY <1>1, <1>2 DEF None
<1>4. Sighting(L) \in E \cup {None}
  BY <1>1, <1>3, LatestOf DEF Sighting, Latest
<1>5. Sighting(L) \in E
  BY <1>4 DEF None
<1>6. PICK l \in L : Sighting(L) = SightingEpoch((when[l] + zone) % Day)
  BY <1>5
<1> QED
  BY <1>2, <1>6

\* When a pass leaves the memory at a time n, that is what it shows, unless the
\* store knows better, n is too old or the sink raises.
LEMMA SeenFacts ==
  ASSUME AgeTypes, memory # Unseeded, NEW L, L \subseteq DOMAIN when, Publish(L),
         NEW n \in 0 .. now,
         \/ Latest({memory, Sighting(L)}) = n
         \/ Latest({memory, Sighting(L)}) = None /\ now - n > MaxAge
  PROVE  /\ memory' = n \/ (memory' = None /\ now - n > MaxAge)
         /\ now - n <= MaxAge /\ heard' => lastSeen' \in n .. Latest({n, stored})
<1>1. now \in Nat /\ stored \in -1 .. now /\ MaxAge \in Nat /\ n \in Nat
  BY AgeAssumption DEF AgeTypes
<1>2. memory' = IF Latest({memory, Sighting(L)}) # None
                     /\ now - Latest({memory, Sighting(L)}) > MaxAge
                  THEN None ELSE Latest({memory, Sighting(L)})
  BY DEF Publish, Remember
<1>3. memory' = n \/ (memory' = None /\ now - n > MaxAge)
  BY <1>1, <1>2
<1>4. ASSUME now - n <= MaxAge, heard' PROVE lastSeen' \in n .. Latest({n, stored})
  <2>1. memory' = n
    BY <1>1, <1>3, <1>4
  <2>2. {n, stored} \cup {None} \subseteq -1 .. now /\ {n, stored} \cup {None} # {}
    BY <1>1 DEF None
  <2>3. /\ Latest({n, stored}) \in {n, stored} \cup {None}
        /\ n <= Latest({n, stored})
    BY <1>1, <2>2, LatestOf DEF Latest
  <2>4. lastSeen' = Latest({n, stored})
    <3>1. Latest({memory', stored}) = Latest({n, stored})
      BY <2>1
    <3>2. \/ Latest({memory', stored}) = None
          \/ lastSeen' = Latest({memory', stored}) \/ heard' = FALSE
      BY DEF Publish
    <3>3. Latest({n, stored}) # None
      BY <1>1, <2>3 DEF None
    <3> QED
      BY <1>4, <3>1, <3>2, <3>3
  <2>5. Latest({n, stored}) \in Nat
    BY <1>1, <2>2, <2>3 DEF None
  <2> QED
    BY <1>1, <2>3, <2>4, <2>5
<1> QED
  BY <1>3, <1>4

\* Of two times the later one.
LEMMA LatestOfTwo ==
  ASSUME NEW n \in Nat, NEW a \in -1 .. n, NEW b \in -1 .. n
  PROVE  Latest({a, b}) = IF a <= b THEN b ELSE a
<1>1. {a, b} \cup {None} \subseteq -1 .. n /\ {a, b} \cup {None} # {}
  BY DEF None
<1>2. /\ Latest({a, b}) \in {a, b} \cup {None}
      /\ \A y \in {a, b} \cup {None} : y <= Latest({a, b})
  BY <1>1, LatestOf DEF Latest
<1>3. Latest({a, b}) \in Int /\ a <= Latest({a, b}) /\ b <= Latest({a, b})
  BY <1>1, <1>2
<1> QED
  BY <1>2, <1>3 DEF None

\* The clock does not go back.
LEMMA ClockedStep ==
  ASSUME IInv, AgeTypes, Clocked, AgeNext
  PROVE  Clocked'
<1>1. now \in Nat /\ when \in Seq(Nat)
  BY DEF AgeTypes
<1>2. CASE Stamp
  <2>1. when' = Append(when, now) /\ now' = now
    BY <1>2 DEF Stamp
  <2>2. PICK k \in Nat : Len(when) = k
    BY <1>1
  <2>3. /\ DOMAIN when = 1 .. k /\ DOMAIN when' = 1 .. k + 1
        /\ \A i \in 1 .. k : when'[i] = when[i] /\ when[i] \in Nat
        /\ when'[k + 1] = now
    BY <1>1, <2>1, <2>2
  <2>4. \A i \in 1 .. k : when'[i] <= now
    BY <2>3 DEF Clocked
  <2>5. ASSUME NEW i \in 1 .. k + 1, NEW j \in 1 .. k + 1, i <= j
        PROVE  when'[i] <= when'[j]
    <3>1. CASE j = k + 1
      BY <1>1, <2>3, <2>4, <3>1
    <3>2. CASE j # k + 1
      <4>1. i \in 1 .. k /\ j \in 1 .. k
        BY <2>5, <3>2
      <4> QED
        BY <2>3, <2>5, <4>1 DEF Clocked
    <3> QED
      BY <3>1, <3>2
  <2>6. \A i \in 1 .. k + 1 : when'[i] <= now'
    BY <1>1, <2>1, <2>3, <2>4
  <2> QED
    BY <2>3, <2>5, <2>6 DEF Clocked
<1>3. CASE Tick
  <2>1. now' = now + 1 /\ when' = when /\ \A i \in DOMAIN when : when[i] \in Nat
    BY <1>1, <1>3 DEF Tick
  <2> QED
    BY <1>1, <2>1 DEF Clocked
<1>4. CASE Seed \/ Pass \/ LogCap \/ Store
  <2>1. UNCHANGED <<now, when>>
    BY <1>4 DEF Seed, Pass, PassMeasure, PassRead, PassFails, Publish, LogCap, Store,
                ageVars
  <2> QED
    BY <2>1 DEF Clocked
<1> QED
  BY <1>2, <1>3, <1>4 DEF AgeNext

\* No lines amount to no time.
LEMMA SightingNone == ASSUME AgeTypes PROVE Sighting({}) = None
<1>1. {None} \subseteq -1 .. now /\ {None} # {} /\ now \in Nat
  BY DEF AgeTypes, None
<1>2. {SightingEpoch((when[l] + zone) % Day) : l \in {}} = {}
  OBVIOUS
<1>3. Sighting({}) = Max({None})
  BY <1>2 DEF Sighting, Latest
<1> QED
  BY <1>1, <1>3, LatestOf

\* What the follower knows of a log that is whole.
LEMMA Standing ==
  ASSUME IInv, AgeTypes, ~Truncated
  PROVE  /\ Len(file) \in Nat /\ Len(file) = Len(kind)
         /\ DOMAIN kind = 1 .. Len(file) /\ DOMAIN when = 1 .. Len(file)
         /\ Decoded(file) \subseteq DOMAIN when
         /\ Processed \subseteq DOMAIN when
         /\ offset \in -1 .. Len(file) /\ from \in Int /\ armed \in Int
         /\ from # Unseen => from < offset /\ armed <= from
         /\ offset = Unseen => Processed = {} /\ from = Unseen
         /\ offset # Unseen => armed \in Nat /\ armed <= offset
<1>1. /\ file \in Seq(1 .. MaxLines) /\ kind \in Seq(Kinds) /\ Len(file) = Len(kind)
      /\ \A i \in 1 .. Len(file) : file[i] = i
      /\ MaxLines \in Nat /\ Len(file) <= MaxLines
  BY DEF IInv, LogInv, LogTypeOK, Whole, Sizes, Truncated
<1>2. DOMAIN kind = 1 .. Len(file) /\ DOMAIN file = 1 .. Len(file) /\ Len(file) \in Nat
  BY <1>1
<1>3. DOMAIN when = 1 .. Len(file)
  BY <1>1 DEF AgeTypes
<1>4. Decoded(file) \subseteq DOMAIN when
  BY <1>1, <1>2, <1>3 DEF Decoded, Lines
<1>5. Place /\ offset \in 0 .. MaxLines \cup {-1} /\ from \in 0 .. MaxLines \cup {-1}
      /\ armed \in 0 .. MaxLines \cup {-1} /\ (from # Unseen => from < offset)
  BY DEF IInv, WatchInv, TypeOK
<1>6. offset = Unseen => Processed = {}
  <2> SUFFICES ASSUME offset = Unseen, NEW l \in Processed PROVE FALSE
    OBVIOUS
  <2>1. l \in 1 .. MaxLines /\ times[l] > 0
    BY <1>1, <1>2 DEF Processed
  <2> QED
    BY <1>5, <2>1 DEF Place
<1>7. Processed \subseteq DOMAIN when
  BY <1>2, <1>3 DEF Processed
<1> QED
  BY <1>1, <1>2, <1>3, <1>4, <1>5, <1>6, <1>7 DEF Place

\* A log that is whole after a step was so before it.
LEMMA StaysWhole ==
  ASSUME IInv, AgeNext, ~Truncated'
  PROVE  ~Truncated
<1>1. UNCHANGED logVars \/ LogNext
  BY DEF AgeNext, Seed, Pass, PassMeasure, PassRead, PassFails, Measure, Read, ReadFails,
         Stamp, LogCap, LogNext, Relay, SizeCap, Store, Tick, vars
<1>2. UNCHANGED logVars => (Truncated' <=> Truncated)
  BY DEF logVars, Truncated
<1> QED
  BY <1>1, <1>2, StaysTruncated DEF IInv

\* The follower keeps up with the clock.
LEMMA FreshStep ==
  ASSUME IInv, AgeTypes, AgeTypes', Clocked, Fresh, AgeNext
  PROVE  Fresh'
<1> SUFFICES ASSUME ~Truncated', offset' # Unseen PROVE
      /\ memory' # Unseeded
      /\ \A l \in DOMAIN when' :
           /\ l > offset' => now' - 1 <= when'[l]
           /\ l > offset' /\ (polled' \/ from' # Unseen) => when'[l] = now'
           /\ from' # Unseen /\ l > from' => now' - 1 <= when'[l]
  BY DEF Fresh
<1>1. now \in Nat /\ when \in Seq(Nat) /\ now' \in Nat
  BY DEF AgeTypes
<1>2. ~Truncated
  BY StaysWhole
<1>3. /\ Len(file) \in Nat /\ DOMAIN when = 1 .. Len(file) /\ Len(file) = Len(kind)
      /\ offset \in -1 .. Len(file) /\ from \in Int
      /\ from # Unseen => from < offset
      /\ offset = Unseen => from = Unseen
  BY <1>2, Standing
<1>4. CASE Seed
  BY <1>2, <1>4 DEF Seed, Fresh, vars, watchVars
<1>5. CASE PassMeasure
  <2>1. /\ memory # Unseeded /\ from = Unseen /\ UNCHANGED <<now, when>>
    BY <1>5 DEF PassMeasure, Measure, Publish, ageVars
  <2>2. memory' # Unseeded
    <3>1. CASE from' = Unseen
      <4>1. Publish({})
        BY <1>5, <3>1 DEF PassMeasure
      <4> QED
        BY <2>1, <4>1, PublishFacts DEF Unseeded
    <3>2. CASE from' # Unseen
      BY <1>5, <2>1, <3>2 DEF PassMeasure, ageVars
    <3> QED
      BY <3>1, <3>2
  <2>3. CASE from' = Unseen
    <3>1. offset' = Len(file)
      BY <1>3, <1>5, <2>1, <2>3 DEF PassMeasure, Measure, StartOf
    <3>2. \A l \in DOMAIN when' : ~ (l > offset')
      BY <1>3, <2>1, <3>1
    <3> QED
      BY <2>2, <2>3, <3>2
  <2>4. CASE from' # Unseen
    <3>1. offset' = Len(file) /\ from' = offset /\ offset # Unseen
      BY <1>3, <1>5, <2>1, <2>4 DEF PassMeasure, Measure, StartOf
    <3>2. \A l \in DOMAIN when' : ~ (l > offset')
      BY <1>3, <2>1, <3>1
    <3>3. \A l \in DOMAIN when : l > offset => now - 1 <= when[l]
      BY <1>2, <3>1 DEF Fresh
    <3> QED
      BY <2>1, <2>2, <3>1, <3>2, <3>3
  <2> QED
    BY <2>3, <2>4
<1>6. CASE PassRead \/ PassFails
  <2>1. PICK L \in {Decoded(Unread), {}} :
          /\ from # Unseen /\ from' = Unseen /\ offset' = offset
          /\ Publish(L) /\ UNCHANGED <<now, when>>
    BY <1>6 DEF PassRead, PassFails, Read, ReadFails, Publish
  <2>2. from \in Nat /\ memory # Unseeded
    BY <1>2, <2>1, LinesRead DEF AgeTypes
  <2>3. L \subseteq DOMAIN when
    BY <2>1, <2>2, LinesStamped DEF Unread
  <2>4. memory' # Unseeded
    BY <2>1, <2>2, <2>3, PublishFacts DEF Unseeded
  <2>5. offset # Unseen
    BY <1>3, <2>1
  <2>6. \A l \in DOMAIN when : l > offset => when[l] = now
    BY <1>2, <2>1, <2>5 DEF Fresh
  <2> QED
    BY <1>1, <2>1, <2>4, <2>6
<1>7. CASE Stamp
  <2>1. /\ when' = Append(when, now)
        /\ UNCHANGED <<now, memory, offset, from, polled>>
    BY <1>7 DEF Stamp, watchVars
  <2>2. /\ DOMAIN when' = 1 .. Len(file) + 1
        /\ \A l \in 1 .. Len(file) : when'[l] = when[l]
        /\ when'[Len(file) + 1] = now
    BY <1>1, <1>3, <2>1
  <2>3. ASSUME NEW l \in DOMAIN when'
        PROVE  /\ l > offset => now - 1 <= when'[l]
               /\ l > offset /\ (polled \/ from # Unseen) => when'[l] = now
               /\ from # Unseen /\ l > from => now - 1 <= when'[l]
    <3>1. CASE l = Len(file) + 1
      BY <1>1, <2>2, <3>1
    <3>2. CASE l # Len(file) + 1
      <4>1. l \in DOMAIN when /\ when'[l] = when[l]
        BY <1>3, <2>2, <2>3, <3>2
      <4> QED
        BY <1>2, <2>1, <4>1 DEF Fresh
    <3> QED
      BY <3>1, <3>2
  <2>4. memory # Unseeded
    BY <1>2, <2>1 DEF Fresh
  <2> QED
    BY <2>1, <2>3, <2>4
<1>8. CASE LogCap
  <2>1. UNCHANGED <<now, when, memory, offset, from, polled>>
    BY <1>8 DEF LogCap, watchVars, ageVars
  <2> QED
    BY <1>2, <2>1 DEF Fresh
<1>9. CASE Store
  BY <1>2, <1>9 DEF Store, Fresh, vars, watchVars
<1>10. CASE Tick
  <2>1. /\ from = Unseen /\ now' = now + 1 /\ polled' = FALSE
        /\ memory = Unseeded \/ polled
        /\ UNCHANGED <<offset, from, when, memory>>
    BY <1>10 DEF Tick, vars, watchVars
  <2>2. memory # Unseeded /\ polled
    BY <1>2, <2>1 DEF Fresh
  <2>3. \A l \in DOMAIN when : l > offset => when[l] = now
    BY <1>2, <2>1, <2>2 DEF Fresh
  <2> QED
    BY <1>1, <2>1, <2>2, <2>3
<1> QED
  BY <1>4, <1>5, <1>6, <1>7, <1>8, <1>9, <1>10 DEF AgeNext, Pass

\* The newest line processed is one that was processed, and written before now.
LEMMA NewestFacts ==
  ASSUME IInv, AgeTypes, Clocked, ~Truncated, Processed # {}
  PROVE  /\ Max(Processed) \in Processed /\ Max(Processed) \in DOMAIN when
         /\ \A l \in Processed : l <= Max(Processed)
         /\ Newest \in 0 .. now
<1>1. /\ Len(file) \in Nat /\ DOMAIN when = 1 .. Len(file)
      /\ Processed \subseteq DOMAIN when
  BY Standing
<1>2. Processed \subseteq -1 .. Len(file)
  BY <1>1
<1>3. Max(Processed) \in Processed /\ \A l \in Processed : l <= Max(Processed)
  BY <1>1, <1>2, LatestOf
<1>4. when[Max(Processed)] \in Nat /\ when[Max(Processed)] <= now /\ now \in Nat
  BY <1>1, <1>3 DEF AgeTypes, Clocked
<1> QED
  BY <1>1, <1>3, <1>4 DEF Newest

\* A step that processes nothing.
LEMMA NothingProcessed ==
  ASSUME IInv, UNCHANGED <<kind, times>>
  PROVE  Processed' = Processed
BY DEF Processed

\* A pass that has processed nothing keeps or drops what is remembered.
LEMMA QuietRemembers ==
  ASSUME IInv, AgeTypes, Clocked, Remembered, zone = 0, ~Truncated,
         memory # Unseeded, Publish({}), UNCHANGED <<kind, times>>,
         \A l \in DOMAIN when : l > armed' => offset # Unseen /\ l > armed
  PROVE  IF Processed' = {} THEN Guessed' ELSE Known'
<1>1. UNCHANGED <<now, when, stored>> /\ Processed' = Processed
  BY NothingProcessed DEF Publish
<1>2. /\ memory \in -1 .. now /\ now \in Nat
      /\ \A l \in DOMAIN when : when[l] \in Nat
  BY DEF AgeTypes, Unseeded
<1>3. Latest({memory, Sighting({})}) = memory
  <2>1. None \in -1 .. now
    BY <1>2 DEF None
  <2>2. Latest({memory, None}) = IF memory <= None THEN None ELSE memory
    BY <1>2, <2>1, LatestOfTwo
  <2> QED
    BY <1>2, <2>2, SightingNone DEF None
<1>4. memory' = memory \/ memory' = None
  BY <1>3 DEF Publish, Remember
<1>5. CASE Processed = {}
  <2>1. Guessed
    BY <1>5 DEF Remembered
  <2>2. memory' >= 0 => memory' = memory
    BY <1>4 DEF None
  <2>3. ASSUME NEW l \in DOMAIN when, l > armed' PROVE memory' <= when[l]
    <3>1. memory <= when[l] /\ when[l] \in Nat
      BY <1>2, <2>1, <2>3 DEF Guessed
    <3> QED
      BY <1>2, <1>4, <3>1 DEF None
  <2>4. Guessed'
    BY <1>1, <2>1, <2>2, <2>3 DEF Guessed
  <2> QED
    BY <1>1, <1>5, <2>4
<1>6. CASE Processed # {}
  <2>1. Known /\ Newest \in 0 .. now
    BY <1>6, NewestFacts DEF Remembered
  <2>2. \/ Latest({memory, Sighting({})}) = Newest
        \/ Latest({memory, Sighting({})}) = None /\ now - Newest > MaxAge
    BY <1>3, <2>1 DEF Known
  <2>3. /\ memory' = Newest \/ (memory' = None /\ now - Newest > MaxAge)
        /\ now - Newest <= MaxAge /\ heard'
             => lastSeen' \in Newest .. Latest({Newest, stored})
    BY <2>1, <2>2, SeenFacts
  <2>4. Newest' = Newest
    BY <1>1 DEF Newest
  <2>5. Known'
    BY <1>1, <2>3, <2>4 DEF Known
  <2> QED
    BY <1>1, <1>6, <2>5
<1> QED
  BY <1>5, <1>6

\* So does one that measures, before it reads.
LEMMA MeasureRemembers ==
  ASSUME IInv, AgeTypes, Clocked, Remembered, PassMeasure, zone = 0, ~Truncated
  PROVE  IF Processed' = {} THEN Guessed' ELSE Known'
<1>1. memory # Unseeded /\ from = Unseen /\ UNCHANGED <<file, kind, times>>
  BY DEF PassMeasure, Measure, logVars
<1>2. /\ Len(file) \in Nat /\ DOMAIN when = 1 .. Len(file) /\ Len(file) = Len(kind)
      /\ offset = Unseen => armed = Unseen
      /\ offset # Unseen => armed # Unseen
  BY Standing DEF IInv, WatchInv, Place
<1>3. armed' = IF offset = Unseen THEN Len(file) ELSE armed
  BY <1>2 DEF PassMeasure, Measure, Arm
<1>4. CASE from' = Unseen
  <2>1. \A l \in DOMAIN when : l > armed' => offset # Unseen /\ l > armed
    BY <1>2, <1>3
  <2> QED
    BY <1>1, <1>4, <2>1, QuietRemembers DEF PassMeasure
<1>5. CASE from' # Unseen
  <2>1. offset # Unseen /\ UNCHANGED ageVars
    BY <1>1, <1>5 DEF PassMeasure, Measure, StartOf
  <2>2. Processed' = Processed /\ armed' = armed
    BY <1>1, <1>3, <2>1, NothingProcessed
  <2>3. UNCHANGED <<now, when, memory, lastSeen, heard, stored>>
    BY <2>1 DEF ageVars, shownVars
  <2>4. Newest' = Newest
    BY <2>2, <2>3 DEF Newest
  <2>5. (Guessed => Guessed') /\ (Known => Known')
    BY <2>1, <2>2, <2>3, <2>4 DEF Guessed, Known
  <2> QED
    BY <2>2, <2>5 DEF Remembered
<1> QED
  BY <1>4, <1>5

\* A pass that reads makes the time of the last line what is remembered, if it can
\* make something of one.
LEMMA ReadRemembers ==
  ASSUME IInv, AgeTypes, Clocked, Fresh, Remembered, PassRead, zone = 0, ~Truncated,
         Decoded(Unread) # {}
  PROVE  Processed' # {} /\ Known'
<1> DEFINE L == Decoded(Unread)
<1>1. /\ from # Unseen /\ UNCHANGED <<file, kind, now, when, stored>> /\ Publish(L)
      /\ from \in Nat /\ memory # Unseeded /\ Read
  BY DEF PassRead, Read, Publish, logVars, AgeTypes, IInv, TypeOK
<1>2. L \subseteq from + 1 .. Len(file) /\ L # {}
  BY <1>1, LinesRead
<1>3. /\ Len(file) \in Nat /\ DOMAIN when = 1 .. Len(file)
      /\ DOMAIN kind = 1 .. Len(file) /\ Processed \subseteq DOMAIN when
      /\ armed \in Nat /\ armed <= from /\ offset # Unseen
      /\ \A l \in DOMAIN when : when[l] \in Nat
      /\ memory \in -1 .. now /\ now \in Nat /\ Day \in Nat /\ Day >= 2
  BY <1>1, Standing, AgeAssumption DEF AgeTypes, Unseeded
<1>4. Processed' = Processed \cup L
  BY <1>1, ReadProcesses
<1>5. \A l \in Processed : l \notin L => l \in Nat /\ l <= from
  BY <1>1, ReadAgain
<1> HIDE DEF L
<1>6. PICK e \in L : \A l \in L : l <= e
  <2>1. L \subseteq -1 .. Len(file)
    BY <1>1, <1>2, <1>3
  <2>2. Max(L) \in L /\ \A l \in L : l <= Max(L)
    BY <1>2, <1>3, <2>1, LatestOf
  <2> QED
    BY <2>2
<1>7. L \subseteq DOMAIN when /\ e \in DOMAIN when /\ e > from /\ e \in Nat
  BY <1>1, <1>2, <1>3, <1>6
<1>8. \A l \in Processed \cup L : l <= e
  BY <1>1, <1>5, <1>6, <1>7
<1>9. Max(Processed') = e
  <2>1. Processed' \subseteq -1 .. Len(file) /\ Processed' # {} /\ e \in Processed'
    BY <1>3, <1>4, <1>6, <1>7
  <2>2. Max(Processed') \in Processed' /\ \A l \in Processed' : l <= Max(Processed')
    BY <1>3, <2>1, LatestOf
  <2>3. \A l \in Processed' : l <= e
    BY <1>4, <1>8
  <2>4. Max(Processed') \in -1 .. Len(file)
    BY <2>1, <2>2
  <2>5. e <= Max(Processed') /\ Max(Processed') <= e
    BY <2>1, <2>2, <2>3
  <2> QED
    BY <1>3, <1>7, <2>4, <2>5
<1>10. PICK n \in Nat : n = when[e]
  BY <1>3, <1>7
<1>11. n <= now
  BY <1>7, <1>10 DEF Clocked
<1>12. Sighting(L) = n
  <2>1. ASSUME NEW l \in L PROVE now - when[l] < Day /\ when[l] <= when[e]
    <3>1. l \in DOMAIN when /\ l > from /\ l <= e
      BY <1>1, <1>2, <1>3, <1>6, <1>7
    <3>2. now - 1 <= when[l]
      BY <1>1, <1>3, <3>1 DEF Fresh
    <3>3. when[l] <= when[e]
      BY <1>7, <3>1 DEF Clocked
    <3> QED
      BY <1>3, <3>1, <3>2, <3>3
  <2> QED
    BY <1>6, <1>7, <1>10, <1>11, <2>1, SightingNewest
<1>13. memory <= n
  <2>1. CASE Processed = {}
    <3>1. Guessed /\ e > armed
      BY <1>1, <1>3, <1>7, <2>1 DEF Remembered
    <3> QED
      BY <1>3, <1>7, <1>10, <3>1 DEF Guessed
  <2>2. CASE Processed # {}
    <3>1. Known /\ Max(Processed) \in DOMAIN when /\ Max(Processed) \in Processed
      BY <2>2, NewestFacts DEF Remembered
    <3>2. Max(Processed) <= e
      BY <1>8, <3>1
    <3>3. when[Max(Processed)] <= when[e]
      BY <1>7, <3>1, <3>2 DEF Clocked
    <3> QED
      BY <1>10, <3>1, <3>3 DEF Known, Newest, None
  <2> QED
    BY <2>1, <2>2
<1>14. Latest({memory, Sighting(L)}) = n
  BY <1>3, <1>10, <1>11, <1>12, <1>13, LatestOfTwo
<1>15. /\ memory' = n \/ (memory' = None /\ now - n > MaxAge)
       /\ now - n <= MaxAge /\ heard' => lastSeen' \in n .. Latest({n, stored})
  <2>1. n \in 0 .. now
    BY <1>3, <1>11
  <2> QED
    BY <1>1, <1>7, <1>14, <2>1, SeenFacts
<1>16. Newest' = n
  BY <1>1, <1>9, <1>10 DEF Newest
<1> QED
  BY <1>1, <1>4, <1>6, <1>15, <1>16 DEF Known

\* Every step keeps what is remembered right.
LEMMA RememberedStep ==
  ASSUME IInv, AgeTypes, AgeTypes', Clocked, Fresh, Remembered, AgeNext
  PROVE  Remembered'
<1> SUFFICES ASSUME zone' = 0, ~Truncated'
             PROVE  IF Processed' = {} THEN Guessed' ELSE Known'
  BY DEF Remembered
<1>1. ~Truncated /\ zone = 0
  <2>1. zone' = zone
    BY DEF AgeNext, Seed, Pass, PassMeasure, PassRead, PassFails, Publish, Stamp, LogCap, Store,
           Tick, ageVars
  <2> QED
    BY <2>1, StaysWhole
<1>2. /\ Len(file) \in Nat /\ DOMAIN when = 1 .. Len(file) /\ Len(file) = Len(kind)
      /\ DOMAIN kind = 1 .. Len(file) /\ Decoded(file) \subseteq DOMAIN when
      /\ Processed \subseteq DOMAIN when
      /\ offset = Unseen => Processed = {}
      /\ now \in Nat /\ when \in Seq(Nat) /\ MaxAge \in Nat
      /\ memory \in -2 .. now /\ stored \in -1 .. now
  BY <1>1, Standing, AgeAssumption DEF AgeTypes
<1>3. /\ Processed = {} => Guessed
      /\ Processed # {} => /\ Known /\ Newest \in 0 .. now
                           /\ Max(Processed) \in Processed
  BY <1>1, NewestFacts DEF Remembered
<1>4. CASE Seed
  <2>1. /\ memory = Unseeded /\ memory' \in {Sighting(Decoded(file)), None}
        /\ UNCHANGED <<kind, times, when, offset>>
    BY <1>2, <1>4 DEF Seed, vars, logVars, watchVars
  <2>2. offset = Unseen /\ Processed' = {}
    BY <1>1, <1>2, <2>1, NothingProcessed DEF Fresh
  <2>3. ASSUME memory' >= 0
        PROVE  \E l \in DOMAIN when : memory' >= when[l] /\ memory' % Day = when[l] % Day
    <3>1. \A l \in DOMAIN when : when[l] <= now
      BY DEF Clocked
    <3>2. memory' = Sighting(Decoded(file))
      BY <2>1, <2>3 DEF None
    <3>3. \E l \in Decoded(file) :
            memory' >= when[l] /\ memory' % Day = when[l] % Day
      BY <1>1, <1>2, <2>3, <3>1, <3>2, SightingOlder
    <3> QED
      BY <1>2, <3>3
  <2> QED
    BY <2>1, <2>2, <2>3 DEF Guessed
<1>5. CASE PassMeasure
  BY <1>1, <1>5, MeasureRemembers
<1>6. CASE (PassRead /\ Decoded(Unread) = {}) \/ PassFails
  <2>1. /\ Publish({}) /\ memory # Unseeded /\ UNCHANGED kind /\ armed' = armed
        /\ from # Unseen
    BY <1>6 DEF PassRead, PassFails, Read, ReadFails, logVars, AgeTypes
  <2>2. times' = times
    BY <1>6 DEF PassRead, PassFails, Read, ReadFails, Process, IInv, TypeOK
  <2>3. offset # Unseen
    BY <1>1, <2>1, Standing
  <2> QED
    BY <1>1, <2>1, <2>2, <2>3, QuietRemembers
<1>9. CASE PassRead /\ Decoded(Unread) # {}
  BY <1>1, <1>9, ReadRemembers
<1>7. CASE Stamp
  <2>1. PICK k \in Kinds : kind' = Append(kind, k)
    BY <1>7 DEF Stamp, WriteLine
  <2>2. /\ when' = Append(when, now) /\ Len(kind) < MaxLines
        /\ UNCHANGED <<now, memory, stored, lastSeen, heard, offset, times, armed>>
    BY <1>7 DEF Stamp, WriteLine, watchVars, shownVars
  <2>3. /\ DOMAIN when' = 1 .. Len(file) + 1 /\ when'[Len(file) + 1] = now
        /\ \A l \in 1 .. Len(file) : when'[l] = when[l]
    BY <1>2, <2>2
  <2>4. Processed' = Processed
    <3>1. kind \in Seq(Kinds) /\ MaxLines \in Nat
      BY DEF IInv, LogInv, LogTypeOK
    <3>2. /\ DOMAIN kind' = DOMAIN kind \cup {Len(kind) + 1}
          /\ Len(kind) + 1 \in 1 .. MaxLines
      BY <1>2, <2>1, <2>2, <3>1
    <3>3. times[Len(kind) + 1] = 0
      BY <1>1, <1>2, <3>2 DEF IInv, WatchInv, Counts
    <3> QED
      BY <2>2, <3>2, <3>3 DEF Processed
  <2>5. CASE Processed = {}
    <3>1. ASSUME memory >= 0
          PROVE  \E l \in DOMAIN when' : memory >= when'[l]
                                        /\ memory % Day = when'[l] % Day
      <4>1. PICK l \in DOMAIN when : memory >= when[l] /\ memory % Day = when[l] % Day
        BY <1>3, <2>5, <3>1 DEF Guessed
      <4>2. l \in DOMAIN when' /\ when'[l] = when[l]
        BY <1>2, <2>3
      <4> QED
        BY <4>1, <4>2
    <3>2. ASSUME offset # Unseen, NEW l \in DOMAIN when', l > armed
          PROVE  memory <= when'[l]
      <4>1. CASE l = Len(file) + 1
        BY <1>2, <2>3, <4>1
      <4>2. CASE l # Len(file) + 1
        <5>1. l \in DOMAIN when /\ when'[l] = when[l]
          BY <1>2, <2>3, <3>2, <4>2
        <5> QED
          BY <1>3, <2>5, <3>2, <5>1 DEF Guessed
      <4> QED
        BY <4>1, <4>2
    <3>3. Guessed'
      BY <2>2, <3>1, <3>2 DEF Guessed
    <3> QED
      BY <2>4, <2>5, <3>3
  <2>6. CASE Processed # {}
    <3>1. Newest' = Newest
      <4>1. Max(Processed) \in 1 .. Len(file)
        BY <1>2, <1>3, <2>6
      <4> QED
        BY <2>3, <2>4, <4>1 DEF Newest
    <3>2. Known'
      BY <1>3, <2>2, <2>6, <3>1 DEF Known
    <3> QED
      BY <2>4, <2>6, <3>2
  <2> QED
    BY <2>5, <2>6
<1>8. CASE LogCap \/ Store \/ Tick
  <2>1. UNCHANGED <<kind, times, when, offset, armed, memory, lastSeen, heard>>
    BY <1>8 DEF LogCap, SizeCap, WriteRest, CapMeasure, CapRead, CapWrite, CapTruncate,
                CapFail, Store, Tick, vars, logVars, watchVars, ageVars, shownVars
  <2>2. Processed' = Processed /\ Newest' = Newest
    BY <2>1, NothingProcessed DEF Newest
  <2>3. CASE Processed = {}
    <3>1. Guessed'
      BY <1>3, <2>1, <2>3 DEF Guessed
    <3> QED
      BY <2>2, <2>3, <3>1
  <2>4. CASE Processed # {}
    <3>1. Known /\ Newest \in 0 .. now
      BY <1>3, <2>4
    <3>2. PICK n \in 0 .. now : n = Newest
      BY <3>1
    <3>3. /\ n \in Nat /\ n <= now /\ n <= now'
          /\ now' \in Nat /\ now <= now' /\ stored' \in {stored, now}
      BY <1>2, <1>8, <3>2 DEF LogCap, Store, Tick, ageVars
    <3>4. Latest({n, stored}) <= Latest({n, stored'})
      <4>1. stored' \in -1 .. now
        BY <1>2, <3>3
      <4>2. /\ Latest({n, stored}) = IF n <= stored THEN stored ELSE n
            /\ Latest({n, stored'}) = IF n <= stored' THEN stored' ELSE n
        BY <1>2, <4>1, LatestOfTwo
      <4> QED
        BY <1>2, <3>3, <4>1, <4>2
    <3>5. Latest({n, stored'}) \in Int
      <4>1. stored' \in -1 .. now
        BY <1>2, <3>3
      <4> QED
        BY <1>2, <4>1, LatestOfTwo
    <3>6. /\ memory' = n \/ (memory' = None /\ now' - n > MaxAge)
          /\ now' - n <= MaxAge /\ heard' => lastSeen' \in n .. Latest({n, stored'})
      <4>1. /\ memory = n \/ (memory = None /\ now - n > MaxAge)
            /\ now - n <= MaxAge /\ heard => lastSeen \in n .. Latest({n, stored})
        BY <3>1, <3>2 DEF Known
      <4>2. Latest({n, stored}) \in Int
        BY <1>2, LatestOfTwo
      <4>3. /\ now - n > MaxAge => now' - n > MaxAge
            /\ now' - n <= MaxAge => now - n <= MaxAge
        <5>1. PICK t \in Nat : now = t
          BY <1>2
        <5>2. PICK u \in Nat : now' = u
          BY <3>3
        <5>3. t <= u /\ MaxAge \in Nat
          BY <1>2, <3>3, <5>1, <5>2
        <5>4. (t - n > MaxAge => u - n > MaxAge) /\ (u - n <= MaxAge => t - n <= MaxAge)
          BY <5>3
        <5> QED
          BY <5>1, <5>2, <5>4
      <4>4. ASSUME now' - n <= MaxAge, heard' PROVE lastSeen' \in n .. Latest({n, stored'})
        <5>1. now - n <= MaxAge /\ heard
          BY <2>1, <4>3, <4>4
        <5>2. lastSeen \in n .. Latest({n, stored}) /\ lastSeen' = lastSeen
          BY <2>1, <4>1, <5>1
        <5> QED
          BY <3>4, <3>5, <4>2, <5>2
      <4> QED
        BY <2>1, <4>1, <4>3, <4>4
    <3>7. Known'
      BY <2>2, <3>2, <3>6 DEF Known
    <3> QED
      BY <2>2, <2>4, <3>7
  <2> QED
    BY <2>3, <2>4
<1> QED
  BY <1>4, <1>5, <1>6, <1>7, <1>8, <1>9 DEF AgeNext, Pass

AgeInv == IInv /\ AgeTypes /\ Clocked /\ Fresh /\ Remembered

\* Follower, clock and memory, always.
LEMMA AgeInvHolds == AgeSpec => []AgeInv
<1>1. AgeInit => Clocked /\ Fresh /\ Remembered
  <2> SUFFICES ASSUME AgeInit PROVE Clocked /\ Fresh /\ Remembered
    OBVIOUS
  <2>1. /\ when = <<>> /\ kind = <<>> /\ memory = -2 /\ offset = -1
    BY DEF AgeInit, Init, LogInit, Unseeded
  <2>2. Processed = {} /\ DOMAIN when = {}
    BY <2>1 DEF Processed
  <2> QED
    BY <2>1, <2>2 DEF Clocked, Fresh, Remembered, Guessed
<1>2. /\ IInv /\ AgeTypes /\ IInv' /\ AgeTypes'
      /\ Clocked /\ Fresh /\ Remembered /\ [AgeNext]_allVars
      => (Clocked /\ Fresh /\ Remembered)'
  <2>1. CASE AgeNext
    BY <2>1, ClockedStep, FreshStep, RememberedStep
  <2>2. CASE UNCHANGED allVars
    BY <2>2 DEF allVars, vars, logVars, watchVars, ageVars, shownVars, Clocked, Fresh,
                Remembered, Guessed, Known, Newest, Processed, Truncated
  <2> QED
    BY <2>1, <2>2
<1> QED
  BY <1>1, <1>2, AgeInvariance, PTL DEF AgeSpec, AgeInv

\* For any log, any store, any number of units in a day and any MAX_MEMORY_AGE of
\* a day or more: what is shown as last_frame_age is true, see AgesTrue.
THEOREM AgesAlwaysTrue == AgeSpec => []AgesTrue
<1>1. ASSUME AgeInv PROVE AgesTrue
  <2> SUFFICES ASSUME zone = 0, ~Truncated
               PROVE  IF Processed = {}
                 THEN memory >= 0 =>
                        /\ memory <= now
                        /\ \E l \in DOMAIN when :
                             memory >= when[l] /\ memory % Day = when[l] % Day
                 ELSE now - Newest <= MaxAge /\ heard =>
                        Newest <= lastSeen /\ lastSeen <= Latest({Newest, stored})
    BY DEF AgesTrue
  <2>1. memory <= now
    BY <1>1 DEF AgeInv, AgeTypes
  <2>2. CASE Processed = {}
    BY <1>1, <2>1, <2>2 DEF AgeInv, Remembered, Guessed
  <2>3. CASE Processed # {}
    <3>1. Known /\ Newest \in 0 .. now /\ now \in Nat /\ stored \in -1 .. now
      BY <1>1, <2>3, NewestFacts DEF AgeInv, Remembered, AgeTypes
    <3>2. Latest({Newest, stored}) \in Int
      BY <3>1, LatestOfTwo
    <3> QED
      BY <2>3, <3>1, <3>2 DEF Known
  <2> QED
    BY <2>2, <2>3
<1> QED
  BY <1>1, AgeInvHolds, PTL

-----------------------------------------------------------------------------
(* The washer bridge. *)

USE BridgeAssumption DEF NoLine

\* A set of numbers has a least element.
LEMMA Least ==
  ASSUME NEW D, D \subseteq Nat, D # {}
  PROVE  \E d \in D : \A e \in D : d <= e
<1> DEFINE Less == OpToRel(<, Nat)
<1>1. \A x, y \in Nat : <<y, x>> \in Less <=> y < x
  BY DEF OpToRel
<1>2. IsWellFoundedOn(Less, Nat)
  BY NatLessThanWellFounded
<1> HIDE DEF Less
<1>3. PICK d \in D : \A e \in D : ~(<<e, d>> \in Less)
  BY <1>2, WFMin
<1>4. ASSUME NEW e \in D PROVE d <= e
  <2>1. ~(e < d)
    BY <1>1, <1>3
  <2> QED
    BY <2>1, SMT
<1> QED
  BY <1>4

\* A bounded one has a greatest, by subtraction from the bound.
LEMMA Greatest ==
  ASSUME NEW L, NEW n \in Nat, L # {}, \A l \in L : l \in Nat /\ l <= n
  PROVE  \E l \in L : \A m \in L : m <= l
<1> DEFINE D == {n - l : l \in L}
<1>1. D \in SUBSET Nat /\ D # {}
  OBVIOUS
<1>2. PICK d \in D : \A e \in D : d <= e
  BY <1>1, Least
<1>3. PICK l \in L : d = n - l
  OBVIOUS
<1>4. ASSUME NEW m \in L PROVE m <= l
  <2>1. d <= n - m
    BY <1>2, <1>4
  <2> QED
    BY <1>3, <2>1
<1> QED
  BY <1>4

\* What the replay picks: nothing, or the greatest line that carries one of K.
LEMMA LastCarryingFacts ==
  ASSUME NEW K, NEW s \in Seq(1 .. MaxLines)
  PROVE  /\ \/ LastCarrying(s, K) = NoLine
            \/ /\ Carries(LastCarrying(s, K), K) /\ Complete(LastCarrying(s, K))
               /\ \E i \in 1 .. Len(s) : LastCarrying(s, K) = s[i]
         /\ \A i \in 1 .. Len(s) :
              Carries(s[i], K) /\ Complete(s[i]) => s[i] <= LastCarrying(s, K)
<1> DEFINE L == {l \in Decoded(s) : Carries(l, K)}
<1>0. DOMAIN s = 1 .. Len(s) /\ \A i \in 1 .. Len(s) : s[i] \in 1 .. MaxLines
  OBVIOUS
<1>1. LastCarrying(s, K) = IF L = {} THEN NoLine ELSE CHOOSE l \in L : \A m \in L : m <= l
  BY DEF LastCarrying
<1>2. \A l \in L : /\ l \in Nat /\ l <= MaxLines /\ Carries(l, K) /\ Complete(l)
                   /\ \E i \in 1 .. Len(s) : l = s[i]
  BY <1>0 DEF Decoded, Lines
<1>3. \A i \in 1 .. Len(s) : Carries(s[i], K) /\ Complete(s[i]) => s[i] \in L
  BY <1>0 DEF Decoded, Lines
<1> HIDE DEF L
<1>4. CASE L = {}
  <2>1. LastCarrying(s, K) = NoLine
    BY <1>1, <1>4
  <2>2. \A i \in 1 .. Len(s) : ~(Carries(s[i], K) /\ Complete(s[i]))
    BY <1>3, <1>4
  <2> QED
    BY <2>1, <2>2
<1>5. CASE L # {}
  <2>1. \E l \in L : \A m \in L : m <= l
    BY <1>2, <1>5, Greatest
  <2>2. LastCarrying(s, K) \in L /\ \A m \in L : m <= LastCarrying(s, K)
    BY <1>1, <1>5, <2>1
  <2> QED
    BY <1>2, <1>3, <2>2
<1> QED
  BY <1>4, <1>5

SnapOrBlank == {"snap", "blank"}

\* What is shown and what is kept for the heartbeat are snapshots that were written.
Written == /\ last # NoLine => Carries(last, SnapOrBlank) /\ Complete(last)
           /\ shown # NoLine => Carries(shown, SnapOrBlank) /\ Complete(shown)

\* On a log that is not truncated, what the bridge keeps once it has replayed, if
\* anything, is at least as new as what is shown, and neither is ahead of the
\* position it follows from.
Current ==
  ~Truncated =>
    /\ bpc # "start" /\ last # NoLine => shown <= last
    /\ bpc = "follow" => pos <= Len(file) /\ shown <= pos /\ last <= pos

BridgeInv == BridgeTypeOK /\ LogInv /\ Written /\ Current

\* Nothing is shown before anything is written.
LEMMA BridgeInitHolds == BridgeInit => BridgeInv
<1> SUFFICES ASSUME BridgeInit PROVE BridgeInv
  OBVIOUS
<1>1. LogInv
  BY InitLog DEF BridgeInit
<1>2. BridgeTypeOK
  BY <1>1 DEF BridgeInit, LogInit, BridgeTypeOK, LogInv
<1> QED
  BY <1>1, <1>2 DEF BridgeInit, BridgeInv, Written, Current

\* What a line carries does not change as the log grows.
LEMMA LogKeeps ==
  ASSUME BridgeInv, LogNext, UNCHANGED bridgeVars
  PROVE  BridgeInv'
<1>0. BridgeTypeOK /\ LogInv /\ Written /\ Current /\ LogTypeOK
  BY DEF BridgeInv, BridgeTypeOK
<1>1. LogInv' /\ LogTypeOK'
  BY <1>0, LogStep DEF LogInv
<1>2. /\ Len(kind) \in Nat /\ Len(file) \in Nat /\ Len(file') \in Nat
      /\ UNCHANGED <<bpc, pos, last, shown, restarts>>
  BY <1>0, <1>1 DEF LogTypeOK, bridgeVars
<1>3. /\ Len(kind') \in Nat /\ Len(kind) <= Len(kind')
      /\ \A l \in 1 .. Len(kind) : kind'[l] = kind[l]
      /\ \A l \in 1 .. Len(kind) : Complete(l) => Complete(l)'
      /\ Truncated => Truncated'
      /\ ~Truncated' => Len(file) <= Len(file')
  BY <1>0, StaysTruncated
<1>4. BridgeTypeOK'
  BY <1>0, <1>1, <1>2, <1>3 DEF BridgeTypeOK
<1>5. ASSUME NEW l \in 0 .. MaxLines, l <= Len(kind), l # NoLine,
             Carries(l, SnapOrBlank), Complete(l)
      PROVE  Carries(l, SnapOrBlank)' /\ Complete(l)'
  <2>1. l \in 1 .. Len(kind)
    BY <1>2, <1>5
  <2> QED
    BY <1>3, <1>5, <2>1 DEF Carries
<1>6. Written'
  <2>1. last \in 0 .. MaxLines /\ last <= Len(kind) /\ shown \in 0 .. MaxLines
        /\ shown <= Len(kind)
    BY <1>0 DEF BridgeTypeOK
  <2>2. last # NoLine => Carries(last, SnapOrBlank)' /\ Complete(last)'
    BY <1>0, <1>2, <1>5, <2>1 DEF Written, Carries, Complete
  <2>3. shown # NoLine => Carries(shown, SnapOrBlank)' /\ Complete(shown)'
    BY <1>0, <1>2, <1>5, <2>1 DEF Written, Carries, Complete
  <2> QED
    BY <1>2, <2>2, <2>3 DEF Written
<1>7. Current'
  <2> SUFFICES ASSUME ~Truncated' PROVE Current'
    BY DEF Current
  <2>1. pos \in Nat
    BY <1>0 DEF BridgeTypeOK
  <2> QED
    BY <1>0, <1>2, <1>3, <2>1 DEF Current
<1> QED
  BY <1>1, <1>4, <1>6, <1>7 DEF BridgeInv

\* A replay finds what is shown in the tail, or only newer snapshots, or none.
LEMMA ReplayFacts ==
  ASSUME BridgeInv, Replay
  PROVE  /\ last' \in 0 .. MaxLines /\ last' <= Len(kind)
         /\ last' # NoLine => Carries(last', SnapOrBlank) /\ Complete(last')
         /\ ~Truncated /\ last' # NoLine => shown <= last'
<1> DEFINE tail == LastLines(file, Window)
<1>0. /\ file \in Seq(1 .. MaxLines) /\ Len(file) \in Nat /\ Len(kind) \in Nat
      /\ shown \in 0 .. MaxLines /\ shown <= Len(kind)
      /\ shown # NoLine => Carries(shown, SnapOrBlank) /\ Complete(shown)
      /\ \A i \in 1 .. Len(file) : file[i] <= Len(kind)
  BY DEF BridgeInv, LogInv, LogTypeOK, Written, BridgeTypeOK, Ordered, Wrote
<1>1. tail \in Seq(1 .. MaxLines)
  BY <1>0, LastLinesFacts
<1>2. PICK k \in Nat : /\ k + Len(tail) = Len(file)
                       /\ \A i \in 1 .. Len(tail) : tail[i] = file[i + k]
  BY <1>0, LastLinesFacts
<1>3. last' = LastCarrying(tail, SnapOrBlank)
  BY DEF Replay, SnapOrBlank
<1> HIDE DEF tail
<1>4. /\ \/ last' = NoLine
         \/ /\ Carries(last', SnapOrBlank) /\ Complete(last')
            /\ \E i \in 1 .. Len(tail) : last' = tail[i]
      /\ \A i \in 1 .. Len(tail) :
           Carries(tail[i], SnapOrBlank) /\ Complete(tail[i]) => tail[i] <= last'
  BY <1>1, <1>3, LastCarryingFacts
<1>5. Len(tail) \in Nat /\ \A i \in 1 .. Len(tail) : i + k \in 1 .. Len(file)
  BY <1>0, <1>1, <1>2
<1>6. last' = NoLine \/ \E i \in 1 .. Len(tail) : last' = file[i + k]
  BY <1>2, <1>4
<1>7. last' \in 0 .. MaxLines /\ last' <= Len(kind)
  BY <1>0, <1>5, <1>6
<1>8. ASSUME ~Truncated, last' # NoLine PROVE shown <= last'
  <2>1. Len(file) = Len(kind) /\ \A i \in 1 .. Len(file) : file[i] = i
    BY <1>0, <1>8 DEF BridgeInv, LogInv, Whole
  <2>2. PICK i \in 1 .. Len(tail) : last' = i + k
    BY <1>5, <1>6, <1>8, <2>1
  <2>3. CASE shown <= k
    BY <1>0, <1>2, <1>5, <2>2, <2>3
  <2>4. CASE shown > k
    <3>1. shown - k \in 1 .. Len(tail) /\ shown # NoLine
      BY <1>0, <1>2, <1>5, <2>1, <2>4
    <3>2. tail[shown - k] = shown
      <4>1. tail[shown - k] = file[(shown - k) + k] /\ (shown - k) + k = shown
        BY <1>0, <1>2, <3>1
      <4> QED
        BY <1>0, <2>1, <3>1, <4>1
    <3> QED
      BY <1>0, <1>4, <3>1, <3>2
  <2> QED
    BY <1>0, <1>2, <2>3, <2>4
<1> QED
  BY <1>4, <1>7, <1>8

\* What the bridge shows, and that it keeps the invariant in its own steps.
LEMMA BridgeStep ==
  ASSUME BridgeInv, Bridge \/ Restart, UNCHANGED logVars
  PROVE  BridgeInv' /\ (shown' >= shown \/ Truncated)
<1>0. /\ BridgeTypeOK /\ LogInv /\ Written /\ Current
      /\ LogInv' /\ LogTypeOK'
      /\ Len(file) \in Nat /\ Len(kind) \in Nat
  BY DEF BridgeInv, BridgeTypeOK, LogInv, LogTypeOK, Sizes, Ordered, Wrote, InOrder,
         Whole, Truncated, logVars
<1>1. /\ file' = file /\ kind' = kind /\ half' = half /\ (Truncated' <=> Truncated)
      /\ pos \in 0 .. MaxLines /\ last \in 0 .. MaxLines /\ shown \in 0 .. MaxLines
      /\ last <= Len(kind) /\ shown <= Len(kind)
      /\ Len(file) <= Len(kind) /\ Len(kind) <= MaxLines
      /\ ~Truncated => Len(file) = Len(kind)
  BY <1>0 DEF logVars, Truncated, BridgeTypeOK, LogInv, Sizes, Whole
<1>2. CASE Replay
  <2>1. /\ last' \in 0 .. MaxLines /\ last' <= Len(kind)
        /\ last' # NoLine => Carries(last', SnapOrBlank) /\ Complete(last')
        /\ ~Truncated /\ last' # NoLine => shown <= last'
    BY <1>2, ReplayFacts
  <2>2. /\ bpc' = "open" /\ UNCHANGED <<pos, restarts>>
        /\ shown' = shown \/ (last' # NoLine /\ shown' = last')
    BY <1>2 DEF Replay, Show, Carries
  <2>3. /\ shown' \in 0 .. MaxLines /\ shown' <= Len(kind)
        /\ shown' >= shown \/ Truncated
        /\ last' # NoLine /\ ~Truncated => shown' <= last'
    BY <1>1, <2>1, <2>2
  <2>4. BridgeTypeOK'
    BY <1>0, <1>1, <2>1, <2>2, <2>3 DEF BridgeTypeOK
  <2>5. Written'
    BY <1>0, <1>1, <2>1, <2>2 DEF Written, Carries, Complete
  <2>6. Current'
    BY <1>1, <2>1, <2>2, <2>3 DEF Current
  <2> QED
    BY <1>0, <2>3, <2>4, <2>5, <2>6 DEF BridgeInv
<1>3. CASE Open
  <2>1. UNCHANGED <<last, shown, restarts>> /\ bpc = "open" /\ bpc' = "follow"
        /\ pos' = Len(file)
    BY <1>3 DEF Open
  <2>2. BridgeTypeOK'
    BY <1>0, <1>1, <2>1 DEF BridgeTypeOK
  <2>3. Written'
    BY <1>0, <1>1, <2>1 DEF Written, Carries, Complete
  <2>4. Current' /\ shown' >= shown
    BY <1>0, <1>1, <2>1 DEF Current
  <2> QED
    BY <1>0, <2>2, <2>3, <2>4 DEF BridgeInv
<1>4. CASE ReadLine
  <2>1. /\ bpc = "follow" /\ pos < Len(file) /\ pos' = pos + 1
        /\ UNCHANGED <<bpc, restarts>>
        /\ \/ /\ Carries(file[pos'], {"snap"}) /\ Complete(file[pos'])
              /\ last' = file[pos'] /\ (shown' = shown \/ shown' = file[pos'])
           \/ UNCHANGED <<last, shown>>
    BY <1>4 DEF ReadLine, Show
  <2>2. pos' \in 1 .. Len(file)
    BY <1>0, <1>1, <2>1
  <2>3. file[pos'] \in 1 .. MaxLines /\ file[pos'] <= Len(kind)
    BY <1>0, <2>2 DEF LogInv, LogTypeOK, Ordered, Wrote
  <2>4. ~Truncated => file[pos'] = pos'
    BY <1>0, <2>2 DEF LogInv, Whole
  <2>5. BridgeTypeOK'
    BY <1>0, <1>1, <2>1, <2>2, <2>3 DEF BridgeTypeOK
  <2>6. Written'
    BY <1>0, <1>1, <2>1 DEF Written, Carries, Complete, SnapOrBlank
  <2>7. Current' /\ (shown' >= shown \/ Truncated)
    BY <1>0, <1>1, <2>1, <2>2, <2>3, <2>4 DEF Current
  <2> QED
    BY <1>0, <2>5, <2>6, <2>7 DEF BridgeInv
<1>5. CASE Quiet
  <2>1. /\ bpc = "follow" /\ UNCHANGED <<bpc, last, restarts>>
        /\ shown' = shown \/ (last # NoLine /\ shown' = last)
        /\ pos' = IF Len(file) < pos THEN 0 ELSE pos
    BY <1>5 DEF Quiet, Show
  <2>2. BridgeTypeOK'
    BY <1>0, <1>1, <2>1 DEF BridgeTypeOK
  <2>3. Written'
    BY <1>0, <1>1, <2>1 DEF Written, Carries, Complete
  <2>4. Current' /\ (shown' >= shown \/ Truncated)
    BY <1>0, <1>1, <2>1 DEF Current
  <2> QED
    BY <1>0, <2>2, <2>3, <2>4 DEF BridgeInv
<1>6. CASE Restart
  <2>1. BridgeTypeOK'
    BY <1>0, <1>1, <1>6 DEF Restart, BridgeTypeOK
  <2>2. Written'
    BY <1>0, <1>1, <1>6 DEF Restart, Written, Carries, Complete
  <2>3. Current' /\ shown' >= shown
    BY <1>1, <1>6 DEF Restart, Current
  <2> QED
    BY <1>0, <2>1, <2>2, <2>3 DEF BridgeInv
<1> QED
  BY <1>2, <1>3, <1>4, <1>5, <1>6 DEF Bridge

\* Every step keeps the invariant and shows nothing older on a log that is whole.
LEMMA BridgeStepHolds ==
  ASSUME BridgeInv, [BridgeNext]_processVars
  PROVE  BridgeInv' /\ (shown' >= shown \/ Truncated)
<1>0. shown \in Nat
  BY DEF BridgeInv, BridgeTypeOK
<1>1. CASE LogNext /\ UNCHANGED bridgeVars
  BY <1>0, <1>1, LogKeeps DEF bridgeVars
<1>2. CASE (Bridge \/ Restart) /\ UNCHANGED logVars
  BY <1>2, BridgeStep
<1>3. CASE UNCHANGED processVars
  <2>1. UNCHANGED logVars /\ UNCHANGED <<bpc, pos, last, shown, restarts>>
    BY <1>3 DEF processVars, bridgeVars
  <2>2. LogInv' /\ BridgeTypeOK'
    BY <2>1, LogSame DEF BridgeInv, BridgeTypeOK, LogInv, logVars
  <2>3. Written' /\ Current'
    BY <2>1 DEF BridgeInv, Written, Current, Carries, Complete, Truncated, logVars
  <2> QED
    BY <1>0, <2>1, <2>2, <2>3 DEF BridgeInv
<1> QED
  BY <1>1, <1>2, <1>3 DEF BridgeNext

\* BridgeInv holds throughout.
LEMMA BridgeInvariance == BridgeSpec => []BridgeInv
<1>1. BridgeInv /\ [BridgeNext]_processVars => BridgeInv'
  BY BridgeStepHolds
<1> QED
  BY BridgeInitHolds, <1>1, PTL DEF BridgeSpec

\* The variables have their types, and nothing is kept or shown that was not
\* written, in every log of wm_local_bridge.py.
THEOREM BridgeTypesCorrect == BridgeSpec => []BridgeTypeOK
BY BridgeInvariance, PTL DEF BridgeInv

\* With any window, heartbeat and number of restarts, Home Assistant is never
\* taken back to an older snapshot unless the cap has truncated the log.
THEOREM AlwaysAdvances == BridgeSpec => ShownAdvances
<1>1. BridgeInv /\ [BridgeNext]_processVars => [shown' >= shown \/ Truncated]_shown
  BY BridgeStepHolds
<1> QED
  BY BridgeInvariance, <1>1, PTL DEF BridgeSpec, ShownAdvances
=============================================================================
