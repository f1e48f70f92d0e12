--------------------------- MODULE FramingProofs ---------------------------
(* Proofs about Framing: what the decoder of the TLS family makes of any stream *)
(* of bytes, and that it delivers every message to the handler, however the     *)
(* stream is cut and whatever garbage there is between the messages.           *)
EXTENDS Framing, TLAPS, WellFoundedInduction

LEMMA Limits == MaxFrame \in Nat /\ MaxSize \in Nat /\ MaxSize <= MaxFrame
<1>1. MaxFrame \in Nat /\ MaxSize <= MaxFrame
  BY FramingAssumption
<1> QED
  BY <1>1 DEF MaxSize

-----------------------------------------------------------------------------
(* Sequences, and an induction from the end. *)

\* What holds at a position when it holds at the later ones holds everywhere.
LEMMA Downward ==
  ASSUME NEW n \in Nat, NEW P,
         \A p \in 1 .. n + 1 : (\A q \in p + 1 .. n + 1 : q \in P) => p \in P
  PROVE  1 .. n + 1 \subseteq P
<1> SUFFICES ASSUME ~ (1 .. n + 1 \subseteq P) PROVE FALSE
  OBVIOUS
<1> DEFINE T == {n + 1 - p : p \in (1 .. n + 1) \ P}
<1>1. T \subseteq Nat /\ T # {}
  <2>1. \A p \in 1 .. n + 1 : n + 1 - p \in Nat
    OBVIOUS
  <2>2. PICK p \in (1 .. n + 1) \ P : TRUE
    OBVIOUS
  <2> QED
    BY <2>1, <2>2
<1>2. PICK t \in T : \A u \in T : ~ (<<u, t>> \in OpToRel(<, Nat))
  BY <1>1, NatLessThanWellFounded, WFMin
<1>3. \A u \in T : ~ (u < t)
  BY <1>1, <1>2 DEF OpToRel
<1>4. PICK p \in (1 .. n + 1) \ P : t = n + 1 - p
  BY <1>2
<1>5. ASSUME NEW q \in p + 1 .. n + 1 PROVE q \in P
  <2>1. q \in 1 .. n + 1 /\ n + 1 - q < n + 1 - p
    OBVIOUS
  <2> QED
    BY <1>3, <1>4, <2>1
<1> QED
  BY <1>4, <1>5

LEMMA Upward ==
  ASSUME NEW n \in Nat, NEW P,
         \A p \in 1 .. n : (\A q \in 1 .. p - 1 : q \in P) => p \in P
  PROVE  1 .. n \subseteq P
<1> SUFFICES ASSUME ~ (1 .. n \subseteq P) PROVE FALSE
  OBVIOUS
<1> DEFINE T == (1 .. n) \ P
<1>1. T \subseteq Nat /\ T # {}
  OBVIOUS
<1>2. PICK t \in T : \A u \in T : ~ (<<u, t>> \in OpToRel(<, Nat))
  BY <1>1, NatLessThanWellFounded, WFMin
<1>3. \A u \in T : ~ (u < t)
  BY <1>1, <1>2 DEF OpToRel
<1>4. ASSUME NEW q \in 1 .. t - 1 PROVE q \in P
  <2>1. q \in 1 .. n /\ q < t
    OBVIOUS
  <2> QED
    BY <1>3, <2>1
<1> QED
  BY <1>4

\* Two sequences put together, and a part of one.
LEMMA Joined ==
  ASSUME NEW S, NEW s \in Seq(S), NEW t \in Seq(S)
  PROVE  /\ s \o t \in Seq(S) /\ Len(s \o t) = Len(s) + Len(t)
         /\ \A i \in 1 .. Len(s) : (s \o t)[i] = s[i]
         /\ \A i \in 1 .. Len(t) : (s \o t)[Len(s) + i] = t[i]
  OBVIOUS

LEMMA Grouped ==
  ASSUME NEW S, NEW s \in Seq(S), NEW t \in Seq(S), NEW u \in Seq(S)
  PROVE  (s \o t) \o u = s \o (t \o u)
  OBVIOUS

LEMMA PartOf ==
  ASSUME NEW S, NEW s \in Seq(S), NEW i \in 1 .. Len(s) + 1, NEW j \in 0 .. Len(s),
         i <= j + 1
  PROVE  /\ SubSeq(s, i, j) \in Seq(S) /\ Len(SubSeq(s, i, j)) = j - i + 1
         /\ \A k \in 1 .. j - i + 1 : SubSeq(s, i, j)[k] = s[k + i - 1]
  OBVIOUS

LEMMA SameSeq ==
  ASSUME NEW S, NEW s \in Seq(S), NEW t \in Seq(S), Len(s) = Len(t),
         \A i \in 1 .. Len(s) : s[i] = t[i]
  PROVE  s = t
  OBVIOUS

LEMMA SameParts ==
  ASSUME NEW S, NEW s \in Seq(S), NEW i \in 1 .. Len(s) + 1, NEW j \in 0 .. Len(s),
         NEW t \in Seq(S), NEW k \in 1 .. Len(t) + 1, NEW l \in 0 .. Len(t),
         i <= j + 1, l - k = j - i, \A m \in i .. j : s[m] = t[m + (k - i)]
  PROVE  SubSeq(s, i, j) = SubSeq(t, k, l)
<1>1. SubSeq(s, i, j) \in Seq(S) /\ Len(SubSeq(s, i, j)) = j - i + 1
      /\ \A m \in 1 .. j - i + 1 : SubSeq(s, i, j)[m] = s[m + i - 1]
  BY PartOf
<1>2. SubSeq(t, k, l) \in Seq(S) /\ Len(SubSeq(t, k, l)) = j - i + 1
      /\ \A m \in 1 .. j - i + 1 : SubSeq(t, k, l)[m] = t[m + k - 1]
  <2>1. k <= l + 1 /\ l - k + 1 = j - i + 1
    OBVIOUS
  <2> QED
    BY <2>1, PartOf
<1>3. ASSUME NEW m \in 1 .. j - i + 1 PROVE s[m + i - 1] = t[m + k - 1]
  <2>1. m + i - 1 \in i .. j /\ m + i - 1 + (k - i) = m + k - 1
    OBVIOUS
  <2> QED
    BY <2>1
<1> QED
  BY <1>1, <1>2, <1>3, SameSeq

-----------------------------------------------------------------------------
(* The loop of decode_messages_len4: what it does at position p of b. *)

Result == [msgs : Seq(Seq(Nat)), rest : Seq(Nat)]

\* It stops; it goes on behind p; and it has found a message at p.
CutOff(b, p) == \/ p + 3 > Len(b)
                \/ Declared(b, p) <= MaxFrame /\ p + 3 + Declared(b, p) > Len(b)
Beyond(b, p) == IF Declared(b, p) > MaxFrame THEN p + 1 ELSE p + 4 + Declared(b, p)
Found(b, p)  == IF Declared(b, p) <= MaxFrame /\ IsMessage(Body(b, p))
                  THEN <<Body(b, p)>> ELSE <<>>

Scan(b, f, p) ==
  IF CutOff(b, p)
    THEN [msgs |-> <<>>, rest |-> SubSeq(b, p, Len(b))]
    ELSE [msgs |-> Found(b, p) \o f[Beyond(b, p)].msgs,
          rest |-> f[Beyond(b, p)].rest]

Decoding(b, f) == /\ f \in [1 .. Len(b) + 1 -> Result]
                  /\ \A p \in 1 .. Len(b) + 1 : f[p] = Scan(b, f, p)

\* The same as DecodeTls has it.
Step(b, f, p) ==
  LET N == Len(b)
      Stop(r) == [msgs |-> <<>>, rest |-> SubSeq(b, r, N)]
  IN  IF p + 3 > N THEN Stop(p)
      ELSE LET q == p + 4 + Declared(b, p)
           IN  CASE Declared(b, p) > MaxFrame -> f[Resume(b, p)]
                 [] Declared(b, p) <= MaxFrame /\ q - 1 > N -> Stop(p)
                 [] Declared(b, p) <= MaxFrame /\ q - 1 <= N ->
                      Before(Body(b, p), f[q])

LEMMA DecodeIs ==
  ASSUME NEW b,
         \E f : f = [p \in 1 .. Len(b) + 1 |-> Step(b, f, p)]
  PROVE  \E f : /\ f = [p \in 1 .. Len(b) + 1 |-> Step(b, f, p)]
                /\ DecodeTls(b) = f[1]
<1> DEFINE g == CHOOSE f : f = [p \in 1 .. Len(b) + 1 |-> Step(b, f, p)]
<1>1. g = [p \in 1 .. Len(b) + 1 |-> Step(b, g, p)]
  OBVIOUS
<1>2. DecodeTls(b) = g[1]
  BY DEF DecodeTls, Step
<1> QED
  BY <1>1, <1>2

\* A frame lies within the buffer, or is cut off.
LEMMA ScanFacts ==
  ASSUME NEW b \in Seq(Nat), NEW p \in 1 .. Len(b) + 1
  PROVE  /\ p + 3 <= Len(b) => Declared(b, p) \in Nat
         /\ CutOff(b, Len(b) + 1)
         /\ ~CutOff(b, p) => /\ Beyond(b, p) \in p + 1 .. Len(b) + 1
                             /\ Found(b, p) \in Seq(Seq(Nat))
         /\ SubSeq(b, p, Len(b)) \in Seq(Nat)
<1>1. Len(b) \in Nat /\ MaxFrame \in Nat
  BY Limits
<1>2. ASSUME p + 3 <= Len(b) PROVE Declared(b, p) \in Nat
  <2>1. PICK x \in Nat : x = b[p+1]
    BY <1>1, <1>2
  <2>2. PICK y \in Nat : y = b[p+2]
    BY <1>1, <1>2
  <2>3. PICK z \in Nat : z = b[p+3]
    BY <1>1, <1>2
  <2>4. x * 65536 + y * 256 + z \in Nat /\ MaxFrame + 1 \in Nat
    BY <1>1
  <2>5. Declared(b, p) = IF b[p] > 0 THEN MaxFrame + 1 ELSE x * 65536 + y * 256 + z
    BY <2>1, <2>2, <2>3 DEF Declared
  <2> QED
    BY <2>4, <2>5
<1>3. ASSUME ~CutOff(b, p)
      PROVE  Beyond(b, p) \in p + 1 .. Len(b) + 1 /\ Found(b, p) \in Seq(Seq(Nat))
  <2>1. PICK d \in Nat : d = Declared(b, p)
    BY <1>2, <1>3 DEF CutOff
  <2>2. p + 3 <= Len(b) /\ (d <= MaxFrame => p + 3 + d <= Len(b))
    BY <1>1, <1>3, <2>1 DEF CutOff
  <2>3. Beyond(b, p) \in p + 1 .. Len(b) + 1
    BY <1>1, <2>1, <2>2 DEF Beyond
  <2>4. d <= MaxFrame => SubSeq(b, p + 4, p + 3 + d) \in Seq(Nat)
    BY <1>1, <2>2
  <2>5. Found(b, p) \in Seq(Seq(Nat))
    BY <2>1, <2>4 DEF Found, Body
  <2> QED
    BY <2>3, <2>5
<1> QED
  BY <1>1, <1>2, <1>3, PartOf DEF CutOff

LEMMA StepFrame ==
  ASSUME NEW b \in Seq(Nat), NEW p \in 1 .. Len(b) + 1, NEW f, p + 3 <= Len(b),
         Declared(b, p) <= MaxFrame, p + 4 + Declared(b, p) - 1 <= Len(b)
  PROVE  Step(b, f, p) = Before(Body(b, p), f[p + 4 + Declared(b, p)])
<1>1. Len(b) \in Nat /\ MaxFrame \in Nat
  BY Limits
<1>2. PICK d \in Nat : d = Declared(b, p)
  BY ScanFacts
<1>3. d <= MaxFrame /\ p + 4 + d - 1 <= Len(b)
  BY <1>2
<1>4. Step(b, f, p) = Before(Body(b, p), f[p + 4 + d])
  BY <1>1, <1>2, <1>3, SMTT(30) DEF Step
<1> QED
  BY <1>2, <1>4

\* What happens at p depends on what happens behind p.
LEMMA ScanLooksAhead ==
  ASSUME NEW b \in Seq(Nat), NEW p \in 1 .. Len(b) + 1, NEW f, NEW g,
         \A q \in p + 1 .. Len(b) + 1 : f[q] = g[q]
  PROVE  Scan(b, f, p) = Scan(b, g, p) /\ Step(b, f, p) = Step(b, g, p)
<1>1. Scan(b, f, p) = Scan(b, g, p)
  <2>1. CASE CutOff(b, p)
    BY <2>1 DEF Scan
  <2>2. CASE ~CutOff(b, p)
    <3>1. f[Beyond(b, p)] = g[Beyond(b, p)]
      BY <2>2, ScanFacts
    <3> QED
      BY <2>2, <3>1 DEF Scan
  <2> QED
    BY <2>1, <2>2
<1>2. Step(b, f, p) = Step(b, g, p)
  <2>1. Len(b) \in Nat /\ MaxFrame \in Nat
    BY Limits
  <2>2. CASE p + 3 > Len(b)
    BY <2>2 DEF Step
  <2>3. CASE p + 3 <= Len(b)
    <3>1. PICK d \in Nat : d = Declared(b, p)
      BY <2>3, ScanFacts
    <3>2. CASE d > MaxFrame
      <4>1. f[p + 1] = g[p + 1]
        BY <2>1, <2>3
      <4> QED
        BY <2>1, <2>3, <3>1, <3>2, <4>1 DEF Step, Resume
    <3>3. CASE d <= MaxFrame /\ p + 4 + d - 1 > Len(b)
      BY <2>1, <2>3, <3>1, <3>3, SMTT(30) DEF Step
    <3>4. CASE d <= MaxFrame /\ p + 4 + d - 1 <= Len(b)
      <4>1. f[p + 4 + d] = g[p + 4 + d]
        <5>1. PICK N \in Nat : N = Len(b)
          BY <2>1
        <5>2. p + 4 + d \in p + 1 .. N + 1
          BY ONLY <3>4, <5>1, d \in Nat, p \in 1 .. Len(b) + 1
        <5> QED
          BY ONLY <5>1, <5>2, \A q \in p + 1 .. Len(b) + 1 : f[q] = g[q], Zenon
      <4> QED
        BY <2>1, <2>3, <3>1, <3>4, <4>1, StepFrame
    <3> QED
      BY <2>1, <3>2, <3>3, <3>4
  <2> QED
    BY <2>1, <2>2, <2>3
<1> QED
  BY <1>1, <1>2

LEMMA ScanTyped ==
  ASSUME NEW b \in Seq(Nat), NEW p \in 1 .. Len(b) + 1, NEW f,
         \A q \in p + 1 .. Len(b) + 1 : f[q] \in Result
  PROVE  Scan(b, f, p) \in Result
<1>1. CASE CutOff(b, p)
  <2>1. SubSeq(b, p, Len(b)) \in Seq(Nat) /\ <<>> \in Seq(Seq(Nat))
    BY ScanFacts
  <2> QED
    BY <1>1, <2>1 DEF Scan, Result
<1>2. CASE ~CutOff(b, p)
  <2>1. PICK r \in Result : r = f[Beyond(b, p)]
    BY <1>2, ScanFacts
  <2>2. Found(b, p) \in Seq(Seq(Nat)) /\ r.msgs \in Seq(Seq(Nat)) /\ r.rest \in Seq(Nat)
    BY <1>2, ScanFacts DEF Result
  <2>3. Found(b, p) \o r.msgs \in Seq(Seq(Nat))
    BY <2>2
  <2> QED
    BY <1>2, <2>1, <2>2, <2>3 DEF Scan, Result
<1> QED
  BY <1>1, <1>2

LEMMA StepIsScan ==
  ASSUME NEW b \in Seq(Nat), NEW p \in 1 .. Len(b) + 1, NEW f,
         \A q \in p + 1 .. Len(b) + 1 : f[q] \in Result
  PROVE  Step(b, f, p) = Scan(b, f, p)
<1>1. Len(b) \in Nat /\ MaxFrame \in Nat
  BY Limits
<1>2. CASE p + 3 > Len(b)
  BY <1>2 DEF Step, Scan, CutOff
<1>3. CASE p + 3 <= Len(b)
  <2>1. PICK d \in Nat : d = Declared(b, p)
    BY <1>3, ScanFacts
  <2>2. CASE d > MaxFrame
    <3>1. ~CutOff(b, p) /\ Beyond(b, p) = p + 1 /\ Found(b, p) = <<>>
      BY <1>1, <1>3, <2>1, <2>2 DEF CutOff, Beyond, Found
    <3>2. PICK r \in Result : r = f[p + 1]
      BY <1>1, <1>3
    <3>3. Scan(b, f, p) = [msgs |-> <<>> \o r.msgs, rest |-> r.rest]
      BY <3>1, <3>2 DEF Scan
    <3>4. <<>> \o r.msgs = r.msgs
      BY DEF Result
    <3>5. r = [msgs |-> r.msgs, rest |-> r.rest]
      BY DEF Result
    <3>6. Step(b, f, p) = f[p + 1]
      BY <1>1, <1>3, <2>1, <2>2 DEF Step, Resume
    <3> QED
      BY <3>2, <3>3, <3>4, <3>5, <3>6
  <2>3. CASE d <= MaxFrame /\ p + 4 + d - 1 > Len(b)
    <3>1. CutOff(b, p)
      BY <1>1, <1>3, <2>1, <2>3 DEF CutOff
    <3> QED
      BY <1>1, <1>3, <2>1, <2>3, <3>1, SMTT(30) DEF Step, Scan
  <2>4. CASE d <= MaxFrame /\ p + 4 + d - 1 <= Len(b)
    <3>1. ~CutOff(b, p) /\ Beyond(b, p) = p + 4 + d
      BY <1>1, <1>3, <2>1, <2>4 DEF CutOff, Beyond
    <3>2. PICK ms \in Seq(Seq(Nat)), rs \in Seq(Nat) :
            f[p + 4 + d] = [msgs |-> ms, rest |-> rs]
      <4>1. f[p + 4 + d] \in Result
        BY <1>1, <1>3, <2>4
      <4> QED
        BY <4>1 DEF Result
    <3>3. PICK m : m = Body(b, p)
      OBVIOUS
    <3>4. PICK x : x = IF IsMessage(m) THEN <<m>> \o ms ELSE ms
      OBVIOUS
    <3>5. Step(b, f, p) = [msgs |-> x, rest |-> rs]
      <4>1. PICK r : r = [msgs |-> ms, rest |-> rs]
        OBVIOUS
      <4>2. Step(b, f, p) = Before(m, r)
        BY <1>1, <1>3, <2>1, <2>4, <3>2, <3>3, <4>1, StepFrame
      <4>3. PICK z : z = [r EXCEPT !.msgs = <<m>> \o @]
        OBVIOUS
      <4>4. z = [msgs |-> <<m>> \o ms, rest |-> rs]
        BY ONLY <4>1, <4>3
      <4>5. Before(m, r) = IF IsMessage(m) THEN z ELSE r
        BY <4>3, Zenon DEF Before
      <4> QED
        BY <3>4, <4>1, <4>2, <4>4, <4>5
    <3>6. Found(b, p) = IF IsMessage(m) THEN <<m>> ELSE <<>>
      BY <2>1, <2>4, <3>3 DEF Found
    <3>7. Found(b, p) \o ms = x
      <4>1. <<>> \o ms = ms
        OBVIOUS
      <4> QED
        BY <3>4, <3>6, <4>1
    <3>8. Scan(b, f, p) = [msgs |-> Found(b, p) \o ms, rest |-> rs]
      BY <3>1, <3>2 DEF Scan
    <3> QED
      BY <3>5, <3>7, <3>8
  <2> QED
    BY <1>1, <2>2, <2>3, <2>4
<1> QED
  BY <1>1, <1>2, <1>3

\* The loop comes to an end on every stream.
LEMMA Decodable ==
  ASSUME NEW b \in Seq(Nat)
  PROVE  \E f : Decoding(b, f)
<1> DEFINE N == Len(b)
           Part(k, g) == /\ g \in [k .. N + 1 -> Result]
                         /\ \A p \in k .. N + 1 : g[p] = Scan(b, g, p)
           P == {k \in 1 .. N + 1 : \E g : Part(k, g)}
<1>1. N \in Nat
  OBVIOUS
<1>2. ASSUME NEW p \in 1 .. N + 1, \A q \in p + 1 .. N + 1 : q \in P
      PROVE  p \in P
  <2>1. PICK g : \A q \in p + 1 .. N + 1 : g[q] \in Result /\ g[q] = Scan(b, g, q)
    <3>1. CASE p = N + 1
      <4>1. p + 1 .. N + 1 = {}
        BY <1>1, <3>1
      <4> QED
        BY <4>1
    <3>2. CASE p # N + 1
      <4>1. p + 1 \in p + 1 .. N + 1
        BY <1>1, <3>2
      <4>2. p + 1 \in P
        BY ONLY <1>2, <4>1, Zenon
      <4> QED
        BY <4>2
    <3> QED
      BY <3>1, <3>2
  <2> DEFINE h == [q \in p .. N + 1 |-> IF q = p THEN Scan(b, g, p) ELSE g[q]]
  <2>2. \A q \in p + 1 .. N + 1 : h[q] = g[q] /\ h[q] \in Result
    BY <1>1, <2>1
  <2>3. h[p] = Scan(b, g, p)
    BY <1>1
  <2>4. Scan(b, g, p) \in Result
    BY <1>1, <2>1, ScanTyped
  <2>5. h \in [p .. N + 1 -> Result]
    BY <1>1, <2>1, <2>4
  <2>6. ASSUME NEW q \in p .. N + 1 PROVE h[q] = Scan(b, h, q)
    <3>1. q \in 1 .. N + 1 /\ \A r \in q + 1 .. N + 1 : h[r] = g[r]
      BY <1>1, <2>2
    <3>2. Scan(b, h, q) = Scan(b, g, q)
      BY <3>1, ScanLooksAhead
    <3> QED
      BY <1>1, <2>1, <2>2, <2>3, <3>2
  <2> QED
    BY <2>5, <2>6
<1>3. 1 \in P
  <2>1. 1 .. N + 1 \subseteq P
    <3> HIDE DEF P
    <3> QED
      BY <1>1, <1>2, Downward
  <2> QED
    BY <1>1, <2>1
<1> QED
  BY <1>3 DEF Decoding

\* What DecodeTls returns is what the loop returns from the first byte on.
LEMMA Decoded ==
  ASSUME NEW b \in Seq(Nat)
  PROVE  \E f : Decoding(b, f) /\ DecodeTls(b) = f[1]
<1>1. Len(b) \in Nat
  OBVIOUS
<1>2. PICK f : Decoding(b, f)
  BY Decodable
<1>3. \A p \in 1 .. Len(b) + 1 : f[p] = Step(b, f, p)
  BY <1>1, <1>2, StepIsScan DEF Decoding
<1>4. f = [p \in 1 .. Len(b) + 1 |-> Step(b, f, p)]
  BY <1>2, <1>3 DEF Decoding
<1>5. PICK g : g = [p \in 1 .. Len(b) + 1 |-> Step(b, g, p)] /\ DecodeTls(b) = g[1]
  BY <1>4, DecodeIs
<1> DEFINE P == {p \in 1 .. Len(b) + 1 : g[p] = f[p]}
<1>6. ASSUME NEW p \in 1 .. Len(b) + 1, \A q \in p + 1 .. Len(b) + 1 : q \in P
      PROVE  p \in P
  <2>1. \A q \in p + 1 .. Len(b) + 1 : g[q] = f[q]
    BY <1>6
  <2>2. Step(b, g, p) = Step(b, f, p)
    BY <2>1, ScanLooksAhead
  <2>3. g[p] = Step(b, g, p)
    BY <1>5
  <2> QED
    BY <1>3, <2>2, <2>3
<1>7. 1 \in P
  <2>1. 1 .. Len(b) + 1 \subseteq P
    <3> HIDE DEF P
    <3> QED
      BY <1>1, <1>6, Downward
  <2> QED
    BY <1>1, <2>1
<1> QED
  BY <1>2, <1>5, <1>7

\* There is one way to decode a stream.
LEMMA DecodedBy ==
  ASSUME NEW b \in Seq(Nat), NEW f, Decoding(b, f)
  PROVE  DecodeTls(b) = f[1] /\ DecodeTls(b) \in Result
<1>1. Len(b) \in Nat
  OBVIOUS
<1>2. PICK g : Decoding(b, g) /\ DecodeTls(b) = g[1]
  BY Decoded
<1> DEFINE P == {p \in 1 .. Len(b) + 1 : g[p] = f[p]}
<1>3. ASSUME NEW p \in 1 .. Len(b) + 1, \A q \in p + 1 .. Len(b) + 1 : q \in P
      PROVE  p \in P
  <2>1. \A q \in p + 1 .. Len(b) + 1 : g[q] = f[q]
    BY <1>3
  <2>2. Scan(b, g, p) = Scan(b, f, p)
    BY <2>1, ScanLooksAhead
  <2> QED
    BY <1>2, <2>2 DEF Decoding
<1>4. 1 \in P
  <2>1. 1 .. Len(b) + 1 \subseteq P
    <3> HIDE DEF P
    <3> QED
      BY <1>1, <1>3, Downward
  <2> QED
    BY <1>1, <2>1
<1>5. f[1] \in Result
  BY <1>1 DEF Decoding
<1> QED
  BY <1>2, <1>4, <1>5

\* Where a holds the bytes that b holds i further on, the loop does the same in both
\* as long as a is not cut off.
Within(a, b, i) == /\ i \in Nat /\ i + Len(a) <= Len(b)
                   /\ \A p \in 1 .. Len(a) : a[p] = b[p + i]

LEMMA SameFrame ==
  ASSUME NEW a \in Seq(Nat), NEW b \in Seq(Nat), NEW i, Within(a, b, i),
         NEW p \in 1 .. Len(a) + 1
  PROVE  /\ p + i \in 1 .. Len(b) + 1
         /\ p + 3 <= Len(a) => Declared(a, p) = Declared(b, p + i)
         /\ ~CutOff(a, p) => /\ ~CutOff(b, p + i)
                             /\ Beyond(b, p + i) = Beyond(a, p) + i
                             /\ Found(b, p + i) = Found(a, p)
<1>1. Len(a) \in Nat /\ Len(b) \in Nat /\ i \in Nat /\ MaxFrame \in Nat
      /\ i + Len(a) <= Len(b)
  BY Limits DEF Within
<1>2. p + i \in 1 .. Len(b) + 1
  BY <1>1
<1>3. ASSUME p + 3 <= Len(a) PROVE Declared(a, p) = Declared(b, p + i)
  <2>1. /\ a[p] = b[p + i] /\ a[p+1] = b[p + i + 1] /\ a[p+2] = b[p + i + 2]
        /\ a[p+3] = b[p + i + 3]
    <3>1. \A k \in 0 .. 3 : p + k \in 1 .. Len(a) /\ p + k + i = p + i + k
      BY <1>1, <1>3
    <3>2. \A k \in 0 .. 3 : a[p + k] = b[p + i + k]
      BY <3>1 DEF Within
    <3>3. a[p + 0] = b[p + i + 0] /\ a[p+1] = b[p + i + 1] /\ a[p+2] = b[p + i + 2]
          /\ a[p+3] = b[p + i + 3]
      BY <3>2
    <3> QED
      BY <1>1, <3>3
  <2> QED
    BY ONLY <2>1 DEF Declared
<1>4. ASSUME ~CutOff(a, p)
      PROVE  /\ ~CutOff(b, p + i) /\ Beyond(b, p + i) = Beyond(a, p) + i
             /\ Found(b, p + i) = Found(a, p)
  <2>1. p + 3 <= Len(a)
    BY <1>1, <1>4 DEF CutOff
  <2>2. PICK d \in Nat : d = Declared(a, p)
    BY <2>1, ScanFacts
  <2>3. d = Declared(b, p + i)
    BY <1>3, <2>1, <2>2
  <2>4. d <= MaxFrame => p + 3 + d <= Len(a)
    BY <1>1, <1>4, <2>2 DEF CutOff
  <2>5. ~CutOff(b, p + i)
    <3>1. ~ (p + i + 3 > Len(b)) /\ ~ (d <= MaxFrame /\ p + i + 3 + d > Len(b))
      BY <1>1, <2>1, <2>4
    <3> QED
      BY <2>3, <3>1, Zenon DEF CutOff
  <2>6. Beyond(b, p + i) = Beyond(a, p) + i
    BY <1>1, <2>2, <2>3 DEF Beyond
  <2>7. CASE d > MaxFrame
    <3>1. ~ (d <= MaxFrame)
      BY <1>1, <2>7
    <3> QED
      BY <2>2, <2>3, <2>5, <2>6, <3>1 DEF Found
  <2>8. CASE d <= MaxFrame
    <3>1. Body(a, p) = Body(b, p + i)
      <4>1. PICK u \in 1 .. Len(a) + 1, v \in 0 .. Len(a) : u = p + 4 /\ v = p + 3 + d
        BY <1>1, <2>1, <2>4, <2>8
      <4>2. PICK x \in 1 .. Len(b) + 1, y \in 0 .. Len(b) :
              x = p + i + 4 /\ y = p + i + 3 + d
        <5>1. p + i + 4 \in 1 .. Len(b) + 1
          BY <1>1, <2>1, <2>4, <2>8
        <5>2. p + i + 3 + d \in 0 .. Len(b)
          BY <1>1, <2>1, <2>4, <2>8
        <5> QED
          BY <5>1, <5>2, Zenon
      <4>3. u <= v + 1 /\ y - x = v - u /\ x - u = i
        BY <1>1, <4>1, <4>2
      <4>4. ASSUME NEW m \in u .. v PROVE a[m] = b[m + (x - u)]
        <5>1. m \in 1 .. Len(a)
          BY <1>1
        <5> QED
          BY <4>3, <5>1 DEF Within
      <4>5. SubSeq(a, u, v) = SubSeq(b, x, y)
        BY <4>3, <4>4, SameParts
      <4> QED
        BY <2>2, <2>3, <4>1, <4>2, <4>5 DEF Body
    <3> QED
      BY <2>2, <2>3, <2>5, <2>6, <3>1 DEF Found
  <2> QED
    BY <1>1, <2>7, <2>8
<1> QED
  BY <1>2, <1>3, <1>4

LEMMA SameTails ==
  ASSUME NEW a \in Seq(Nat), NEW b \in Seq(Nat), NEW p \in 1 .. Len(a) + 1,
         NEW u \in 1 .. Len(b) + 1, Len(b) - u = Len(a) - p,
         \A m \in p .. Len(a) : a[m] = b[m + (u - p)]
  PROVE  SubSeq(a, p, Len(a)) = SubSeq(b, u, Len(b))
<1>1. PICK i, j : i = Len(a) /\ j = Len(b)
  OBVIOUS
<1>2. Len(a) \in 0 .. Len(a) /\ Len(b) \in 0 .. Len(b) /\ p <= Len(a) + 1
  OBVIOUS
<1>3. SubSeq(a, p, i) = SubSeq(b, u, j)
  <2>1. /\ i \in 0 .. Len(a) /\ j \in 0 .. Len(b) /\ p <= i + 1 /\ j - u = i - p
        /\ \A m \in p .. i : a[m] = b[m + (u - p)]
    BY ONLY <1>1, <1>2, Len(b) - u = Len(a) - p,
            \A m \in p .. Len(a) : a[m] = b[m + (u - p)], Zenon
  <2> QED
    BY ONLY <2>1, SameParts, a \in Seq(Nat), b \in Seq(Nat), p \in 1 .. Len(a) + 1,
            u \in 1 .. Len(b) + 1, SMTT(30)
<1> QED
  BY ONLY <1>1, <1>3, Zenon

\* What is decoded from p on is what the stream from p on decodes to.
LEMMA Shifted ==
  ASSUME NEW b \in Seq(Nat), NEW f, Decoding(b, f), NEW k \in 1 .. Len(b) + 1
  PROVE  DecodeTls(SubSeq(b, k, Len(b))) = f[k]
<1>1. PICK i \in Nat : i = k - 1
  OBVIOUS
<1>2. PICK a : a = SubSeq(b, k, Len(b))
  OBVIOUS
<1>3. /\ Len(b) \in Nat /\ a \in Seq(Nat) /\ Len(a) = Len(b) - i
      /\ \A p \in 1 .. Len(a) : a[p] = b[p + i]
  <2>1. Len(b) \in 0 .. Len(b) /\ k <= Len(b) + 1
    OBVIOUS
  <2>2. /\ a \in Seq(Nat) /\ Len(a) = Len(b) - k + 1
        /\ \A p \in 1 .. Len(b) - k + 1 : a[p] = b[p + k - 1]
    BY <1>2, <2>1, PartOf
  <2> QED
    BY <1>1, <2>2
<1>4. Within(a, b, i)
  BY <1>3 DEF Within
<1> DEFINE g == [p \in 1 .. Len(a) + 1 |-> f[p + i]]
<1>5. g \in [1 .. Len(a) + 1 -> Result]
  <2>1. \A p \in 1 .. Len(a) + 1 : p + i \in 1 .. Len(b) + 1
    BY <1>3
  <2> QED
    BY <2>1 DEF Decoding
<1>6. ASSUME NEW p \in 1 .. Len(a) + 1 PROVE g[p] = Scan(a, g, p)
  <2>1. p + i \in 1 .. Len(b) + 1 /\ g[p] = f[p + i]
    BY <1>3
  <2>2. f[p + i] = Scan(b, f, p + i)
    BY <2>1 DEF Decoding
  <2>3. CASE CutOff(a, p)
    <3>1. CutOff(b, p + i)
      <4>1. CASE p + 3 > Len(a)
        BY <1>3, <4>1 DEF CutOff
      <4>2. CASE p + 3 <= Len(a)
        <5>1. PICK d \in Nat : d = Declared(a, p)
          BY <4>2, <1>3, ScanFacts
        <5>2. d = Declared(b, p + i)
          <6>1. Declared(a, p) = Declared(b, p + i)
            <7>1. a \in Seq(Nat)
              BY <1>3
            <7> QED
              BY ONLY <1>4, <4>2, <7>1, SameFrame, b \in Seq(Nat), p \in 1 .. Len(a) + 1,
                      ZenonT(60)
          <6> QED
            BY <5>1, <6>1
        <5>3. d <= MaxFrame /\ p + 3 + d > Len(a)
          BY <1>3, <2>3, <4>2, <5>1 DEF CutOff
        <5>4. p + i + 3 + d > Len(b)
          BY <1>3, <5>3
        <5> QED
          BY <5>2, <5>3, <5>4 DEF CutOff
      <4> QED
        BY <1>3, <4>1, <4>2
    <3>2. SubSeq(b, p + i, Len(b)) = SubSeq(a, p, Len(a))
      <4>1. PICK u \in 1 .. Len(b) + 1 : u = p + i
        BY <2>1
      <4>2. /\ Len(a) \in 0 .. Len(a) /\ p <= Len(a) + 1 /\ Len(b) \in 0 .. Len(b)
            /\ Len(b) - u = Len(a) - p /\ u - p = i
        BY <1>1, <1>3, <4>1
      <4>3. \A m \in p .. Len(a) : a[m] = b[m + (u - p)]
        <5>1. \A m \in p .. Len(a) : m \in 1 .. Len(a)
          BY ONLY p \in 1 .. Len(a) + 1, <1>3
        <5>2. u - p = i
          BY ONLY <4>2, Zenon
        <5>3. \A m \in 1 .. Len(a) : a[m] = b[m + i]
          BY <1>3
        <5> QED
          BY ONLY <5>1, <5>2, <5>3, Zenon
      <4>4. SubSeq(a, p, Len(a)) = SubSeq(b, u, Len(b))
        <5>1. a \in Seq(Nat)
          BY <1>3
        <5>2. Len(b) - u = Len(a) - p
          BY ONLY <4>2, Zenon
        <5> QED
          BY ONLY <4>3, <5>1, <5>2, SameTails, b \in Seq(Nat), p \in 1 .. Len(a) + 1,
                  u \in 1 .. Len(b) + 1, Zenon
      <4> QED
        BY <4>1, <4>4
    <3> QED
      BY <2>1, <2>2, <2>3, <3>1, <3>2 DEF Scan
  <2>4. CASE ~CutOff(a, p)
    <3>1. ~CutOff(b, p + i) /\ Beyond(b, p + i) = Beyond(a, p) + i
          /\ Found(b, p + i) = Found(a, p)
      <4>1. a \in Seq(Nat)
        BY <1>3
      <4> QED
        BY ONLY <1>4, <2>4, <4>1, SameFrame, b \in Seq(Nat), p \in 1 .. Len(a) + 1,
                ZenonT(60)
    <3>2. g[Beyond(a, p)] = f[Beyond(a, p) + i]
      <4>1. Beyond(a, p) \in p + 1 .. Len(a) + 1
        BY <1>3, <2>4, ScanFacts
      <4>2. Beyond(a, p) \in 1 .. Len(a) + 1
        BY <1>3, <4>1
      <4> QED
        BY <4>2
    <3> QED
      BY <2>1, <2>2, <2>4, <3>1, <3>2 DEF Scan
  <2> QED
    BY <2>3, <2>4
<1>7. DecodeTls(a) = g[1]
  <2>1. Decoding(a, g)
    BY <1>5, <1>6 DEF Decoding
  <2> HIDE DEF g
  <2> QED
    BY <1>3, <2>1, DecodedBy
<1>8. g[1] = f[k]
  <2>1. 1 \in 1 .. Len(a) + 1 /\ 1 + i = k
    BY <1>1, <1>3
  <2> QED
    BY <2>1
<1> QED
  BY <1>2, <1>7, <1>8

-----------------------------------------------------------------------------
(* What decode_messages_len4 promises, of every stream of bytes. *)

LEMMA DecodeTyped ==
  ASSUME NEW b \in Seq(Nat)
  PROVE  DecodeTls(b) \in Result /\ DecodeTls(b).msgs \in Seq(Seq(Nat))
         /\ DecodeTls(b).rest \in Seq(Nat)
<1>1. DecodeTls(b) \in Result
  BY Decoded, DecodedBy
<1> QED
  BY <1>1 DEF Result

LEMMA TailJoined ==
  ASSUME NEW a \in Seq(Nat), NEW c \in Seq(Nat), NEW p \in 1 .. Len(a) + 1
  PROVE  SubSeq(a, p, Len(a)) \o c = SubSeq(a \o c, p, Len(a \o c))
<1> DEFINE b == a \o c
           s == SubSeq(a, p, Len(a))
           t == SubSeq(b, p, Len(b))
           u == s \o c
<1>1. /\ b \in Seq(Nat) /\ Len(b) = Len(a) + Len(c)
      /\ \A i \in 1 .. Len(a) : b[i] = a[i]
      /\ \A i \in 1 .. Len(c) : b[Len(a) + i] = c[i]
  BY Joined
<1> HIDE DEF b
<1>2. /\ s \in Seq(Nat) /\ Len(s) = Len(a) - p + 1
      /\ \A k \in 1 .. Len(a) - p + 1 : s[k] = a[k + p - 1]
  <2>1. Len(a) \in 0 .. Len(a) /\ p <= Len(a) + 1
    OBVIOUS
  <2> QED
    BY <2>1, PartOf
<1>3. /\ t \in Seq(Nat) /\ Len(t) = Len(b) - p + 1
      /\ \A k \in 1 .. Len(b) - p + 1 : t[k] = b[k + p - 1]
  <2>1. Len(b) \in 0 .. Len(b) /\ p <= Len(b) + 1 /\ p \in 1 .. Len(b) + 1
    BY <1>1
  <2> QED
    BY <1>1, <2>1, PartOf
<1> HIDE DEF s, t
<1>4. /\ u \in Seq(Nat) /\ Len(u) = Len(s) + Len(c)
      /\ \A i \in 1 .. Len(s) : u[i] = s[i]
      /\ \A i \in 1 .. Len(c) : u[Len(s) + i] = c[i]
  <2>1. s \in Seq(Nat) /\ c \in Seq(Nat)
    BY <1>2
  <2> QED
    BY ONLY <2>1, Joined
<1> HIDE DEF u
<1>5. Len(u) = Len(t) /\ Len(c) \in Nat /\ Len(a) \in Nat /\ Len(s) \in Nat
  BY <1>1, <1>2, <1>3, <1>4
<1>6. ASSUME NEW i \in 1 .. Len(u) PROVE u[i] = t[i]
  <2>1. CASE i <= Len(s)
    <3>1. i \in 1 .. Len(s) /\ i + p - 1 \in 1 .. Len(a) /\ i \in 1 .. Len(b) - p + 1
      BY <1>1, <1>2, <1>5, <2>1
    <3> QED
      BY <1>1, <1>2, <1>3, <1>4, <3>1
  <2>2. CASE i > Len(s)
    <3>1. PICK j \in 1 .. Len(c) : j = i - Len(s)
      BY <1>4, <1>5, <2>2
    <3>2. i = Len(s) + j /\ i \in 1 .. Len(b) - p + 1 /\ i + p - 1 = Len(a) + j
      BY <1>1, <1>2, <1>3, <1>5, <3>1
    <3>3. u[i] = c[j] /\ t[i] = b[Len(a) + j]
      BY <1>3, <1>4, <3>2
    <3> QED
      BY <1>1, <3>3
  <2> QED
    BY <1>5, <2>1, <2>2
<1>7. u = t
  BY <1>3, <1>4, <1>5, <1>6, SameSeq
<1> QED
  BY <1>7 DEF b, s, t, u

\* Where the stream is cut makes no difference: what is left of the first piece, with
\* the second one behind it, decodes to what the first piece did not.
LEMMA Pieces ==
  ASSUME NEW a \in Seq(Nat), NEW c \in Seq(Nat)
  PROVE  /\ DecodeTls(a \o c).msgs =
              DecodeTls(a).msgs \o DecodeTls(DecodeTls(a).rest \o c).msgs
         /\ DecodeTls(a \o c).rest = DecodeTls(DecodeTls(a).rest \o c).rest
<1>1. PICK b : b = a \o c
  OBVIOUS
<1>0. /\ b \in Seq(Nat) /\ Len(b) = Len(a) + Len(c)
      /\ \A i \in 1 .. Len(a) : b[i] = a[i]
  BY <1>1, Joined
<1>2. Len(a) \in Nat /\ Len(b) \in Nat /\ Len(c) \in Nat
  BY <1>0
<1>3. PICK f : Decoding(a, f) /\ DecodeTls(a) = f[1]
  BY Decoded
<1>4. PICK h : Decoding(b, h) /\ DecodeTls(b) = h[1]
  BY <1>0, Decoded
<1>5. Within(a, b, 0)
  BY <1>0, <1>2 DEF Within
<1> DEFINE D(p) == DecodeTls(f[p].rest \o c)
           P == {p \in 1 .. Len(a) + 1 : /\ h[p].msgs = f[p].msgs \o D(p).msgs
                                         /\ h[p].rest = D(p).rest}
<1>6. ASSUME NEW p \in 1 .. Len(a) + 1, \A q \in p + 1 .. Len(a) + 1 : q \in P
      PROVE  p \in P
  <2>1. f[p] = Scan(a, f, p) /\ f[p] \in Result
    BY <1>3 DEF Decoding
  <2>2. p \in 1 .. Len(b) + 1
    BY <1>0, <1>2
  <2>3. h[p] = Scan(b, h, p) /\ h[p] \in Result
    BY <1>4, <2>2 DEF Decoding
  <2>4. CASE CutOff(a, p)
    <3>1. f[p].msgs = <<>> /\ f[p].rest = SubSeq(a, p, Len(a))
      BY <2>1, <2>4 DEF Scan
    <3>2. f[p].rest \o c = SubSeq(b, p, Len(b))
      BY <1>1, <3>1, TailJoined
    <3>3. D(p) = h[p]
      <4>1. DecodeTls(SubSeq(b, p, Len(b))) = h[p]
        BY <1>0, <1>4, <2>2, Shifted
      <4> QED
        BY <3>2, <4>1
    <3>4. <<>> \o h[p].msgs = h[p].msgs
      BY <2>3 DEF Result
    <3> QED
      BY <3>1, <3>3, <3>4
  <2>5. CASE ~CutOff(a, p)
    <3>1. PICK q : q = Beyond(a, p)
      OBVIOUS
    <3>2. q \in p + 1 .. Len(a) + 1 /\ Found(a, p) \in Seq(Seq(Nat))
      BY <2>5, <3>1, ScanFacts
    <3>3. q \in P
      BY <1>6, <3>2
    <3>4. ~CutOff(b, p) /\ Beyond(b, p) = q /\ Found(b, p) = Found(a, p)
      <4>1. p + 0 = p /\ q + 0 = q
        BY <1>2, <3>2
      <4>2. ~CutOff(b, p + 0) /\ Beyond(b, p + 0) = q + 0
            /\ Found(b, p + 0) = Found(a, p)
        BY <1>0, <1>5, <2>5, <3>1, SameFrame
      <4> QED
        BY <4>1, <4>2
    <3>5. f[p].msgs = Found(a, p) \o f[q].msgs /\ f[p].rest = f[q].rest
      BY <2>1, <2>5, <3>1 DEF Scan
    <3>6. h[p].msgs = Found(a, p) \o h[q].msgs /\ h[p].rest = h[q].rest
      BY <2>3, <3>4 DEF Scan
    <3>7. f[q].msgs \in Seq(Seq(Nat)) /\ f[q].rest \in Seq(Nat)
      <4>1. f[q] \in Result
        <5>1. q \in 1 .. Len(a) + 1
          BY <1>2, <3>2
        <5> QED
          BY <1>3, <5>1 DEF Decoding
      <4> QED
        BY <4>1 DEF Result
    <3>8. D(q).msgs \in Seq(Seq(Nat))
      <4>1. f[q].rest \o c \in Seq(Nat)
        BY <3>7
      <4> QED
        BY <4>1, DecodeTyped
    <3>9. D(p) = D(q)
      BY <3>5
    <3>10. h[p].msgs = Found(a, p) \o (f[q].msgs \o D(q).msgs) /\ h[p].rest = D(q).rest
      BY <3>3, <3>6
    <3>11. Found(a, p) \o (f[q].msgs \o D(q).msgs) =
             (Found(a, p) \o f[q].msgs) \o D(q).msgs
      <4>1. PICK S : S = Seq(Nat)
        OBVIOUS
      <4>2. PICK x \in Seq(S), y \in Seq(S), z \in Seq(S) :
              x = Found(a, p) /\ y = f[q].msgs /\ z = D(q).msgs
        BY <3>2, <3>7, <3>8, <4>1
      <4>3. (x \o y) \o z = x \o (y \o z)
        BY Grouped
      <4> QED
        BY <4>2, <4>3
    <3> QED
      BY <3>5, <3>9, <3>10, <3>11
  <2> QED
    BY <2>4, <2>5
<1>7. 1 \in P
  <2>1. 1 .. Len(a) + 1 \subseteq P
    <3> HIDE DEF P
    <3> QED
      BY <1>2, <1>6, Downward
  <2>2. 1 \in 1 .. Len(a) + 1
    BY <1>2
  <2> HIDE DEF P
  <2> QED
    BY <2>1, <2>2
<1> QED
  BY <1>1, <1>3, <1>4, <1>7

\* What is left is at most one frame and its length, and decodes to nothing: the handler
\* never holds a complete message back.
LEMMA Remainder ==
  ASSUME NEW b \in Seq(Nat)
  PROVE  LET r == DecodeTls(b).rest IN
         Len(r) <= MaxFrame + 3 /\ DecodeTls(r) = [msgs |-> <<>>, rest |-> r]
<1>1. Len(b) \in Nat /\ MaxFrame \in Nat
  BY Limits
<1>2. PICK f : Decoding(b, f) /\ DecodeTls(b) = f[1]
  BY Decoded
<1> DEFINE Fine(r) == Len(r) <= MaxFrame + 3
                      /\ DecodeTls(r) = [msgs |-> <<>>, rest |-> r]
           P == {p \in 1 .. Len(b) + 1 : Fine(f[p].rest)}
<1>3. ASSUME NEW p \in 1 .. Len(b) + 1, \A q \in p + 1 .. Len(b) + 1 : q \in P
      PROVE  p \in P
  <2>1. f[p] = Scan(b, f, p)
    BY <1>2 DEF Decoding
  <2>2. CASE CutOff(b, p)
    <3>1. PICK r : r = SubSeq(b, p, Len(b))
      OBVIOUS
    <3>2. f[p] = [msgs |-> <<>>, rest |-> r]
      BY <2>1, <2>2, <3>1 DEF Scan
    <3>3. DecodeTls(r) = f[p]
      BY <1>2, <3>1, Shifted
    <3>4. Len(r) = Len(b) - p + 1
      <4>1. Len(b) \in 0 .. Len(b) /\ p <= Len(b) + 1
        BY <1>1
      <4> QED
        BY <3>1, <4>1, PartOf
    <3>5. Len(r) <= MaxFrame + 3
      <4>1. CASE p + 3 > Len(b)
        BY <1>1, <3>4, <4>1
      <4>2. CASE p + 3 <= Len(b)
        <5>1. PICK d \in Nat : d = Declared(b, p)
          BY <4>2, ScanFacts
        <5>2. d <= MaxFrame /\ p + 3 + d > Len(b)
          BY <1>1, <2>2, <4>2, <5>1 DEF CutOff
        <5> QED
          BY <1>1, <3>4, <5>2
      <4> QED
        BY <1>1, <4>1, <4>2
    <3> QED
      BY <3>2, <3>3, <3>5
  <2>3. CASE ~CutOff(b, p)
    <3>1. Beyond(b, p) \in P
      BY <1>3, <2>3, ScanFacts
    <3>2. f[p].rest = f[Beyond(b, p)].rest
      BY <2>1, <2>3 DEF Scan
    <3> QED
      BY <3>1, <3>2
  <2> QED
    BY <2>2, <2>3
<1>4. 1 \in P
  <2>1. 1 .. Len(b) + 1 \subseteq P
    <3> HIDE DEF P
    <3> QED
      BY <1>1, <1>3, Downward
  <2>2. 1 \in 1 .. Len(b) + 1
    BY <1>1
  <2> HIDE DEF P
  <2> QED
    BY <2>1, <2>2
<1> QED
  BY <1>2, <1>4

\* Bytes of which none can begin a frame.
Garbage(b) == \A i \in 1 .. Len(b) : b[i] > 0

\* As long as no frame begins, nothing is decoded.
LEMMA NoFrame ==
  ASSUME NEW b \in Seq(Nat), \A i \in 1 .. Len(b) : i + 3 <= Len(b) => b[i] > 0
  PROVE  DecodeTls(b).msgs = <<>> /\ (Garbage(b) => Garbage(DecodeTls(b).rest))
<1>1. Len(b) \in Nat /\ MaxFrame \in Nat
  BY Limits
<1>2. PICK f : Decoding(b, f) /\ DecodeTls(b) = f[1]
  BY Decoded
<1> DEFINE P == {p \in 1 .. Len(b) + 1 :
                   f[p].msgs = <<>> /\ (Garbage(b) => Garbage(f[p].rest))}
<1>3. ASSUME NEW p \in 1 .. Len(b) + 1, \A q \in p + 1 .. Len(b) + 1 : q \in P
      PROVE  p \in P
  <2>1. f[p] = Scan(b, f, p)
    BY <1>2 DEF Decoding
  <2>2. CASE CutOff(b, p)
    <3>1. PICK r : r = SubSeq(b, p, Len(b))
      OBVIOUS
    <3>2. f[p].msgs = <<>> /\ f[p].rest = r
      BY <2>1, <2>2, <3>1 DEF Scan
    <3>3. Len(r) = Len(b) - p + 1 /\ \A k \in 1 .. Len(b) - p + 1 : r[k] = b[k + p - 1]
      <4>1. Len(b) \in 0 .. Len(b) /\ p <= Len(b) + 1
        BY <1>1
      <4> QED
        BY <3>1, <4>1, PartOf
    <3>4. ASSUME Garbage(b), NEW k \in 1 .. Len(r) PROVE r[k] > 0
      <4>1. k \in 1 .. Len(b) - p + 1 /\ k + p - 1 \in 1 .. Len(b)
        BY <1>1, <3>3
      <4> QED
        BY <3>3, <3>4, <4>1 DEF Garbage
    <3> QED
      BY <3>2, <3>4 DEF Garbage
  <2>3. CASE ~CutOff(b, p)
    <3>1. p + 3 <= Len(b) /\ p \in 1 .. Len(b)
      BY <1>1, <2>3 DEF CutOff
    <3>2. b[p] > 0
      BY <3>1
    <3>3. Declared(b, p) = MaxFrame + 1
      BY <3>2 DEF Declared
    <3>4. Found(b, p) = <<>>
      BY <1>1, <3>3 DEF Found
    <3>5. PICK q \in P : q = Beyond(b, p)
      BY <1>3, <2>3, ScanFacts
    <3>6. f[p].rest = f[q].rest /\ f[p].msgs = <<>> \o f[q].msgs
      BY <2>1, <2>3, <3>4, <3>5 DEF Scan
    <3>7. f[q].msgs = <<>> /\ (Garbage(b) => Garbage(f[q].rest))
      BY <3>5
    <3>8. f[p].msgs = <<>>
      BY <3>6, <3>7
    <3> QED
      BY <3>6, <3>7, <3>8
  <2> QED
    BY <2>2, <2>3
<1>4. 1 \in P
  <2>1. 1 .. Len(b) + 1 \subseteq P
    <3> HIDE DEF P
    <3> QED
      BY <1>1, <1>3, Downward
  <2>2. 1 \in 1 .. Len(b) + 1
    BY <1>1
  <2> HIDE DEF P
  <2> QED
    BY <2>1, <2>2
<1> QED
  BY <1>2, <1>4

\* Garbage before a frame is passed over.
LEMMA Skipped ==
  ASSUME NEW g \in Seq(Nat), Garbage(g), NEW c \in Seq(Nat), Len(c) >= 3
  PROVE  DecodeTls(g \o c) = DecodeTls(c)
<1>1. PICK b : b = g \o c
  OBVIOUS
<1>2. /\ b \in Seq(Nat) /\ Len(b) = Len(g) + Len(c)
      /\ \A i \in 1 .. Len(g) : b[i] = g[i]
  BY <1>1, Joined
<1>3. Len(g) \in Nat /\ Len(b) \in Nat /\ Len(c) \in Nat /\ MaxFrame \in Nat
  BY <1>2, Limits
<1>4. PICK f : Decoding(b, f) /\ DecodeTls(b) = f[1]
  BY <1>2, Decoded
<1> DEFINE P == {p \in 1 .. Len(g) + 1 : f[p] = f[Len(g) + 1]}
<1>5. ASSUME NEW p \in 1 .. Len(g) + 1, \A q \in p + 1 .. Len(g) + 1 : q \in P
      PROVE  p \in P
  <2>1. CASE p = Len(g) + 1
    BY <2>1
  <2>2. CASE p # Len(g) + 1
    <3>1. p \in 1 .. Len(g) /\ p + 1 \in p + 1 .. Len(g) + 1 /\ p + 3 <= Len(b)
          /\ p \in 1 .. Len(b) + 1 /\ p + 1 \in 1 .. Len(b) + 1
      <4>1. Len(b) = Len(g) + Len(c)
        BY ONLY <1>2
      <4> QED
        BY ONLY <1>3, <2>2, <4>1, Len(c) >= 3, p \in 1 .. Len(g) + 1
    <3>2. b[p] > 0
      BY <1>2, <3>1 DEF Garbage
    <3>3. Declared(b, p) = MaxFrame + 1
      BY <3>2 DEF Declared
    <3>4. ~CutOff(b, p) /\ Beyond(b, p) = p + 1 /\ Found(b, p) = <<>>
      BY <1>3, <3>1, <3>3 DEF CutOff, Beyond, Found
    <3>5. f[p] = [msgs |-> <<>> \o f[p + 1].msgs, rest |-> f[p + 1].rest]
      <4>1. f[p] = Scan(b, f, p)
        BY <1>4, <3>1 DEF Decoding
      <4> QED
        BY <3>4, <4>1 DEF Scan
    <3>6. f[p + 1] \in Result
      BY <1>4, <3>1 DEF Decoding
    <3>7. f[p] = f[p + 1]
      BY <3>5, <3>6 DEF Result
    <3>8. p + 1 \in P
      BY ONLY <1>5, <3>1, Zenon
    <3> QED
      BY <3>7, <3>8
  <2> QED
    BY <2>1, <2>2
<1>6. 1 \in P
  <2>1. 1 .. Len(g) + 1 \subseteq P
    <3> HIDE DEF P
    <3> QED
      BY <1>3, <1>5, Downward
  <2>2. 1 \in 1 .. Len(g) + 1
    BY <1>3
  <2> HIDE DEF P
  <2> QED
    BY <2>1, <2>2
<1>7. SubSeq(b, Len(g) + 1, Len(b)) = c
  BY <1>1, <1>2, <1>3
<1>8. DecodeTls(c) = f[Len(g) + 1]
  <2>1. PICK k \in 1 .. Len(b) + 1 : k = Len(g) + 1
    <3>1. Len(g) + 1 \in 1 .. Len(b) + 1
      BY <1>2, <1>3
    <3> QED
      BY <3>1, Zenon
  <2>2. DecodeTls(SubSeq(b, k, Len(b))) = f[k]
    BY <1>2, <1>4, Shifted
  <2> QED
    BY <1>7, <2>1, <2>2
<1> QED
  BY <1>1, <1>4, <1>6, <1>8

LengthBytes(n) == <<0, 0, n \div 256, n % 256>>

LEMMA TlsHead ==
  ASSUME NEW s \in Seq(Nat)
  PROVE  /\ EncodeTls(s) = LengthBytes(Len(s)) \o s /\ EncodeTls(s) \in Seq(Nat)
         /\ Len(EncodeTls(s)) = 4 + Len(s)
         /\ EncodeTls(s)[1] = 0
         /\ EncodeTls(s)[2] * 65536 + EncodeTls(s)[3] * 256 + EncodeTls(s)[4] = Len(s)
         /\ \A i \in 1 .. Len(s) : EncodeTls(s)[4 + i] = s[i]
<1>1. PICK n \in Nat : n = Len(s)
  OBVIOUS
<1>2. PICK x \in Nat, y \in Nat : x = n \div 256 /\ y = n % 256 /\ x * 256 + y = n
  OBVIOUS
<1>3. PICK h : h = LengthBytes(n)
  OBVIOUS
<1>4. h \in Seq(Nat) /\ Len(h) = 4 /\ h[1] = 0 /\ h[2] = 0 /\ h[3] = x /\ h[4] = y
  BY <1>2, <1>3 DEF LengthBytes
<1>5. PICK e : e = h \o s
  OBVIOUS
<1>6. /\ e \in Seq(Nat) /\ Len(e) = Len(h) + Len(s)
      /\ \A i \in 1 .. Len(h) : e[i] = h[i]
      /\ \A i \in 1 .. Len(s) : e[Len(h) + i] = s[i]
  <2>1. h \in Seq(Nat) /\ s \in Seq(Nat)
    BY <1>4
  <2>2. /\ h \o s \in Seq(Nat) /\ Len(h \o s) = Len(h) + Len(s)
        /\ \A i \in 1 .. Len(h) : (h \o s)[i] = h[i]
        /\ \A i \in 1 .. Len(s) : (h \o s)[Len(h) + i] = s[i]
    BY ONLY <2>1, Joined
  <2> QED
    BY ONLY <1>5, <2>2
<1>7. e[1] = 0 /\ e[2] = 0 /\ e[3] = x /\ e[4] = y
  <2>1. 1 \in 1 .. 4 /\ 2 \in 1 .. 4 /\ 3 \in 1 .. 4 /\ 4 \in 1 .. 4
    OBVIOUS
  <2> QED
    BY <1>4, <1>6, <2>1
<1>8. EncodeTls(s) = e /\ LengthBytes(Len(s)) = h
  BY <1>1, <1>3, <1>5 DEF EncodeTls, LengthBytes
<1>9. 0 * 65536 + x * 256 + y = n
  BY <1>2
<1> QED
  BY <1>1, <1>4, <1>5, <1>6, <1>7, <1>8, <1>9

\* A frame is decoded first, if it holds a message, and what is behind it afterwards.
LEMMA FrameFirst ==
  ASSUME NEW s \in Seq(Nat), Len(s) <= MaxSize, NEW c \in Seq(Nat)
  PROVE  /\ DecodeTls(EncodeTls(s) \o c).msgs =
              (IF IsMessage(s) THEN <<s>> ELSE <<>>) \o DecodeTls(c).msgs
         /\ DecodeTls(EncodeTls(s) \o c).rest = DecodeTls(c).rest
<1>1. PICK e \in Seq(Nat) :
        /\ e = EncodeTls(s) /\ Len(e) = 4 + Len(s) /\ e[1] = 0
        /\ e[2] * 65536 + e[3] * 256 + e[4] = Len(s)
        /\ \A i \in 1 .. Len(s) : e[4 + i] = s[i]
  BY TlsHead
<1>2. PICK b : b = e \o c
  OBVIOUS
<1>3. /\ b \in Seq(Nat) /\ Len(b) = Len(e) + Len(c)
      /\ \A i \in 1 .. Len(e) : b[i] = e[i]
      /\ \A i \in 1 .. Len(c) : b[Len(e) + i] = c[i]
  BY <1>2, Joined
<1>4. Len(s) \in Nat /\ Len(c) \in Nat /\ Len(e) \in Nat /\ Len(b) \in Nat
      /\ MaxFrame \in Nat /\ Len(s) <= MaxFrame
  BY <1>3, Limits
<1>5. b[1] = 0 /\ b[2] = e[2] /\ b[3] = e[3] /\ b[4] = e[4]
  <2>1. 1 \in 1 .. Len(e) /\ 2 \in 1 .. Len(e) /\ 3 \in 1 .. Len(e) /\ 4 \in 1 .. Len(e)
    BY <1>1, <1>4
  <2> QED
    BY <1>1, <1>3, <2>1
<1>6. Declared(b, 1) = Len(s)
  BY <1>1, <1>5 DEF Declared
<1>7. ~CutOff(b, 1) /\ Beyond(b, 1) = Len(e) + 1
  <2>1. PICK d \in Nat : d = Len(s)
    BY <1>4
  <2>2. ~ (1 + 3 > Len(b)) /\ ~ (d <= MaxFrame /\ 1 + 3 + d > Len(b))
        /\ ~ (d > MaxFrame) /\ 1 + 4 + d = Len(e) + 1
    <3>1. PICK n \in Nat : n = Len(c)
      BY <1>4
    <3>2. Len(e) = 4 + d /\ Len(b) = (4 + d) + n
      BY <1>1, <1>3, <2>1, <3>1
    <3>3. d <= MaxFrame /\ MaxFrame \in Nat
      BY <1>4, <2>1
    <3> QED
      BY ONLY <3>2, <3>3, d \in Nat, n \in Nat
  <2> QED
    BY ONLY <1>6, <2>1, <2>2 DEF CutOff, Beyond
<1>8. Body(b, 1) = s
  <2>1. PICK u \in 1 .. Len(b) + 1, v \in 0 .. Len(b) : u = 1 + 4 /\ v = 1 + 3 + Len(s)
    <3>1. 1 + 4 \in 1 .. Len(b) + 1 /\ 1 + 3 + Len(s) \in 0 .. Len(b)
      <4>1. PICK n \in Nat, l \in Nat : n = Len(s) /\ l = Len(c)
        BY <1>4
      <4>2. Len(b) = (4 + n) + l
        <5>1. Len(e) = 4 + Len(s)
          BY ONLY <1>1
        <5>2. Len(b) = Len(e) + Len(c)
          BY ONLY <1>3, Zenon
        <5> QED
          BY ONLY <4>1, <5>1, <5>2
      <4> QED
        BY ONLY <4>1, <4>2
    <3> QED
      BY <3>1, Zenon
  <2>2. u <= v + 1 /\ v - u + 1 = Len(s)
    BY <1>4, <2>1
  <2>3. /\ SubSeq(b, u, v) \in Seq(Nat) /\ Len(SubSeq(b, u, v)) = Len(s)
        /\ \A k \in 1 .. Len(s) : SubSeq(b, u, v)[k] = b[k + u - 1]
    <3>1. b \in Seq(Nat)
      BY <1>3
    <3>2. /\ SubSeq(b, u, v) \in Seq(Nat) /\ Len(SubSeq(b, u, v)) = v - u + 1
          /\ \A k \in 1 .. v - u + 1 : SubSeq(b, u, v)[k] = b[k + u - 1]
      BY ONLY <2>2, <3>1, PartOf, u \in 1 .. Len(b) + 1, v \in 0 .. Len(b)
    <3> QED
      BY <2>2, <3>2
  <2>4. ASSUME NEW k \in 1 .. Len(s) PROVE SubSeq(b, u, v)[k] = s[k]
    <3>1. k + u - 1 = 4 + k /\ 4 + k \in 1 .. Len(e)
      BY <1>1, <1>4, <2>1
    <3>2. SubSeq(b, u, v)[k] = b[4 + k]
      BY <2>3, <3>1
    <3>3. b[4 + k] = e[4 + k]
      BY <1>3, <3>1
    <3>4. e[4 + k] = s[k]
      BY <1>1
    <3> QED
      BY <3>2, <3>3, <3>4
  <2>5. SubSeq(b, u, v) = s
    BY <2>3, <2>4, SameSeq
  <2> QED
    BY <1>6, <2>1, <2>5 DEF Body
<1>9. Found(b, 1) = IF IsMessage(s) THEN <<s>> ELSE <<>>
  BY <1>4, <1>6, <1>8 DEF Found
<1>10. SubSeq(b, Len(e) + 1, Len(b)) = c
  BY <1>2, <1>3, <1>4
<1>11. PICK f : Decoding(b, f) /\ DecodeTls(b) = f[1]
  BY <1>3, Decoded
<1>12. f[Len(e) + 1] = DecodeTls(c)
  <2>1. PICK k \in 1 .. Len(b) + 1 : k = Len(e) + 1
    <3>1. Len(e) + 1 \in 1 .. Len(b) + 1
      BY <1>3, <1>4
    <3> QED
      BY <3>1, Zenon
  <2>2. DecodeTls(SubSeq(b, k, Len(b))) = f[k]
    BY <1>3, <1>11, Shifted
  <2> QED
    BY <1>10, <2>1, <2>2
<1>13. f[1] = Scan(b, f, 1)
  <2>1. 1 \in 1 .. Len(b) + 1
    BY <1>4
  <2> QED
    BY <1>11, <2>1 DEF Decoding
<1> QED
  <2>1. f[1] = [msgs |-> Found(b, 1) \o f[Len(e) + 1].msgs, rest |-> f[Len(e) + 1].rest]
    BY <1>7, <1>13 DEF Scan
  <2>2. DecodeTls(EncodeTls(s) \o c) = f[1]
    BY <1>1, <1>2, <1>11
  <2>3. f[1].msgs = Found(b, 1) \o DecodeTls(c).msgs /\ f[1].rest = DecodeTls(c).rest
    BY <1>12, <2>1
  <2>4. PICK x : x = Found(b, 1)
    OBVIOUS
  <2>5. x = IF IsMessage(s) THEN <<s>> ELSE <<>>
    BY <1>9, <2>4
  <2> QED
    BY ONLY <2>2, <2>3, <2>4, <2>5

\* The same behind garbage; and as long as the frame is not complete, nothing.
LEMMA Framed ==
  ASSUME NEW g \in Seq(Nat), Garbage(g), NEW s \in Seq(Nat), Len(s) <= MaxSize,
         NEW c \in Seq(Nat)
  PROVE  /\ DecodeTls(g \o (EncodeTls(s) \o c)).msgs =
              (IF IsMessage(s) THEN <<s>> ELSE <<>>) \o DecodeTls(c).msgs
         /\ DecodeTls(g \o (EncodeTls(s) \o c)).rest = DecodeTls(c).rest
<1>1. EncodeTls(s) \in Seq(Nat) /\ Len(EncodeTls(s)) = 4 + Len(s)
  BY TlsHead
<1>2. EncodeTls(s) \o c \in Seq(Nat)
      /\ Len(EncodeTls(s) \o c) = Len(EncodeTls(s)) + Len(c)
  BY <1>1, Joined
<1>3. Len(EncodeTls(s) \o c) >= 3
  BY <1>1, <1>2
<1> QED
  <2>1. EncodeTls(s) \o c \in Seq(Nat)
    BY <1>2
  <2>2. DecodeTls(g \o (EncodeTls(s) \o c)) = DecodeTls(EncodeTls(s) \o c)
    BY ONLY <1>3, <2>1, Skipped, g \in Seq(Nat), Garbage(g), Zenon
  <2>3. /\ DecodeTls(EncodeTls(s) \o c).msgs =
             (IF IsMessage(s) THEN <<s>> ELSE <<>>) \o DecodeTls(c).msgs
        /\ DecodeTls(EncodeTls(s) \o c).rest = DecodeTls(c).rest
    BY ONLY FrameFirst, s \in Seq(Nat), Len(s) <= MaxSize, c \in Seq(Nat), Zenon
  <2> QED
    BY ONLY <2>2, <2>3, Zenon

LEMMA PartOfFrame ==
  ASSUME NEW g \in Seq(Nat), Garbage(g), NEW s \in Seq(Nat), Len(s) <= MaxSize,
         NEW n \in 0 .. 3 + Len(s)
  PROVE  DecodeTls(g \o SubSeq(EncodeTls(s), 1, n)).msgs = <<>>
<1>1. PICK e \in Seq(Nat) :
        /\ e = EncodeTls(s) /\ Len(e) = 4 + Len(s) /\ e[1] = 0
        /\ e[2] * 65536 + e[3] * 256 + e[4] = Len(s)
  BY TlsHead
<1>2. PICK t : t = SubSeq(e, 1, n)
  OBVIOUS
<1>3. t \in Seq(Nat) /\ Len(t) = n /\ \A k \in 1 .. n : t[k] = e[k]
  <2>1. n \in 0 .. Len(e)
    BY <1>1
  <2> QED
    BY ONLY <1>2, <2>1, e \in Seq(Nat)
<1>4. Len(s) \in Nat /\ Len(g) \in Nat /\ MaxFrame \in Nat /\ Len(s) <= MaxFrame
      /\ n \in Nat
  BY Limits
<1>5. CASE n < 3
  <2>1. /\ g \o t \in Seq(Nat) /\ Len(g \o t) = Len(g) + Len(t)
        /\ \A i \in 1 .. Len(g) : (g \o t)[i] = g[i]
    BY <1>3, Joined
  <2>2. ASSUME NEW i \in 1 .. Len(g \o t), i + 3 <= Len(g \o t) PROVE (g \o t)[i] > 0
    <3>1. i \in 1 .. Len(g)
      BY <1>3, <1>4, <1>5, <2>1, <2>2
    <3> QED
      BY <2>1, <3>1 DEF Garbage
  <2>3. DecodeTls(g \o t).msgs = <<>>
    BY <2>1, <2>2, NoFrame
  <2> QED
    BY <1>1, <1>2, <2>3
<1>6. CASE n >= 3
  <2>1. DecodeTls(g \o t) = DecodeTls(t)
    BY <1>3, <1>6, Skipped
  <2>2. PICK f : Decoding(t, f) /\ DecodeTls(t) = f[1]
    BY <1>3, Decoded
  <2>3. CutOff(t, 1)
    <3>1. CASE n = 3
      BY <1>3, <3>1 DEF CutOff
    <3>2. CASE n # 3
      <4>1. 1 \in 1 .. n /\ 2 \in 1 .. n /\ 3 \in 1 .. n /\ 4 \in 1 .. n
        BY <1>4, <1>6, <3>2
      <4>2. t[1] = 0 /\ t[2] = e[2] /\ t[3] = e[3] /\ t[4] = e[4]
        BY <1>1, <1>3, <4>1
      <4>3. Declared(t, 1) = Len(s)
        BY <1>1, <4>2, SMTT(30) DEF Declared
      <4> QED
        BY <1>3, <1>4, <4>3 DEF CutOff
    <3> QED
      BY <3>1, <3>2
  <2>4. f[1] = Scan(t, f, 1)
    <3>1. 1 \in 1 .. Len(t) + 1
      BY <1>3, <1>4
    <3> QED
      BY <2>2, <3>1 DEF Decoding
  <2>5. DecodeTls(t).msgs = <<>>
    BY <2>2, <2>3, <2>4 DEF Scan
  <2> QED
    BY <1>1, <1>2, <2>1, <2>5, SMTT(30)
<1> QED
  BY <1>4, <1>5, <1>6

-----------------------------------------------------------------------------
(* The stream: b is the remainder of the handler, g is what it has decoded, and w is *)
(* what has not arrived yet.                                                        *)

\* What is decoded when n more bytes have arrived.
Ahead(b, g, w, n) == g \o DecodeTls(b \o SubSeq(w, 1, n)).msgs

LEMMA Split ==
  ASSUME NEW w \in Seq(Nat), NEW m \in 0 .. Len(w)
  PROVE  /\ SubSeq(w, 1, m) \in Seq(Nat) /\ Len(SubSeq(w, 1, m)) = m
         /\ SubSeq(w, m + 1, Len(w)) \in Seq(Nat)
         /\ Len(SubSeq(w, m + 1, Len(w))) = Len(w) - m
         /\ w = SubSeq(w, 1, m) \o SubSeq(w, m + 1, Len(w))
         /\ \A n \in 0 .. Len(w) - m :
              SubSeq(w, 1, m + n) = SubSeq(w, 1, m) \o SubSeq(SubSeq(w, m + 1, Len(w)), 1, n)
<1>1. SubSeq(w, 1, m) \in Seq(Nat) /\ Len(SubSeq(w, 1, m)) = m
      /\ \A i \in 1 .. m : SubSeq(w, 1, m)[i] = w[i]
  OBVIOUS
<1>2. PICK v : v = SubSeq(w, m + 1, Len(w))
  OBVIOUS
<1>3. v \in Seq(Nat) /\ Len(v) = Len(w) - m /\ \A i \in 1 .. Len(w) - m : v[i] = w[m + i]
  BY <1>2
<1>4. ASSUME NEW n \in 0 .. Len(w) - m
      PROVE  SubSeq(w, 1, m + n) = SubSeq(w, 1, m) \o SubSeq(v, 1, n)
  <2>1. PICK s : s = SubSeq(w, 1, m)
    OBVIOUS
  <2>2. PICK t : t = SubSeq(v, 1, n)
    OBVIOUS
  <2>3. t \in Seq(Nat) /\ Len(t) = n /\ \A i \in 1 .. n : t[i] = v[i]
    BY <1>3, <2>2
  <2>4. s \in Seq(Nat) /\ Len(s) = m /\ \A i \in 1 .. m : s[i] = w[i]
    BY <1>1, <2>1
  <2>5. PICK u : u = s \o t
    OBVIOUS
  <2>6. /\ u \in Seq(Nat) /\ Len(u) = m + n
        /\ \A i \in 1 .. m : u[i] = s[i]
        /\ \A i \in 1 .. n : u[m + i] = t[i]
    <3>1. s \in Seq(Nat) /\ t \in Seq(Nat)
      BY <2>3, <2>4
    <3>2. /\ s \o t \in Seq(Nat) /\ Len(s \o t) = Len(s) + Len(t)
          /\ \A i \in 1 .. Len(s) : (s \o t)[i] = s[i]
          /\ \A i \in 1 .. Len(t) : (s \o t)[Len(s) + i] = t[i]
      BY ONLY <3>1, Joined
    <3>3. Len(s) = m /\ Len(t) = n
      BY <2>3, <2>4
    <3> QED
      BY ONLY <2>5, <3>2, <3>3
  <2>7. PICK x : x = SubSeq(w, 1, m + n)
    OBVIOUS
  <2>8. x \in Seq(Nat) /\ Len(x) = m + n /\ \A i \in 1 .. m + n : x[i] = w[i]
    BY <2>7
  <2>9. ASSUME NEW i \in 1 .. m + n PROVE x[i] = u[i]
    <3>1. CASE i <= m
      <4>1. i \in 1 .. m
        BY <3>1
      <4> QED
        BY <2>4, <2>6, <2>8, <4>1
    <3>2. CASE i > m
      <4>1. PICK j \in 1 .. n : j = i - m
        BY <3>2
      <4>2. i = m + j /\ j \in 1 .. Len(w) - m
        BY <4>1
      <4>3. x[i] = w[m + j]
        BY <2>8, <4>2
      <4>4. u[i] = t[j]
        BY <2>6, <4>2
      <4> QED
        BY <1>3, <2>3, <4>2, <4>3, <4>4
    <3> QED
      BY <3>1, <3>2
  <2>10. x = u
    BY <2>6, <2>8, <2>9, SameSeq
  <2> QED
    BY <2>1, <2>2, <2>5, <2>7, <2>10
<1>5. w = SubSeq(w, 1, m) \o v
  <2>1. Len(w) - m \in 0 .. Len(w) - m /\ m + (Len(w) - m) = Len(w)
    OBVIOUS
  <2>2. SubSeq(w, 1, Len(w)) = SubSeq(w, 1, m) \o SubSeq(v, 1, Len(w) - m)
    BY <1>4, <2>1
  <2>3. SubSeq(v, 1, Len(w) - m) = v /\ SubSeq(w, 1, Len(w)) = w
    BY <1>3
  <2> QED
    BY <2>2, <2>3
<1> QED
  BY <1>1, <1>2, <1>3, <1>4, <1>5

LEMMA AheadTyped ==
  ASSUME NEW b \in Seq(Nat), NEW g \in Seq(Seq(Nat)), NEW w \in Seq(Nat),
         NEW n \in 0 .. Len(w)
  PROVE  /\ Ahead(b, g, w, n) \in Seq(Seq(Nat)) /\ b \o SubSeq(w, 1, n) \in Seq(Nat)
         /\ DecodeTls(b \o SubSeq(w, 1, n)).msgs \in Seq(Seq(Nat))
<1>1. SubSeq(w, 1, n) \in Seq(Nat)
  BY Split
<1>2. b \o SubSeq(w, 1, n) \in Seq(Nat)
  BY <1>1
<1>3. PICK x \in Seq(Seq(Nat)) : x = DecodeTls(b \o SubSeq(w, 1, n)).msgs
  BY <1>2, DecodeTyped
<1>4. g \o x \in Seq(Seq(Nat))
  OBVIOUS
<1> QED
  BY <1>2, <1>3, <1>4 DEF Ahead

\* More of the stream brings more messages, behind those there were.
Grows(b, g, v, w) ==
  /\ g \o DecodeTls(b \o (v \o w)).msgs =
       (g \o DecodeTls(b \o v).msgs) \o DecodeTls(DecodeTls(b \o v).rest \o w).msgs
  /\ DecodeTls(b \o (v \o w)).rest = DecodeTls(DecodeTls(b \o v).rest \o w).rest

LEMMA AheadGrows ==
  ASSUME NEW b \in Seq(Nat), NEW g \in Seq(Seq(Nat)), NEW v \in Seq(Nat), NEW w \in Seq(Nat)
  PROVE  Grows(b, g, v, w)
<1>1. b \o v \in Seq(Nat) /\ (b \o v) \o w = b \o (v \o w)
  BY Grouped
<1>2. PICK d \in Result : d = DecodeTls(b \o v)
  BY <1>1, DecodeTyped
<1>3. d.rest \o w \in Seq(Nat) /\ d.msgs \in Seq(Seq(Nat))
  BY DEF Result
<1>4. PICK e \in Result : e = DecodeTls(d.rest \o w)
  BY <1>3, DecodeTyped
<1>5. e.msgs \in Seq(Seq(Nat))
  BY DEF Result
<1>6. DecodeTls(b \o (v \o w)).msgs = d.msgs \o e.msgs
      /\ DecodeTls(b \o (v \o w)).rest = e.rest
  <2>1. b \o v \in Seq(Nat)
    BY <1>1
  <2>2. /\ DecodeTls((b \o v) \o w).msgs =
             DecodeTls(b \o v).msgs \o DecodeTls(DecodeTls(b \o v).rest \o w).msgs
        /\ DecodeTls((b \o v) \o w).rest = DecodeTls(DecodeTls(b \o v).rest \o w).rest
    BY ONLY <2>1, Pieces, w \in Seq(Nat), Zenon
  <2> QED
    BY ONLY <1>1, <1>2, <1>4, <2>2, Zenon
<1>7. PICK S : S = Seq(Nat)
  OBVIOUS
<1>8. PICK x \in Seq(S), y \in Seq(S) : x = d.msgs /\ y = e.msgs
  BY <1>3, <1>5, <1>7
<1>9. g \o (x \o y) = (g \o x) \o y
  <2>1. g \in Seq(S)
    BY <1>7
  <2> QED
    BY <2>1, Grouped
<1> QED
  BY <1>2, <1>4, <1>6, <1>8, <1>9 DEF Grows

\* The handler takes m bytes: what will be decoded stays the same.
LEMMA Taken ==
  ASSUME NEW b \in Seq(Nat), NEW g \in Seq(Seq(Nat)), NEW w \in Seq(Nat),
         NEW m \in 0 .. Len(w)
  PROVE  \A d, v :
           d = DecodeTls(b \o SubSeq(w, 1, m)) /\ v = SubSeq(w, m + 1, Len(w)) =>
         /\ v \in Seq(Nat) /\ Len(v) = Len(w) - m
         /\ \A n \in 0 .. Len(v) : Ahead(d.rest, g \o d.msgs, v, n) = Ahead(b, g, w, m + n)
         /\ DecodeTls(d.rest \o v).rest = DecodeTls(b \o w).rest
<1> SUFFICES ASSUME NEW d, NEW v, d = DecodeTls(b \o SubSeq(w, 1, m)),
                    v = SubSeq(w, m + 1, Len(w))
             PROVE  /\ v \in Seq(Nat) /\ Len(v) = Len(w) - m
                    /\ \A n \in 0 .. Len(v) :
                         Ahead(d.rest, g \o d.msgs, v, n) = Ahead(b, g, w, m + n)
                    /\ DecodeTls(d.rest \o v).rest = DecodeTls(b \o w).rest
  BY Zenon
<1>1. PICK u \in Seq(Nat) : u = SubSeq(w, 1, m)
  BY Split
<1>2. v \in Seq(Nat) /\ Len(v) = Len(w) - m /\ w = u \o v
      /\ \A n \in 0 .. Len(w) - m : SubSeq(w, 1, m + n) = u \o SubSeq(v, 1, n)
  <2>1. /\ SubSeq(w, m + 1, Len(w)) \in Seq(Nat)
        /\ Len(SubSeq(w, m + 1, Len(w))) = Len(w) - m
        /\ w = SubSeq(w, 1, m) \o SubSeq(w, m + 1, Len(w))
        /\ \A n \in 0 .. Len(w) - m : SubSeq(w, 1, m + n) =
             SubSeq(w, 1, m) \o SubSeq(SubSeq(w, m + 1, Len(w)), 1, n)
    BY Split, Zenon
  <2> QED
    BY ONLY <1>1, <2>1, v = SubSeq(w, m + 1, Len(w)), Zenon
<1>0. d = DecodeTls(b \o u)
  BY <1>1
<1>3. ASSUME NEW n \in 0 .. Len(v)
      PROVE  Ahead(d.rest, g \o d.msgs, v, n) = Ahead(b, g, w, m + n)
  <2>1. PICK t \in Seq(Nat) : t = SubSeq(v, 1, n)
    BY <1>2, Split
  <2>2. SubSeq(w, 1, m + n) = u \o t
    BY <1>2, <2>1
  <2>3. g \o DecodeTls(b \o (u \o t)).msgs = (g \o d.msgs) \o DecodeTls(d.rest \o t).msgs
    <3>0. Grows(b, g, u, t)
      BY ONLY AheadGrows, b \in Seq(Nat), g \in Seq(Seq(Nat)), u \in Seq(Nat),
              t \in Seq(Nat), Zenon
    <3>1. /\ g \o DecodeTls(b \o (u \o t)).msgs =
               (g \o DecodeTls(b \o u).msgs) \o DecodeTls(DecodeTls(b \o u).rest \o t).msgs
          /\ DecodeTls(b \o (u \o t)).rest = DecodeTls(DecodeTls(b \o u).rest \o t).rest
      BY ONLY <3>0, Zenon DEF Grows
    <3> QED
      BY ONLY <1>0, <3>1, Zenon
  <2> QED
    BY <2>1, <2>2, <2>3 DEF Ahead
<1>4. DecodeTls(b \o (u \o v)).rest = DecodeTls(d.rest \o v).rest
  <2>1. v \in Seq(Nat)
    BY <1>2
  <2> QED
    <3>0. Grows(b, g, u, v)
      BY ONLY <2>1, AheadGrows, b \in Seq(Nat), g \in Seq(Seq(Nat)), u \in Seq(Nat),
              Zenon
    <3>1. /\ g \o DecodeTls(b \o (u \o v)).msgs =
               (g \o DecodeTls(b \o u).msgs) \o DecodeTls(DecodeTls(b \o u).rest \o v).msgs
          /\ DecodeTls(b \o (u \o v)).rest = DecodeTls(DecodeTls(b \o u).rest \o v).rest
      BY ONLY <3>0, Zenon DEF Grows
    <3> QED
      BY ONLY <1>0, <3>1, Zenon
<1> QED
  BY <1>2, <1>3, <1>4

\* More is sent: what was there before is decoded as before.
LEMMA Longer ==
  ASSUME NEW b \in Seq(Nat), NEW g \in Seq(Seq(Nat)), NEW w \in Seq(Nat), NEW c \in Seq(Nat)
  PROVE  \A r : r = DecodeTls(b \o w).rest =>
         /\ w \o c \in Seq(Nat) /\ Len(w \o c) = Len(w) + Len(c)
         /\ \A n \in 0 .. Len(w) : Ahead(b, g, w \o c, n) = Ahead(b, g, w, n)
         /\ \A j \in 0 .. Len(c) : Ahead(b, g, w \o c, Len(w) + j) =
              Ahead(b, g, w, Len(w)) \o DecodeTls(r \o SubSeq(c, 1, j)).msgs
         /\ DecodeTls(b \o (w \o c)).rest = DecodeTls(r \o c).rest
<1> SUFFICES ASSUME NEW r, r = DecodeTls(b \o w).rest
             PROVE  /\ w \o c \in Seq(Nat) /\ Len(w \o c) = Len(w) + Len(c)
                    /\ \A n \in 0 .. Len(w) : Ahead(b, g, w \o c, n) = Ahead(b, g, w, n)
                    /\ \A j \in 0 .. Len(c) : Ahead(b, g, w \o c, Len(w) + j) =
                         Ahead(b, g, w, Len(w)) \o DecodeTls(r \o SubSeq(c, 1, j)).msgs
                    /\ DecodeTls(b \o (w \o c)).rest = DecodeTls(r \o c).rest
  BY Zenon
<1>1. PICK u : u = w \o c
  OBVIOUS
<1>2. /\ u \in Seq(Nat) /\ Len(u) = Len(w) + Len(c)
      /\ \A i \in 1 .. Len(w) : u[i] = w[i]
      /\ \A i \in 1 .. Len(c) : u[Len(w) + i] = c[i]
  BY <1>1, Joined
<1>3. Len(w) \in 0 .. Len(u) /\ Len(u) - Len(w) = Len(c) /\ Len(w) \in Nat
      /\ Len(c) \in Nat
  BY <1>2
<1>4. ASSUME NEW n \in 0 .. Len(w) PROVE SubSeq(u, 1, n) = SubSeq(w, 1, n)
  <2>1. n \in 0 .. Len(u) /\ 1 \in 1 .. Len(u) + 1 /\ 1 \in 1 .. Len(w) + 1
        /\ 1 <= n + 1 /\ n - 1 = n - 1
    BY <1>2, <1>3
  <2>2. \A m \in 1 .. n : u[m] = w[m + (1 - 1)]
    BY <1>2, <1>3
  <2> QED
    BY <1>2, <2>1, <2>2, SameParts
<1>5. ASSUME NEW n \in 0 .. Len(w) PROVE Ahead(b, g, u, n) = Ahead(b, g, w, n)
  BY <1>4 DEF Ahead
<1>6. SubSeq(u, 1, Len(w)) = w /\ SubSeq(u, Len(w) + 1, Len(u)) = c
  <2>1. SubSeq(u, 1, Len(w)) = w
    BY <1>3, <1>4
  <2>2. SubSeq(u, Len(w) + 1, Len(u)) = c
    BY <1>1, <1>2, <1>3
  <2> QED
    BY <2>1, <2>2
<1>7. ASSUME NEW j \in 0 .. Len(c)
      PROVE  Ahead(b, g, u, Len(w) + j) =
               Ahead(b, g, w, Len(w)) \o DecodeTls(r \o SubSeq(c, 1, j)).msgs
  <2>1. PICK t \in Seq(Nat) : t = SubSeq(c, 1, j)
    BY Split
  <2>2. SubSeq(u, 1, Len(w) + j) = w \o t
    <3>1. u \in Seq(Nat) /\ j \in 0 .. Len(u) - Len(w)
      BY <1>2, <1>3
    <3>2. SubSeq(u, 1, Len(w) + j) =
            SubSeq(u, 1, Len(w)) \o SubSeq(SubSeq(u, Len(w) + 1, Len(u)), 1, j)
      BY <1>3, <3>1, Split, Zenon
    <3> QED
      BY ONLY <1>6, <2>1, <3>2
  <2>3. g \o DecodeTls(b \o (w \o t)).msgs =
          (g \o DecodeTls(b \o w).msgs) \o DecodeTls(r \o t).msgs
    <3>0. Grows(b, g, w, t)
      BY ONLY AheadGrows, b \in Seq(Nat), g \in Seq(Seq(Nat)), w \in Seq(Nat),
              t \in Seq(Nat), Zenon
    <3>1. /\ g \o DecodeTls(b \o (w \o t)).msgs =
               (g \o DecodeTls(b \o w).msgs) \o DecodeTls(DecodeTls(b \o w).rest \o t).msgs
          /\ DecodeTls(b \o (w \o t)).rest = DecodeTls(DecodeTls(b \o w).rest \o t).rest
      BY ONLY <3>0, Zenon DEF Grows
    <3> QED
      BY ONLY <3>1, r = DecodeTls(b \o w).rest, Zenon
  <2>4. SubSeq(w, 1, Len(w)) = w
    OBVIOUS
  <2> QED
    BY <2>1, <2>2, <2>3, <2>4 DEF Ahead
<1>8. DecodeTls(b \o (w \o c)).rest = DecodeTls(r \o c).rest
  <2>0. Grows(b, g, w, c)
    BY ONLY AheadGrows, b \in Seq(Nat), g \in Seq(Seq(Nat)), w \in Seq(Nat),
            c \in Seq(Nat), Zenon
  <2>1. /\ g \o DecodeTls(b \o (w \o c)).msgs =
             (g \o DecodeTls(b \o w).msgs) \o DecodeTls(DecodeTls(b \o w).rest \o c).msgs
        /\ DecodeTls(b \o (w \o c)).rest = DecodeTls(DecodeTls(b \o w).rest \o c).rest
    BY ONLY <2>0, Zenon DEF Grows
  <2> QED
    BY ONLY <2>1, r = DecodeTls(b \o w).rest, Zenon
<1> QED
  BY <1>1, <1>2, <1>5, <1>7, <1>8

-----------------------------------------------------------------------------
(* Sequences put one behind the other. *)

FlattenStep(s, f, i) == IF i = 1 THEN s[i] ELSE f[i-1] \o s[i]

Flattening(s, f) == /\ f \in [1 .. Len(s) -> Seq(Nat)]
                    /\ \A i \in 1 .. Len(s) : f[i] = FlattenStep(s, f, i)

LEMMA FlattenIs ==
  ASSUME NEW s, Len(s) # 0,
         \E f : f = [i \in 1 .. Len(s) |-> FlattenStep(s, f, i)]
  PROVE  \E f : /\ f = [i \in 1 .. Len(s) |-> FlattenStep(s, f, i)]
                /\ FlattenSeq(s) = f[Len(s)]
<1> DEFINE g == CHOOSE f : f = [i \in 1 .. Len(s) |-> FlattenStep(s, f, i)]
<1>1. g = [i \in 1 .. Len(s) |-> FlattenStep(s, g, i)]
  OBVIOUS
<1>2. FlattenSeq(s) = g[Len(s)]
  BY DEF FlattenSeq, FlattenStep
<1> QED
  BY <1>1, <1>2

LEMMA Flattenable ==
  ASSUME NEW s \in Seq(Seq(Nat))
  PROVE  \E f : Flattening(s, f)
<1> DEFINE Part(k, g) == /\ g \in [1 .. k -> Seq(Nat)]
                         /\ \A i \in 1 .. k : g[i] = FlattenStep(s, g, i)
           P == {k \in 1 .. Len(s) : \E g : Part(k, g)}
<1>1. Len(s) \in Nat
  OBVIOUS
<1>2. ASSUME NEW p \in 1 .. Len(s), \A q \in 1 .. p - 1 : q \in P
      PROVE  p \in P
  <2>1. s[p] \in Seq(Nat)
    OBVIOUS
  <2>2. CASE p = 1
    <3> DEFINE h == [i \in 1 .. p |-> s[p]]
    <3>1. h \in [1 .. p -> Seq(Nat)]
      BY <2>1
    <3>2. \A i \in 1 .. p : h[i] = FlattenStep(s, h, i)
      BY <2>2 DEF FlattenStep
    <3> QED
      BY <3>1, <3>2
  <2>3. CASE p # 1
    <3>1. p - 1 \in 1 .. p - 1
      BY <2>3
    <3>2. p - 1 \in P
      BY ONLY <1>2, <3>1, Zenon
    <3>3. PICK g : Part(p - 1, g)
      BY <3>2
    <3>4. g[p - 1] \in Seq(Nat)
      BY <3>1, <3>3
    <3> DEFINE h == [i \in 1 .. p |-> IF i = p THEN g[p - 1] \o s[p] ELSE g[i]]
    <3>5. g[p - 1] \o s[p] \in Seq(Nat)
      BY <2>1, <3>4
    <3>6. h \in [1 .. p -> Seq(Nat)]
      <4>1. \A i \in 1 .. p : i # p => i \in 1 .. p - 1
        OBVIOUS
      <4> QED
        BY <3>3, <3>5, <4>1
    <3>7. ASSUME NEW i \in 1 .. p PROVE h[i] = FlattenStep(s, h, i)
      <4>1. CASE i = p
        <5>1. p - 1 \in 1 .. p /\ p - 1 # p /\ p \in 1 .. p
          BY <3>1
        <5>2. h[p - 1] = g[p - 1] /\ h[p] = g[p - 1] \o s[p]
          BY <5>1, Zenon
        <5> QED
          BY <2>3, <4>1, <5>2 DEF FlattenStep
      <4>2. CASE i # p
        <5>1. i \in 1 .. p - 1
          BY <4>2
        <5>2. h[i] = g[i] /\ g[i] = FlattenStep(s, g, i)
          BY <3>3, <4>2, <5>1
        <5>3. i # 1 => h[i - 1] = g[i - 1]
          BY <5>1
        <5> QED
          BY <5>2, <5>3 DEF FlattenStep
      <4> QED
        BY <4>1, <4>2
    <3> QED
      BY <3>6, <3>7
  <2> QED
    BY <2>2, <2>3
<1>3. CASE Len(s) = 0
  <2>1. 1 .. Len(s) = {}
    BY <1>3
  <2>2. Flattening(s, s)
    <3>1. s \in [1 .. Len(s) -> Seq(Nat)]
      OBVIOUS
    <3> QED
      BY <2>1, <3>1, Zenon DEF Flattening
  <2> QED
    BY <2>2
<1>4. CASE Len(s) # 0
  <2>1. 1 .. Len(s) \subseteq P
    <3> HIDE DEF P
    <3> QED
      BY <1>1, <1>2, Upward
  <2>2. Len(s) \in 1 .. Len(s)
    BY <1>1, <1>4
  <2>3. Len(s) \in P
    BY ONLY <2>1, <2>2, Zenon
  <2> QED
    BY <2>3 DEF Flattening
<1> QED
  BY <1>3, <1>4

LEMMA Flattened ==
  ASSUME NEW s \in Seq(Seq(Nat)), Len(s) # 0, NEW f, Flattening(s, f)
  PROVE  FlattenSeq(s) = f[Len(s)]
<1>1. Len(s) \in Nat /\ Len(s) \in 1 .. Len(s)
  OBVIOUS
<1>2. f = [i \in 1 .. Len(s) |-> FlattenStep(s, f, i)]
  BY DEF Flattening
<1>3. PICK g : /\ g = [i \in 1 .. Len(s) |-> FlattenStep(s, g, i)]
               /\ FlattenSeq(s) = g[Len(s)]
  BY <1>2, FlattenIs
<1> DEFINE P == {p \in 1 .. Len(s) : g[p] = f[p]}
<1>4. ASSUME NEW p \in 1 .. Len(s), \A q \in 1 .. p - 1 : q \in P
      PROVE  p \in P
  <2>1. p # 1 => g[p - 1] = f[p - 1]
    <3>1. p # 1 => p - 1 \in 1 .. p - 1
      OBVIOUS
    <3> QED
      BY <1>4, <3>1
  <2>2. FlattenStep(s, g, p) = FlattenStep(s, f, p)
    BY <2>1 DEF FlattenStep
  <2>3. g[p] = FlattenStep(s, g, p)
    BY <1>3
  <2> QED
    BY <1>2, <2>2, <2>3
<1>5. Len(s) \in P
  <2>1. 1 .. Len(s) \subseteq P
    <3> HIDE DEF P
    <3> QED
      BY <1>1, <1>4, Upward
  <2> HIDE DEF P
  <2> QED
    BY <1>1, <2>1
<1> QED
  BY <1>3, <1>5

\* One more sequence behind the others.
LEMMA FlattenAppend ==
  ASSUME NEW s \in Seq(Seq(Nat)), NEW t \in Seq(Nat)
  PROVE  /\ FlattenSeq(s) \in Seq(Nat)
         /\ Len(FlattenSeq(Append(s, t))) = Len(FlattenSeq(s)) + Len(t)
<1>1. PICK n \in Nat : n = Len(s)
  OBVIOUS
<1>2. PICK f : Flattening(s, f)
  BY Flattenable
<1>3. PICK u : u = Append(s, t)
  OBVIOUS
<1>4. u \in Seq(Seq(Nat)) /\ Len(u) = n + 1 /\ u[n + 1] = t
      /\ \A i \in 1 .. n : u[i] = s[i]
  BY <1>1, <1>3
<1>5. PICK g : Flattening(u, g)
  BY <1>4, Flattenable
<1>6. FlattenSeq(u) = g[n + 1]
  BY <1>1, <1>4, <1>5, Flattened
<1>7. n + 1 \in 1 .. n + 1 /\ g[n + 1] = FlattenStep(u, g, n + 1)
  BY <1>4, <1>5 DEF Flattening
<1>8. CASE n = 0
  <2>1. g[n + 1] = t
    BY <1>4, <1>7, <1>8 DEF FlattenStep
  <2>2. FlattenSeq(s) = s /\ s = <<>>
    <3>1. FlattenSeq(s) = s
      BY <1>1, <1>8, Zenon DEF FlattenSeq
    <3>2. s = <<>>
      <4>1. <<>> \in Seq(Seq(Nat)) /\ Len(<<>>) = 0 /\ 1 .. 0 = {}
        OBVIOUS
      <4> QED
        BY <1>1, <1>8, <4>1, SameSeq
    <3> QED
      BY <3>1, <3>2
  <2> QED
    BY <1>3, <1>6, <2>1, <2>2
<1>9. CASE n # 0
  <2>1. FlattenSeq(s) = f[n] /\ f[n] \in Seq(Nat)
    <3>1. n \in 1 .. Len(s)
      BY <1>1, <1>9
    <3>2. f[n] \in Seq(Nat)
      BY <1>2, <3>1 DEF Flattening
    <3> QED
      BY <1>1, <1>2, <1>9, <3>2, Flattened
  <2>2. g[n + 1] = g[n] \o t
    BY <1>4, <1>7, <1>9 DEF FlattenStep
  <2>3. g[n] = f[n]
    <3> DEFINE h == [i \in 1 .. Len(s) |-> g[i]]
    <3>1. \A i \in 1 .. n : i \in 1 .. n + 1
      OBVIOUS
    <3>2. h \in [1 .. Len(s) -> Seq(Nat)]
      BY <1>1, <1>4, <1>5, <3>1 DEF Flattening
    <3>3. ASSUME NEW i \in 1 .. Len(s) PROVE h[i] = FlattenStep(s, h, i)
      <4>1. g[i] = FlattenStep(u, g, i) /\ u[i] = s[i]
        BY <1>1, <1>4, <1>5, <3>1 DEF Flattening
      <4>2. i # 1 => h[i - 1] = g[i - 1]
        BY <1>1
      <4> QED
        BY <4>1, <4>2 DEF FlattenStep
    <3>4. FlattenSeq(s) = h[n]
      <4>1. Flattening(s, h)
        BY <3>2, <3>3 DEF Flattening
      <4> HIDE DEF h
      <4> QED
        BY <1>1, <1>9, <4>1, Flattened
    <3>5. h[n] = g[n]
      BY <1>1, <1>9
    <3> QED
      BY <2>1, <3>4, <3>5
  <2>4. Len(f[n] \o t) = Len(f[n]) + Len(t)
    BY <2>1
  <2> QED
    BY <1>3, <1>6, <2>1, <2>2, <2>3, <2>4
<1> QED
  BY <1>8, <1>9

-----------------------------------------------------------------------------
(* What the appliance sends. *)

LEMMA SizeFacts == \A n \in Sizes : n \in Nat /\ 3 <= n /\ n <= MaxSize
<1>1. Sizes \subseteq 3 .. MaxSize
  BY FramingAssumption
<1> QED
  BY <1>1, Limits

LEMMA PayloadFacts ==
  ASSUME NEW k \in Nat, NEW n \in Sizes
  PROVE  Payload(k, n) \in Seq(Nat) /\ Len(Payload(k, n)) = n /\ IsMessage(Payload(k, n))
<1>1. n \in Nat /\ 3 <= n
  BY SizeFacts
<1>2. PICK s : s = Payload(k, n)
  OBVIOUS
<1>3. s \in Seq(Nat) /\ Len(s) = n
  BY <1>1, <1>2 DEF Payload, Open, Close
<1>4. s[1] = Open /\ s[n] = Close
  BY <1>1, <1>2 DEF Payload, Open, Close
<1>5. IsMessage(s)
  BY <1>1, <1>3, <1>4 DEF IsMessage, IsObject, Last
<1> QED
  BY <1>2, <1>3, <1>5

LEMMA Texts ==
  /\ <<Open, Open>> \in Seq(Nat) /\ Len(<<Open, Open>>) <= MaxSize
  /\ ~IsMessage(<<Open, Open>>)
  /\ <<49>> \in Seq(Nat) /\ Len(<<49>>) <= MaxSize /\ ~IsMessage(<<49>>)
<1>1. Open \in Nat /\ Open # Close
  BY DEF Open, Close
<1>2. <<Open, Open>> \in Seq(Nat) /\ Len(<<Open, Open>>) = 2 /\ <<Open, Open>>[2] = Open
  BY <1>1
<1>3. <<49>> \in Seq(Nat) /\ Len(<<49>>) = 1
  OBVIOUS
<1>4. ~IsMessage(<<Open, Open>>)
  BY <1>1, <1>2 DEF IsMessage, IsObject, Last
<1>5. ~IsMessage(<<49>>)
  BY <1>3 DEF IsMessage, IsObject
<1>6. 1 <= MaxSize /\ 2 <= MaxSize
  BY DEF MaxSize
<1> QED
  BY <1>2, <1>3, <1>4, <1>5, <1>6

LEMMA GarbageFacts ==
  /\ \A b \in Seq(Nat) : Garbage(b) =>
       DecodeTls(b).msgs = <<>> /\ Garbage(DecodeTls(b).rest)
  /\ <<>> \in Seq(Nat) /\ Garbage(<<>>)
  /\ <<Close>> \in Seq(Nat) /\ Garbage(<<Close>>)
  /\ \A b \in Seq(Nat) : Garbage(b) => b \o <<255>> \in Seq(Nat) /\ Garbage(b \o <<255>>)
<1>1. ASSUME NEW b \in Seq(Nat), Garbage(b)
      PROVE  DecodeTls(b).msgs = <<>> /\ Garbage(DecodeTls(b).rest)
  <2>1. \A i \in 1 .. Len(b) : i + 3 <= Len(b) => b[i] > 0
    BY <1>1 DEF Garbage
  <2> QED
    BY <1>1, <2>1, NoFrame
<1>2. <<>> \in Seq(Nat) /\ Garbage(<<>>)
  BY DEF Garbage
<1>3. <<Close>> \in Seq(Nat) /\ Garbage(<<Close>>)
  BY DEF Garbage, Close
<1>4. ASSUME NEW b \in Seq(Nat), Garbage(b)
      PROVE  b \o <<255>> \in Seq(Nat) /\ Garbage(b \o <<255>>)
  BY <1>4 DEF Garbage
<1> QED
  BY <1>1, <1>2, <1>3, <1>4

\* A frame with nothing, or with garbage, behind it.
LEMMA LastFrame ==
  ASSUME NEW g \in Seq(Nat), Garbage(g), NEW s \in Seq(Nat), Len(s) <= MaxSize,
         NEW c \in Seq(Nat), Garbage(c)
  PROVE  /\ DecodeTls(g \o (EncodeTls(s) \o c)).msgs = IF IsMessage(s) THEN <<s>> ELSE <<>>
         /\ Garbage(DecodeTls(g \o (EncodeTls(s) \o c)).rest)
<1>1. PICK x \in Seq(Seq(Nat)) : x = IF IsMessage(s) THEN <<s>> ELSE <<>>
  <2>1. <<s>> \in Seq(Seq(Nat)) /\ <<>> \in Seq(Seq(Nat))
    OBVIOUS
  <2> QED
    BY <2>1, Zenon
<1>2. DecodeTls(c).msgs = <<>> /\ Garbage(DecodeTls(c).rest)
  BY GarbageFacts
<1>3. /\ DecodeTls(g \o (EncodeTls(s) \o c)).msgs = x \o <<>>
      /\ DecodeTls(g \o (EncodeTls(s) \o c)).rest = DecodeTls(c).rest
  <2>1. /\ DecodeTls(g \o (EncodeTls(s) \o c)).msgs =
             (IF IsMessage(s) THEN <<s>> ELSE <<>>) \o DecodeTls(c).msgs
        /\ DecodeTls(g \o (EncodeTls(s) \o c)).rest = DecodeTls(c).rest
    BY Framed
  <2> QED
    BY ONLY <1>1, <1>2, <2>1, Zenon
<1>4. x \o <<>> = x
  OBVIOUS
<1> QED
  BY <1>1, <1>2, <1>3, <1>4, Zenon

\* What one thing adds to a stream of which garbage is left.
Adds(r, c, m) ==
  /\ c \in Seq(Nat) /\ m \in Seq(Seq(Nat))
  /\ DecodeTls(r \o c).msgs = m /\ Garbage(DecodeTls(r \o c).rest)
  /\ \A j \in 0 .. Len(c) : j # Len(c) => DecodeTls(r \o SubSeq(c, 1, j)).msgs = <<>>

LEMMA NothingAdded ==
  ASSUME NEW r \in Seq(Nat), NEW c \in Seq(Nat), DecodeTls(r \o c).msgs = <<>>,
         Garbage(DecodeTls(r \o c).rest)
  PROVE  Adds(r, c, <<>>)
<1>1. ASSUME NEW j \in 0 .. Len(c) PROVE DecodeTls(r \o SubSeq(c, 1, j)).msgs = <<>>
  <2>1. PICK u \in Seq(Nat), v \in Seq(Nat) :
          u = SubSeq(c, 1, j) /\ v = SubSeq(c, j + 1, Len(c)) /\ c = u \o v
    BY Split, Zenon
  <2>2. r \o u \in Seq(Nat) /\ (r \o u) \o v = r \o c
    <3>1. (r \o u) \o v = r \o (u \o v)
      BY ONLY r \in Seq(Nat), u \in Seq(Nat), v \in Seq(Nat)
    <3>2. r \o u \in Seq(Nat)
      OBVIOUS
    <3> QED
      BY <2>1, <3>1, <3>2, Zenon
  <2>3. PICK d \in Result : d = DecodeTls(r \o u)
    BY <2>2, DecodeTyped
  <2>4. d.msgs \in Seq(Seq(Nat)) /\ d.rest \o v \in Seq(Nat)
    BY DEF Result
  <2>5. PICK m \in Seq(Seq(Nat)) : m = DecodeTls(d.rest \o v).msgs
    BY <2>4, DecodeTyped
  <2>6. d.msgs \o m = <<>>
    <3>1. r \o u \in Seq(Nat)
      BY <2>2
    <3>2. /\ DecodeTls((r \o u) \o v).msgs =
               DecodeTls(r \o u).msgs \o DecodeTls(DecodeTls(r \o u).rest \o v).msgs
          /\ DecodeTls((r \o u) \o v).rest = DecodeTls(DecodeTls(r \o u).rest \o v).rest
      BY ONLY <3>1, Pieces, v \in Seq(Nat), Zenon
    <3> QED
      BY ONLY <2>2, <2>3, <2>5, <3>2, DecodeTls(r \o c).msgs = <<>>, Zenon
  <2>7. d.msgs = <<>>
    <3>1. PICK x \in Seq(Seq(Nat)) : x = d.msgs
      BY <2>4
    <3>2. Len(x \o m) = Len(x) + Len(m) /\ Len(x \o m) = 0
      BY <2>6, <3>1
    <3>3. Len(x) = 0
      BY <3>2
    <3>4. x = <<>>
      <4>1. <<>> \in Seq(Seq(Nat)) /\ Len(<<>>) = 0 /\ 1 .. 0 = {}
        OBVIOUS
      <4> QED
        BY <3>3, <4>1, SameSeq
    <3> QED
      BY <3>1, <3>4
  <2> QED
    BY <2>1, <2>3, <2>7
<1>2. <<>> \in Seq(Seq(Nat))
  OBVIOUS
<1> QED
  BY <1>1, <1>2 DEF Adds

LEMMA ThingAdds ==
  ASSUME NEW r \in Seq(Nat), Garbage(r), NEW k \in Nat, NEW x \in Things,
         x.what # "map", ~Loose(x), family = "tls"
  PROVE  Adds(r, Bytes(k, x),
              IF x.what = "message" THEN <<Payload(k, x.size)>> ELSE <<>>)
<1>1. CASE x.what = "message"
  <2>1. x.size \in Sizes
    BY <1>1 DEF Things
  <2>2. PICK s \in Seq(Nat) : s = Payload(k, x.size) /\ Len(s) <= MaxSize /\ IsMessage(s)
    BY <2>1, PayloadFacts, SizeFacts
  <2>3. Bytes(k, x) = EncodeTls(s)
    BY <1>1, <2>2 DEF Bytes, Encode
  <2>4. PICK c \in Seq(Nat) : c = EncodeTls(s) /\ Len(c) = 4 + Len(s) /\ c \o <<>> = c
    BY TlsHead
  <2>5. DecodeTls(r \o c).msgs = <<s>> /\ Garbage(DecodeTls(r \o c).rest)
    <3>1. /\ DecodeTls(r \o (EncodeTls(s) \o <<>>)).msgs =
               IF IsMessage(s) THEN <<s>> ELSE <<>>
          /\ Garbage(DecodeTls(r \o (EncodeTls(s) \o <<>>)).rest)
      <4>1. <<>> \in Seq(Nat) /\ Garbage(<<>>)
        BY GarbageFacts
      <4> QED
        BY <2>2, <4>1, LastFrame
    <3> QED
      BY <2>2, <2>4, <3>1, Zenon
  <2>6. ASSUME NEW j \in 0 .. Len(c), j # Len(c)
        PROVE  DecodeTls(r \o SubSeq(c, 1, j)).msgs = <<>>
    <3>1. j \in 0 .. 3 + Len(s)
      BY <2>4, <2>6
    <3> QED
      BY <2>2, <2>4, <3>1, PartOfFrame
  <2>7. <<s>> \in Seq(Seq(Nat))
    OBVIOUS
  <2>8. Adds(r, c, <<s>>)
    BY <2>5, <2>6, <2>7 DEF Adds
  <2> QED
    BY <1>1, <2>2, <2>3, <2>4, <2>8, Zenon
<1>2. CASE x.what # "message"
  <2>1. PICK c : c = Bytes(k, x)
    OBVIOUS
  <2>2. CASE x.what = "stray"
    <3>1. c = <<255>>
      BY <2>1, <2>2 DEF Bytes
    <3>2. c \in Seq(Nat) /\ r \o c \in Seq(Nat) /\ Garbage(r \o c)
      BY <3>1, GarbageFacts
    <3>3. DecodeTls(r \o c).msgs = <<>> /\ Garbage(DecodeTls(r \o c).rest)
      BY <3>2, GarbageFacts
    <3>4. Adds(r, c, <<>>)
      BY <3>2, <3>3, NothingAdded
    <3> QED
      BY <1>2, <2>1, <3>4, Zenon
  <2>3. CASE x.what # "stray"
    <3>1. PICK s \in Seq(Nat), t \in Seq(Nat) :
            /\ c = EncodeTls(s) \o t /\ Len(s) <= MaxSize /\ ~IsMessage(s) /\ Garbage(t)
      <4>1. x.what \in {"text", "number", "overlong"}
        BY <1>2, <2>3 DEF Things, Loose
      <4>2. \A s \in Seq(Nat) : EncodeTls(s) \o <<>> = EncodeTls(s)
        BY TlsHead
      <4>3. CASE x.what = "text"
        <5>1. c = EncodeTls(<<Open, Open>>)
          BY <2>1, <4>3 DEF Bytes, Encode
        <5> QED
          BY <4>2, <5>1, Texts, GarbageFacts, Zenon
      <4>4. CASE x.what = "number"
        <5>1. c = EncodeTls(<<49>>)
          BY <2>1, <4>4 DEF Bytes, Encode
        <5> QED
          BY <4>2, <5>1, Texts, GarbageFacts, Zenon
      <4>5. CASE x.what = "overlong"
        <5>1. c = EncodeTls(<<Open, Open>>) \o <<Close>>
          BY <2>1, <4>5 DEF Bytes, Encode
        <5> QED
          BY <5>1, Texts, GarbageFacts, Zenon
      <4> QED
        BY <4>1, <4>3, <4>4, <4>5
    <3>2. c \in Seq(Nat)
      BY <3>1, TlsHead
    <3>3. DecodeTls(r \o c).msgs = <<>> /\ Garbage(DecodeTls(r \o c).rest)
      BY <3>1, LastFrame, Zenon
    <3>4. Adds(r, c, <<>>)
      BY <3>2, <3>3, NothingAdded
    <3> QED
      BY <1>2, <2>1, <3>4, Zenon
  <2> QED
    BY <2>2, <2>3
<1> QED
  BY <1>1, <1>2

-----------------------------------------------------------------------------
(* What is sent after a thing. *)

\* What the appliance may have sent to a TLS handler.
Sendable(x) == x \in Things /\ x.what # "map"

LEMMA BytesFacts ==
  ASSUME family = "tls", NEW k \in Nat, NEW x, Sendable(x)
  PROVE  Bytes(k, x) \in Seq(Nat)
<1>1. <<>> \in Seq(Nat) /\ Garbage(<<>>)
  BY GarbageFacts
<1>2. CASE Loose(x)
  BY <1>2 DEF Loose, Bytes, Open, Close
<1>3. CASE ~Loose(x)
  BY <1>1, <1>3, ThingAdds DEF Adds, Sendable
<1> QED
  BY <1>2, <1>3

LEMMA BehindFacts ==
  ASSUME family = "tls", sent \in Seq(Things), \A i \in 1 .. Len(sent) : Sendable(sent[i]),
         NEW k \in 1 .. Len(sent)
  PROVE  /\ Behind(k) \in Nat
         /\ [i \in 1 .. Len(sent) - k |-> Bytes(k + i, sent[k + i])] \in Seq(Seq(Nat))
<1> DEFINE a == [i \in 1 .. Len(sent) - k |-> Bytes(k + i, sent[k + i])]
<1>1. PICK n \in Nat : n = Len(sent) - k
  OBVIOUS
<1>2. \A i \in 1 .. n : Bytes(k + i, sent[k + i]) \in Seq(Nat)
  <2>1. ASSUME NEW i \in 1 .. n PROVE Bytes(k + i, sent[k + i]) \in Seq(Nat)
    <3>1. k + i \in Nat /\ Sendable(sent[k + i])
      BY <1>1
    <3> QED
      BY <3>1, BytesFacts
  <2> QED
    BY <2>1
<1>3. a \in Seq(Seq(Nat))
  BY <1>1, <1>2
<1>4. FlattenSeq(a) \in Seq(Nat)
  <2>1. <<>> \in Seq(Nat)
    OBVIOUS
  <2> HIDE DEF a
  <2> QED
    BY <1>3, <2>1, FlattenAppend
<1>5. Behind(k) = Len(FlattenSeq(a))
  BY DEF Behind
<1> QED
  BY <1>3, <1>4, <1>5

LEMMA BehindSend ==
  ASSUME family = "tls", family' = family, sent \in Seq(Things),
         \A i \in 1 .. Len(sent) : Sendable(sent[i]), NEW x, Sendable(x),
         sent' = Append(sent, x), NEW N \in Nat, N = Len(sent), NEW c, c = Bytes(N + 1, x)
  PROVE  /\ \A k \in 1 .. N : Behind(k)' = Behind(k) + Len(c)
         /\ Behind(N + 1)' = 0
<1>2. Len(sent') = N + 1 /\ sent'[N + 1] = x /\ \A i \in 1 .. N : sent'[i] = sent[i]
  OBVIOUS
<1>3. c \in Seq(Nat)
  BY BytesFacts
<1>4. ASSUME NEW k \in 1 .. N PROVE Behind(k)' = Behind(k) + Len(c)
  <2> DEFINE a == [i \in 1 .. Len(sent) - k |-> Bytes(k + i, sent[k + i])]
             b == [i \in 1 .. N + 1 - k |-> Bytes(k + i, sent'[k + i])]
  <2>1. a \in Seq(Seq(Nat)) /\ Behind(k) = Len(FlattenSeq(a))
    BY BehindFacts DEF Behind
  <2>2. a' = b
    <3>1. Len(sent') - k = N + 1 - k
      BY <1>2
    <3>2. ASSUME NEW i \in 1 .. N + 1 - k
          PROVE  (Bytes(k + i, sent[k + i]))' = Bytes(k + i, sent'[k + i])
      BY DEF Bytes, Encode
    <3>3. [i \in 1 .. N + 1 - k |-> (Bytes(k + i, sent[k + i]))'] = b
      BY ONLY <3>2
    <3>4. a' = [i \in 1 .. N + 1 - k |-> (Bytes(k + i, sent[k + i]))']
      BY ONLY <3>1, Zenon
    <3> QED
      BY ONLY <3>3, <3>4
  <2>3. Behind(k)' = Len(FlattenSeq(b))
    <3>1. Behind(k)' = Len(FlattenSeq(a'))
      BY DEF Behind
    <3> QED
      BY <2>2, <3>1
  <2>4. PICK n \in Nat : n = N - k
    <3>1. N - k \in Nat
      BY ONLY N \in Nat, k \in 1 .. N
    <3> QED
      BY ONLY <3>1
  <2>5. Len(a) = n /\ \A i \in 1 .. n : a[i] = Bytes(k + i, sent[k + i])
    BY <2>4
  <2>6. b = [i \in 1 .. n + 1 |-> Bytes(k + i, sent'[k + i])]
    <3>1. N + 1 - k = n + 1
      BY <2>4
    <3> QED
      BY <3>1, Zenon
  <2>7. PICK d \in Seq(Seq(Nat)) : d = Append(a, c)
    <3> HIDE DEF a
    <3>1. Append(a, c) \in Seq(Seq(Nat))
      BY <1>3, <2>1
    <3> QED
      BY <3>1
  <2>8. Len(d) = n + 1 /\ d[n + 1] = c /\ \A i \in 1 .. n : d[i] = a[i]
    <3> HIDE DEF a
    <3> QED
      BY ONLY <1>3, <2>1, <2>5, <2>7, n \in Nat
  <2>9. ASSUME NEW i \in 1 .. n + 1 PROVE d[i] = Bytes(k + i, sent'[k + i])
    <3>1. CASE i = n + 1
      <4>1. k + i = N + 1
        BY <2>4, <3>1
      <4> QED
        BY <1>2, <1>3, <2>8, <3>1, <4>1
    <3>2. CASE i # n + 1
      <4>1. i \in 1 .. n /\ k + i \in 1 .. N
        BY ONLY <2>4, <3>2, N \in Nat, k \in 1 .. N, n \in Nat, i \in 1 .. n + 1
      <4>2. sent'[k + i] = sent[k + i]
        BY <1>2, <4>1
      <4>3. d[i] = a[i] /\ a[i] = Bytes(k + i, sent[k + i])
        BY <2>5, <2>8, <4>1
      <4> QED
        BY <4>2, <4>3
    <3> QED
      BY <3>1, <3>2
  <2>10. b = d
    <3>1. d = [i \in 1 .. n + 1 |-> d[i]]
      BY <2>8
    <3> HIDE DEF b
    <3> QED
      BY <2>6, <2>9, <3>1
  <2>11. Len(FlattenSeq(d)) = Len(FlattenSeq(a)) + Len(c)
    <3> HIDE DEF a
    <3> QED
      BY <1>3, <2>1, <2>7, FlattenAppend
  <2> HIDE DEF a, b
  <2> QED
    BY <2>1, <2>3, <2>10, <2>11
<1>5. Behind(N + 1)' = 0
  <2> DEFINE a == [i \in 1 .. Len(sent) - (N + 1) |-> Bytes(N + 1 + i, sent[N + 1 + i])]
  <2>1. Behind(N + 1)' = Len(FlattenSeq(a'))
    BY DEF Behind
  <2>2. a' = <<>>
    BY <1>2
  <2>3. FlattenSeq(<<>>) = <<>>
    <3>1. Len(<<>>) = 0
      OBVIOUS
    <3> QED
      BY <3>1, Zenon DEF FlattenSeq
  <2> QED
    BY <2>1, <2>2, <2>3
<1> QED
  BY <1>4, <1>5

-----------------------------------------------------------------------------
(* The connection of a TLS handler. *)

Connection == /\ sent \in Seq(Things) /\ \A i \in 1 .. Len(sent) : Sendable(sent[i])
              /\ wire \in Seq(Nat) /\ buf \in Seq(Nat) /\ got \in Seq(Seq(Nat))

\* The remainder is less than a frame, and decoding it again brings nothing.
Settled == Len(buf) <= MaxFrame + 3 /\ DecodeTls(buf) = [msgs |-> <<>>, rest |-> buf]

\* Of the first k things of s none is loose garbage.
Calm(s, k) == \A j \in 1 .. k : ~Loose(s[j])

\* When all has arrived, nothing is left that could begin a frame.
Clean == Calm(sent, Len(sent)) => Garbage(DecodeTls(buf \o wire).rest)

Holds(s, m) == \E i \in 1 .. Len(s) : s[i] = m

\* s is what was sent, and after[k] the number of bytes behind the k-th thing.  A
\* message with no loose garbage before it is decoded as soon as its last byte arrives.
DueAt(b, g, w, s, after) ==
  \A k \in 1 .. Len(s), n \in 0 .. Len(w) :
    s[k].what = "message" /\ Calm(s, k - 1) /\ Len(w) <= after[k] + n =>
      Holds(Ahead(b, g, w, n), Payload(k, s[k].size))

\* The i-th message that is decoded, or will be, is the one that was sent as number
\* K[i]; their order is that of sending, and none is decoded before its last byte
\* arrives.
OriginAt(b, g, w, s, after, K) ==
  /\ K \in [1 .. Len(Ahead(b, g, w, Len(w))) -> 1 .. Len(s)]
  /\ \A i \in 1 .. Len(Ahead(b, g, w, Len(w))) :
       /\ s[K[i]].what = "message"
       /\ Ahead(b, g, w, Len(w))[i] = Payload(K[i], s[K[i]].size)
  /\ \A i, j \in 1 .. Len(Ahead(b, g, w, Len(w))) : i < j => K[i] < K[j]
  /\ \A n \in 0 .. Len(w) : \A i \in 1 .. Len(Ahead(b, g, w, n)) :
       /\ i \in 1 .. Len(Ahead(b, g, w, Len(w)))
       /\ Ahead(b, g, w, n)[i] = Ahead(b, g, w, Len(w))[i]
       /\ Len(w) <= after[K[i]] + n

LEMMA TakenKeeps ==
  ASSUME NEW b \in Seq(Nat), NEW g \in Seq(Seq(Nat)), NEW w \in Seq(Nat), NEW s,
         NEW after \in [1 .. Len(s) -> Nat], NEW m \in 0 .. Len(w),
         NEW d, d = DecodeTls(b \o SubSeq(w, 1, m)), NEW v, v = SubSeq(w, m + 1, Len(w))
  PROVE  /\ DueAt(b, g, w, s, after) => DueAt(d.rest, g \o d.msgs, v, s, after)
         /\ \A K : OriginAt(b, g, w, s, after, K) =>
                     OriginAt(d.rest, g \o d.msgs, v, s, after, K)
<1>0. \A e, u :
        e = DecodeTls(b \o SubSeq(w, 1, m)) /\ u = SubSeq(w, m + 1, Len(w)) =>
          /\ u \in Seq(Nat) /\ Len(u) = Len(w) - m
          /\ \A n \in 0 .. Len(u) : Ahead(e.rest, g \o e.msgs, u, n) = Ahead(b, g, w, m + n)
          /\ DecodeTls(e.rest \o u).rest = DecodeTls(b \o w).rest
  BY ONLY Taken, b \in Seq(Nat), g \in Seq(Seq(Nat)), w \in Seq(Nat), m \in 0 .. Len(w),
          ZenonT(60)
<1>1. /\ v \in Seq(Nat) /\ Len(v) = Len(w) - m
      /\ \A n \in 0 .. Len(v) : Ahead(d.rest, g \o d.msgs, v, n) = Ahead(b, g, w, m + n)
  BY <1>0, Zenon
<1>2. PICK N \in Nat, M \in Nat, V \in Nat :
        Len(w) = N /\ m = M /\ Len(v) = V /\ M + V = N
  BY <1>1
<1>3. \A n \in 0 .. V : M + n \in 0 .. N
  BY <1>2
<1>4. ASSUME DueAt(b, g, w, s, after)
      PROVE  DueAt(d.rest, g \o d.msgs, v, s, after)
  <2>1. ASSUME NEW k \in 1 .. Len(s), NEW n \in 0 .. V, s[k].what = "message",
               Calm(s, k - 1), V <= after[k] + n
        PROVE  Holds(Ahead(b, g, w, M + n), Payload(k, s[k].size))
    <3>1. PICK z \in Nat : z = after[k]
      OBVIOUS
    <3>2. N <= z + (M + n)
      BY <1>2, <2>1, <3>1
    <3> QED
      BY <1>2, <1>3, <1>4, <2>1, <3>1, <3>2 DEF DueAt
  <2> QED
    BY <1>1, <1>2, <2>1, Zenon DEF DueAt
<1>5. ASSUME NEW K, OriginAt(b, g, w, s, after, K)
      PROVE  OriginAt(d.rest, g \o d.msgs, v, s, after, K)
  <2>1. Ahead(d.rest, g \o d.msgs, v, V) = Ahead(b, g, w, N)
    <3>1. V \in 0 .. V
      OBVIOUS
    <3> QED
      BY <1>1, <1>2, <3>1
  <2>2. ASSUME NEW n \in 0 .. V, NEW i \in 1 .. Len(Ahead(b, g, w, M + n))
        PROVE  /\ i \in 1 .. Len(Ahead(b, g, w, N))
               /\ Ahead(b, g, w, M + n)[i] = Ahead(b, g, w, N)[i]
               /\ V <= after[K[i]] + n
    <3>1. /\ i \in 1 .. Len(Ahead(b, g, w, N))
          /\ Ahead(b, g, w, M + n)[i] = Ahead(b, g, w, N)[i]
          /\ N <= after[K[i]] + (M + n)
      BY <1>2, <1>3, <1>5 DEF OriginAt
    <3>2. PICK z \in Nat : z = after[K[i]]
      <4>1. K[i] \in 1 .. Len(s)
        BY <1>2, <1>5, <3>1 DEF OriginAt
      <4> QED
        BY <4>1
    <3>3. V <= z + n
      BY <1>2, <3>1, <3>2
    <3> QED
      BY <3>1, <3>2, <3>3
  <2>3. \A n \in 0 .. V : Ahead(d.rest, g \o d.msgs, v, n) = Ahead(b, g, w, M + n)
    BY <1>1, <1>2
  <2>4. PICK X : X = Ahead(b, g, w, N)
    OBVIOUS
  <2>5. /\ K \in [1 .. Len(X) -> 1 .. Len(s)]
        /\ \A i \in 1 .. Len(X) : s[K[i]].what = "message" /\ X[i] = Payload(K[i], s[K[i]].size)
        /\ \A i, j \in 1 .. Len(X) : i < j => K[i] < K[j]
    BY ONLY <1>2, <1>5, <2>4, Zenon DEF OriginAt
  <2>6. Ahead(d.rest, g \o d.msgs, v, Len(v)) = X
    BY ONLY <1>2, <2>1, <2>4, Zenon
  <2>7. ASSUME NEW n \in 0 .. Len(v), NEW i \in 1 .. Len(Ahead(d.rest, g \o d.msgs, v, n))
        PROVE  /\ i \in 1 .. Len(X)
               /\ Ahead(d.rest, g \o d.msgs, v, n)[i] = X[i]
               /\ Len(v) <= after[K[i]] + n
    <3>1. n \in 0 .. V
      BY ONLY <1>2, n \in 0 .. Len(v), Zenon
    <3>2. Ahead(d.rest, g \o d.msgs, v, n) = Ahead(b, g, w, M + n)
      BY ONLY <2>3, <3>1, Zenon
    <3>3. i \in 1 .. Len(Ahead(b, g, w, M + n))
      BY ONLY <3>2, i \in 1 .. Len(Ahead(d.rest, g \o d.msgs, v, n)), Zenon
    <3>4. /\ i \in 1 .. Len(X) /\ Ahead(b, g, w, M + n)[i] = X[i]
          /\ V <= after[K[i]] + n
      BY ONLY <2>2, <2>4, <3>1, <3>3, Zenon
    <3> QED
      BY ONLY <1>2, <3>2, <3>4, Zenon
  <2> QED
    BY ONLY <2>5, <2>6, <2>7, Zenon DEF OriginAt
<1> QED
  BY <1>4, <1>5

\* More is sent: nothing new is decoded before its last byte.
LEMMA LongerAhead ==
  ASSUME NEW b \in Seq(Nat), NEW g \in Seq(Seq(Nat)), NEW w \in Seq(Nat), NEW c, NEW x,
         Adds(DecodeTls(b \o w).rest, c, x)
  PROVE  /\ w \o c \in Seq(Nat) /\ Len(w \o c) = Len(w) + Len(c)
         /\ Ahead(b, g, w, Len(w)) \in Seq(Seq(Nat)) /\ x \in Seq(Seq(Nat))
         /\ Ahead(b, g, w \o c, Len(w) + Len(c)) = Ahead(b, g, w, Len(w)) \o x
         /\ \A n \in 0 .. Len(w) + Len(c) : n # Len(w) + Len(c) =>
              Ahead(b, g, w \o c, n) = Ahead(b, g, w, IF n <= Len(w) THEN n ELSE Len(w))
         /\ Garbage(DecodeTls(b \o (w \o c)).rest)
<1> PICK u, N, C : u = w \o c /\ N = Len(w) /\ C = Len(c)
  OBVIOUS
<1> PICK r : r = DecodeTls(b \o w).rest
  OBVIOUS
<1>0. N \in Nat /\ C \in Nat
  BY DEF Adds
<1>1. /\ c \in Seq(Nat) /\ x \in Seq(Seq(Nat)) /\ DecodeTls(r \o c).msgs = x
      /\ Garbage(DecodeTls(r \o c).rest)
      /\ \A j \in 0 .. C : j # C => DecodeTls(r \o SubSeq(c, 1, j)).msgs = <<>>
  BY DEF Adds
<1>2. /\ w \o c \in Seq(Nat) /\ Len(w \o c) = Len(w) + Len(c)
      /\ \A n \in 0 .. Len(w) : Ahead(b, g, w \o c, n) = Ahead(b, g, w, n)
      /\ \A j \in 0 .. Len(c) : Ahead(b, g, w \o c, Len(w) + j) =
           Ahead(b, g, w, Len(w)) \o DecodeTls(r \o SubSeq(c, 1, j)).msgs
      /\ DecodeTls(b \o (w \o c)).rest = DecodeTls(r \o c).rest
  <2>1. c \in Seq(Nat)
    BY <1>1
  <2>2. \A q : q = DecodeTls(b \o w).rest =>
          /\ w \o c \in Seq(Nat) /\ Len(w \o c) = Len(w) + Len(c)
          /\ \A n \in 0 .. Len(w) : Ahead(b, g, w \o c, n) = Ahead(b, g, w, n)
          /\ \A j \in 0 .. Len(c) : Ahead(b, g, w \o c, Len(w) + j) =
               Ahead(b, g, w, Len(w)) \o DecodeTls(q \o SubSeq(c, 1, j)).msgs
          /\ DecodeTls(b \o (w \o c)).rest = DecodeTls(q \o c).rest
    BY ONLY <2>1, Longer, b \in Seq(Nat), g \in Seq(Seq(Nat)), w \in Seq(Nat)
  <2> QED
    BY ONLY <2>2, r = DecodeTls(b \o w).rest, Zenon
<1>3. /\ u \in Seq(Nat) /\ Len(u) = N + C
      /\ \A n \in 0 .. N : Ahead(b, g, u, n) = Ahead(b, g, w, n)
      /\ \A j \in 0 .. C : Ahead(b, g, u, N + j) =
           Ahead(b, g, w, N) \o DecodeTls(r \o SubSeq(c, 1, j)).msgs
      /\ DecodeTls(b \o u).rest = DecodeTls(r \o c).rest
  BY ONLY <1>2, u = w \o c /\ N = Len(w) /\ C = Len(c), Zenon
<1>4. PICK a \in Seq(Seq(Nat)) : a = Ahead(b, g, w, N)
  <2>1. N \in 0 .. Len(w)
    BY <1>0
  <2> QED
    BY <2>1, AheadTyped
<1>5. Ahead(b, g, u, N + C) = a \o x
  <2>1. C \in 0 .. C
    BY ONLY <1>0
  <2>2. SubSeq(c, 1, C) = c
    BY <1>1
  <2> QED
    BY ONLY <1>1, <1>3, <1>4, <2>1, <2>2, Zenon
<1>6. ASSUME NEW n \in 0 .. N + C, n # N + C
      PROVE  Ahead(b, g, u, n) = Ahead(b, g, w, IF n <= N THEN n ELSE N)
  <2>1. CASE n <= N
    <3>1. n \in 0 .. N
      BY ONLY <2>1, n \in 0 .. N + C, <1>0
    <3> QED
      BY ONLY <1>3, <2>1, <3>1, Zenon
  <2>2. CASE ~(n <= N)
    <3>1. PICK j \in 0 .. C : n = N + j /\ j # C
      <4>1. n - N \in 0 .. C /\ n = N + (n - N) /\ n - N # C
        BY ONLY <1>6, <2>2, n \in 0 .. N + C, <1>0
      <4> QED
        BY ONLY <4>1
    <3>2. a \o <<>> = a
      OBVIOUS
    <3>3. Ahead(b, g, u, n) = a \o <<>>
      BY ONLY <1>1, <1>3, <1>4, <3>1, Zenon
    <3> QED
      BY ONLY <1>4, <2>2, <3>2, <3>3, Zenon
  <2> QED
    BY <2>1, <2>2
<1> QED
  BY ONLY <1>1, <1>3, <1>4, <1>5, <1>6, u = w \o c /\ N = Len(w) /\ C = Len(c), Zenon

LEMMA HoldsMore ==
  ASSUME NEW a \in Seq(Seq(Nat)), NEW x \in Seq(Seq(Nat))
  PROVE  /\ \A m : Holds(a, m) => Holds(a \o x, m)
         /\ \A m : x = <<m>> => Holds(a \o x, m)
<1>1. PICK u : u = a \o x
  OBVIOUS
<1>2. /\ Len(u) = Len(a) + Len(x) /\ \A i \in 1 .. Len(a) : u[i] = a[i]
      /\ \A i \in 1 .. Len(x) : u[Len(a) + i] = x[i]
  BY <1>1
<1>3. ASSUME NEW m, Holds(a, m) PROVE Holds(u, m)
  <2>1. PICK i \in 1 .. Len(a) : a[i] = m
    BY <1>3 DEF Holds
  <2>2. i \in 1 .. Len(u) /\ u[i] = m
    BY <1>2, <2>1
  <2> QED
    BY <2>2 DEF Holds
<1>4. ASSUME NEW m, x = <<m>> PROVE Holds(u, m)
  <2>1. Len(x) = 1 /\ x[1] = m
    BY <1>4
  <2>2. Len(a) + 1 \in 1 .. Len(u) /\ u[Len(a) + 1] = m
    BY <1>2, <2>1
  <2> QED
    BY <2>2 DEF Holds
<1> QED
  BY <1>1, <1>3, <1>4

\* The messages a thing brings.
Brings(k, x) == IF x.what = "message" THEN <<Payload(k, x.size)>> ELSE <<>>

\* One more thing is sent, x with the bytes c, after the k things s.
Sending(b, w, c, x, r, u, s, t, k, after, after2) ==
  /\ r = DecodeTls(b \o w).rest /\ u = w \o c /\ x \in Things /\ t = Append(s, x)
  /\ k = Len(s) /\ Adds(r, c, Brings(k + 1, x))
  /\ \A i \in 1 .. k : after2[i] = after[i] + Len(c)
  /\ after2[k + 1] = 0

\* Of x nothing is known but that it is decoded as it should be if nothing before it
\* is loose garbage.
SendingAny(b, w, c, x, r, u, s, t, k, after, after2) ==
  /\ r = DecodeTls(b \o w).rest /\ u = w \o c /\ x \in Things /\ t = Append(s, x)
  /\ k = Len(s) /\ c \in Seq(Nat)
  /\ Calm(s, k) /\ x.what = "message" => Adds(r, c, Brings(k + 1, x))
  /\ \A i \in 1 .. k : after2[i] = after[i] + Len(c)
  /\ after2[k + 1] = 0

LEMMA DueKeeps ==
  ASSUME NEW b \in Seq(Nat), NEW g \in Seq(Seq(Nat)), NEW w \in Seq(Nat), NEW c, NEW x,
         NEW r, NEW u, NEW s \in Seq(Things), NEW t, NEW k \in Nat,
         NEW after \in [1 .. k -> Nat], NEW after2 \in [1 .. k + 1 -> Nat],
         SendingAny(b, w, c, x, r, u, s, t, k, after, after2),
         DueAt(b, g, w, s, after)
  PROVE  DueAt(b, g, u, t, after2)
<1>00. /\ r = DecodeTls(b \o w).rest /\ u = w \o c /\ x \in Things /\ t = Append(s, x)
       /\ k = Len(s) /\ c \in Seq(Nat)
       /\ Calm(s, k) /\ x.what = "message" => Adds(r, c, Brings(k + 1, x))
       /\ \A i \in 1 .. k : after2[i] = after[i] + Len(c)
       /\ after2[k + 1] = 0
  BY Zenon DEF SendingAny
<1>1. Len(t) = k + 1 /\ t[k + 1] = x /\ \A i \in 1 .. k : t[i] = s[i]
  BY <1>00
<1>2. PICK N \in Nat, C \in Nat : N = Len(w) /\ C = Len(c)
  BY <1>00
<1>3. /\ u \in Seq(Nat) /\ Len(u) = N + C
      /\ \A n \in 0 .. N : Ahead(b, g, u, n) = Ahead(b, g, w, n)
      /\ \A j \in 0 .. C : Ahead(b, g, u, N + j) =
           Ahead(b, g, w, N) \o DecodeTls(r \o SubSeq(c, 1, j)).msgs
  <2>1. c \in Seq(Nat)
    BY ONLY <1>00
  <2>2. \A q : q = DecodeTls(b \o w).rest =>
          /\ w \o c \in Seq(Nat) /\ Len(w \o c) = Len(w) + Len(c)
          /\ \A n \in 0 .. Len(w) : Ahead(b, g, w \o c, n) = Ahead(b, g, w, n)
          /\ \A j \in 0 .. Len(c) : Ahead(b, g, w \o c, Len(w) + j) =
               Ahead(b, g, w, Len(w)) \o DecodeTls(q \o SubSeq(c, 1, j)).msgs
          /\ DecodeTls(b \o (w \o c)).rest = DecodeTls(q \o c).rest
    BY ONLY <2>1, Longer, b \in Seq(Nat), g \in Seq(Seq(Nat)), w \in Seq(Nat)
  <2> QED
    BY ONLY <1>00, <1>2, <2>2, Zenon
<1>4. PICK a \in Seq(Seq(Nat)) : a = Ahead(b, g, w, N)
  <2>1. N \in 0 .. Len(w)
    BY <1>2
  <2> QED
    BY <2>1, AheadTyped
<1>5. ASSUME NEW i \in 1 .. k + 1, NEW n \in 0 .. N + C, t[i].what = "message",
             Calm(t, i - 1), N + C <= after2[i] + n
      PROVE  Holds(Ahead(b, g, u, n), Payload(i, t[i].size))
  <2>1. CASE i = k + 1
    <3>1. n = N + C
      <4>1. after2[i] = 0
        BY ONLY <1>00, <2>1
      <4> QED
        BY ONLY <1>5, <4>1, n \in 0 .. N + C, N \in Nat, C \in Nat
    <3>2. t[i] = x
      BY ONLY <1>1, <2>1
    <3>3. Calm(s, k)
      <4>1. i - 1 = k
        BY ONLY <2>1, k \in Nat
      <4> QED
        BY ONLY <1>1, <1>5, <4>1, Zenon DEF Calm
    <3>4. PICK m : m = Brings(k + 1, x)
      OBVIOUS
    <3>5. m \in Seq(Seq(Nat)) /\ DecodeTls(r \o c).msgs = m
      <4>1. Adds(r, c, m)
        BY ONLY <1>00, <1>5, <3>2, <3>3, <3>4, Zenon
      <4> QED
        BY ONLY <4>1, Zenon DEF Adds
    <3>6. m = <<Payload(i, t[i].size)>>
      BY ONLY <1>5, <2>1, <3>2, <3>4, Zenon DEF Brings
    <3>7. Ahead(b, g, u, N + C) = a \o m
      <4>1. C \in 0 .. C /\ SubSeq(c, 1, C) = c
        BY ONLY <1>00, <1>2, C \in Nat
      <4> QED
        BY ONLY <1>3, <1>4, <3>5, <4>1, Zenon
    <3>8. Holds(a \o m, Payload(i, t[i].size))
      <4>1. \A q : m = <<q>> => Holds(a \o m, q)
        BY ONLY <3>5, HoldsMore, a \in Seq(Seq(Nat)), Zenon
      <4> QED
        BY ONLY <3>6, <4>1, Zenon
    <3> QED
      BY ONLY <3>1, <3>7, <3>8, Zenon
  <2>2. CASE i # k + 1
    <3>1. i \in 1 .. k
      BY ONLY <2>2, k \in Nat, i \in 1 .. k + 1
    <3>2. PICK z \in Nat : z = after[i]
      BY ONLY <3>1, after \in [1 .. k -> Nat]
    <3>3. N <= z + n
      <4>1. after2[i] = z + C
        BY ONLY <1>00, <1>2, <3>1, <3>2, Zenon
      <4> QED
        BY ONLY <1>5, <4>1, N \in Nat, C \in Nat, z \in Nat, n \in 0 .. N + C
    <3>4. t[i] = s[i] /\ Calm(s, i - 1)
      <4>1. \A j \in 1 .. i - 1 : j \in 1 .. k
        BY ONLY <3>1, k \in Nat
      <4> QED
        BY ONLY <1>1, <1>5, <3>1, <4>1, Zenon DEF Calm
    <3>5. ASSUME NEW p \in 0 .. N, N <= z + p
          PROVE  Holds(Ahead(b, g, w, p), Payload(i, t[i].size))
      <4>1. i \in 1 .. Len(s) /\ p \in 0 .. Len(w) /\ Len(w) <= after[i] + p
        BY ONLY <1>2, <3>1, <3>2, <3>5, <1>00, Zenon
      <4>2. s[i].what = "message"
        BY ONLY <1>5, <3>4
      <4> QED
        BY ONLY <3>4, <4>1, <4>2, DueAt(b, g, w, s, after), Zenon DEF DueAt
    <3>6. CASE n <= N
      <4>1. n \in 0 .. N
        BY ONLY <3>6, N \in Nat, n \in 0 .. N + C, C \in Nat
      <4> QED
        BY ONLY <1>3, <3>3, <3>5, <4>1, Zenon
    <3>7. CASE ~ (n <= N)
      <4>1. PICK j \in 0 .. C : n = N + j
        <5>1. n - N \in 0 .. C /\ n = N + (n - N)
          BY ONLY <3>7, N \in Nat, n \in 0 .. N + C, C \in Nat
        <5> QED
          BY ONLY <5>1
      <4>2. Holds(a, Payload(i, t[i].size))
        <5>1. N \in 0 .. N /\ N <= z + N
          BY ONLY N \in Nat, z \in Nat
        <5> QED
          BY ONLY <1>4, <3>5, <5>1, Zenon
      <4>3. PICK y \in Seq(Seq(Nat)) : y = DecodeTls(r \o SubSeq(c, 1, j)).msgs
        <5>1. r \in Seq(Nat)
          <6>1. b \o w \in Seq(Nat)
            OBVIOUS
          <6> QED
            BY <1>00, <6>1, DecodeTyped DEF Result
        <5>2. j \in 0 .. Len(c) /\ c \in Seq(Nat)
          BY ONLY <1>00, <1>2
        <5>3. SubSeq(c, 1, j) \in Seq(Nat)
          BY <5>2, Split
        <5>4. r \o SubSeq(c, 1, j) \in Seq(Nat)
          BY ONLY <5>1, <5>3
        <5> QED
          BY <5>4, DecodeTyped DEF Result
      <4>4. Ahead(b, g, u, n) = a \o y
        BY ONLY <1>3, <1>4, <4>1, <4>3, Zenon
      <4>5. Holds(a \o y, Payload(i, t[i].size))
        BY ONLY <4>2, HoldsMore, a \in Seq(Seq(Nat)), y \in Seq(Seq(Nat)), ZenonT(60)
      <4> QED
        BY ONLY <4>4, <4>5, Zenon
    <3> QED
      BY <3>6, <3>7
  <2> QED
    BY <2>1, <2>2
<1> QED
  BY ONLY <1>1, <1>3, <1>5, Zenon DEF DueAt

Sourced(b, g, w, s, after) == \E K : OriginAt(b, g, w, s, after, K)

LEMMA OriginKeeps ==
  ASSUME NEW b \in Seq(Nat), NEW g \in Seq(Seq(Nat)), NEW w \in Seq(Nat), NEW c, NEW x,
         NEW r, NEW u, NEW s \in Seq(Things), NEW t, NEW k \in Nat,
         NEW after \in [1 .. k -> Nat], NEW after2 \in [1 .. k + 1 -> Nat],
         Sending(b, w, c, x, r, u, s, t, k, after, after2)
  PROVE  Sourced(b, g, w, s, after) => Sourced(b, g, u, t, after2)
<1> SUFFICES ASSUME NEW K, OriginAt(b, g, w, s, after, K)
             PROVE  \E K2 : OriginAt(b, g, u, t, after2, K2)
  BY Zenon DEF Sourced
<1>00. /\ r = DecodeTls(b \o w).rest /\ u = w \o c /\ x \in Things /\ t = Append(s, x)
       /\ k = Len(s) /\ Adds(r, c, Brings(k + 1, x))
       /\ \A i \in 1 .. k : after2[i] = after[i] + Len(c)
       /\ after2[k + 1] = 0
  BY Zenon DEF Sending
<1>1. Len(t) = k + 1 /\ t[k + 1] = x /\ \A i \in 1 .. k : t[i] = s[i]
  BY <1>00
<1>2. PICK N \in Nat, C \in Nat : N = Len(w) /\ C = Len(c)
  BY <1>00 DEF Adds
<1>3. PICK m : m = Brings(k + 1, x)
  OBVIOUS
<1>4. /\ u \in Seq(Nat) /\ Len(u) = N + C
      /\ Ahead(b, g, w, N) \in Seq(Seq(Nat)) /\ m \in Seq(Seq(Nat))
      /\ Ahead(b, g, u, N + C) = Ahead(b, g, w, N) \o m
      /\ \A n \in 0 .. N + C : n # N + C =>
           Ahead(b, g, u, n) = Ahead(b, g, w, IF n <= N THEN n ELSE N)
      /\ Garbage(DecodeTls(b \o u).rest)
  <2>1. Adds(DecodeTls(b \o w).rest, c, m)
    BY <1>3, <1>00, Zenon
  <2>2. u = w \o c /\ N = Len(w) /\ C = Len(c)
    BY <1>2, <1>00
  <2>3. /\ w \o c \in Seq(Nat) /\ Len(w \o c) = Len(w) + Len(c)
        /\ Ahead(b, g, w, Len(w)) \in Seq(Seq(Nat)) /\ m \in Seq(Seq(Nat))
        /\ Ahead(b, g, w \o c, Len(w) + Len(c)) = Ahead(b, g, w, Len(w)) \o m
        /\ \A n \in 0 .. Len(w) + Len(c) : n # Len(w) + Len(c) =>
             Ahead(b, g, w \o c, n) = Ahead(b, g, w, IF n <= Len(w) THEN n ELSE Len(w))
        /\ Garbage(DecodeTls(b \o (w \o c)).rest)
    BY ONLY <2>1, LongerAhead, b \in Seq(Nat), g \in Seq(Seq(Nat)), w \in Seq(Nat), Zenon
  <2> QED
    BY ONLY <2>2, <2>3, Zenon
<1>0. m \in Seq(Seq(Nat))
  BY <1>4
<1>5. PICK a \in Seq(Seq(Nat)) : a = Ahead(b, g, w, N)
  BY <1>4
<1>6. PICK L \in Nat : L = Len(a)
  OBVIOUS
<1>7. /\ K \in [1 .. L -> 1 .. k]
      /\ \A i \in 1 .. L : s[K[i]].what = "message" /\ a[i] = Payload(K[i], s[K[i]].size)
      /\ \A i, j \in 1 .. L : i < j => K[i] < K[j]
      /\ \A n \in 0 .. N : \A i \in 1 .. Len(Ahead(b, g, w, n)) :
           /\ i \in 1 .. L
           /\ Ahead(b, g, w, n)[i] = a[i]
           /\ N <= after[K[i]] + n
  BY ONLY <1>2, <1>5, <1>6, <1>00, OriginAt(b, g, w, s, after, K), Zenon DEF OriginAt
<1>8. PICK y : y = a \o m
  OBVIOUS
<1>9. /\ Len(y) = L + Len(m) /\ \A i \in 1 .. L : y[i] = a[i]
      /\ \A i \in 1 .. Len(m) : y[L + i] = m[i]
  BY ONLY <1>0, <1>6, <1>8, a \in Seq(Seq(Nat))
<1>10. /\ x.what = "message" => Len(m) = 1 /\ m[1] = Payload(k + 1, x.size)
       /\ x.what # "message" => Len(m) = 0
  BY ONLY <1>3 DEF Brings
<1>11. PICK M \in Nat : M = Len(y)
  BY ONLY <1>9, <1>10, L \in Nat
\* A message that will be decoded is one of those there were, or the one that is sent.
<1>12. ASSUME NEW i \in 1 .. M
       PROVE  \/ i \in 1 .. L /\ i <= L
              \/ i = L + 1 /\ ~(i <= L) /\ x.what = "message" /\ y[i] = Payload(k + 1, x.size)
  <2>1. CASE i <= L
    BY ONLY <2>1, i \in 1 .. M, M \in Nat, L \in Nat
  <2>2. CASE ~(i <= L)
    <3>1. Len(m) = 1 /\ x.what = "message" /\ m[1] = Payload(k + 1, x.size)
      BY ONLY <1>9, <1>10, <1>11, <2>2, i \in 1 .. M, L \in Nat
    <3>2. i = L + 1
      BY ONLY <1>9, <1>11, <2>2, <3>1, i \in 1 .. M, L \in Nat
    <3>3. y[L + 1] = m[1]
      BY ONLY <1>9, <3>1
    <3> QED
      BY ONLY <2>2, <3>1, <3>2, <3>3, Zenon
  <2> QED
    BY <2>1, <2>2
<1>13. \A i \in 1 .. L : i \in 1 .. M /\ i <= L
  BY ONLY <1>9, <1>10, <1>11, L \in Nat
<1>14. PICK K2 : K2 = [i \in 1 .. M |-> IF i <= L THEN K[i] ELSE k + 1]
  OBVIOUS
<1>15. /\ \A i \in 1 .. L : K2[i] = K[i]
       /\ \A i \in 1 .. M : ~(i <= L) => K2[i] = k + 1
  BY ONLY <1>13, <1>14, Zenon
<1>16. \A i \in 1 .. L : K[i] \in 1 .. k /\ K[i] \in 1 .. k + 1
  <2>1. \A i \in 1 .. k : i \in 1 .. k + 1
    BY ONLY k \in Nat
  <2>2. K \in [1 .. L -> 1 .. k]
    BY ONLY <1>7, Zenon
  <2> QED
    BY ONLY <2>1, <2>2
<1>17. K2 \in [1 .. M -> 1 .. k + 1]
  <2>1. \A i \in 1 .. M : (IF i <= L THEN K[i] ELSE k + 1) \in 1 .. k + 1
    <3>1. ASSUME NEW i \in 1 .. M PROVE (IF i <= L THEN K[i] ELSE k + 1) \in 1 .. k + 1
      <4>1. k + 1 \in 1 .. k + 1
        BY ONLY k \in Nat
      <4> QED
        BY ONLY <1>12, <1>16, <4>1, i \in 1 .. M, Zenon
    <3> QED
      BY <3>1
  <2> QED
    BY ONLY <1>14, <2>1
<1>18. ASSUME NEW i \in 1 .. M
       PROVE  t[K2[i]].what = "message" /\ y[i] = Payload(K2[i], t[K2[i]].size)
  <2>1. CASE i \in 1 .. L
    <3>1. K2[i] = K[i] /\ t[K[i]] = s[K[i]] /\ y[i] = a[i]
      BY ONLY <1>1, <1>9, <1>15, <1>16, <2>1, Zenon
    <3> QED
      BY ONLY <1>7, <2>1, <3>1, Zenon
  <2>2. CASE ~(i \in 1 .. L)
    <3>1. ~(i <= L) /\ x.what = "message" /\ y[i] = Payload(k + 1, x.size)
      BY ONLY <1>12, <2>2, i \in 1 .. M, Zenon
    <3>2. K2[i] = k + 1 /\ t[k + 1] = x
      BY ONLY <1>1, <1>15, <3>1, i \in 1 .. M, Zenon
    <3> QED
      BY ONLY <3>1, <3>2, Zenon
  <2> QED
    BY <2>1, <2>2
<1>19. ASSUME NEW i \in 1 .. M, NEW j \in 1 .. M, i < j PROVE K2[i] < K2[j]
  <2>1. i \in 1 .. L
    <3>1. j \in 1 .. L \/ j = L + 1
      BY <1>12
    <3> QED
      BY ONLY <1>19, <3>1, i \in 1 .. M, j \in 1 .. M, M \in Nat, L \in Nat
  <2>2. K2[i] = K[i]
    BY ONLY <1>15, <2>1, Zenon
  <2>3. CASE j \in 1 .. L
    BY ONLY <1>7, <1>15, <1>19, <2>1, <2>3, Zenon
  <2>4. CASE ~(j \in 1 .. L)
    <3>1. K2[j] = k + 1
      BY ONLY <1>12, <1>15, <2>4, j \in 1 .. M, Zenon
    <3>2. PICK z \in 1 .. k : z = K[i]
      BY ONLY <1>16, <2>1
    <3>3. z < k + 1
      BY ONLY k \in Nat, z \in 1 .. k
    <3> QED
      BY ONLY <2>2, <3>1, <3>2, <3>3, Zenon
  <2> QED
    BY <2>3, <2>4
<1>20. ASSUME NEW n \in 0 .. N + C, NEW i \in 1 .. Len(Ahead(b, g, u, n))
       PROVE  /\ i \in 1 .. M /\ Ahead(b, g, u, n)[i] = y[i]
              /\ N + C <= after2[K2[i]] + n
  <2>1. CASE n = N + C
    <3>1. Ahead(b, g, u, n) = y
      BY ONLY <1>4, <1>5, <1>8, <2>1, Zenon
    <3>2. i \in 1 .. M
      BY ONLY <1>11, <3>1, i \in 1 .. Len(Ahead(b, g, u, n)), Zenon
    <3>3. PICK z \in Nat : z = after2[K2[i]]
      BY ONLY <1>17, <3>2, after2 \in [1 .. k + 1 -> Nat]
    <3>4. N + C <= z + n
      BY ONLY <2>1, N \in Nat, C \in Nat, z \in Nat
    <3> QED
      BY ONLY <3>1, <3>2, <3>3, <3>4, Zenon
  <2>2. CASE n # N + C
    <3>1. PICK p \in 0 .. N : p = (IF n <= N THEN n ELSE N)
      <4>1. (IF n <= N THEN n ELSE N) \in 0 .. N
        BY ONLY N \in Nat, C \in Nat, n \in 0 .. N + C
      <4> QED
        BY ONLY <4>1
    <3>2. Ahead(b, g, u, n) = Ahead(b, g, w, p)
      BY ONLY <1>4, <2>2, <3>1, n \in 0 .. N + C, Zenon
    <3>3. i \in 1 .. Len(Ahead(b, g, w, p))
      BY ONLY <3>2, i \in 1 .. Len(Ahead(b, g, u, n)), Zenon
    <3>4. i \in 1 .. L /\ Ahead(b, g, w, p)[i] = a[i] /\ N <= after[K[i]] + p
      BY ONLY <1>7, <3>3, p \in 0 .. N, Zenon
    <3>5. i \in 1 .. M /\ y[i] = a[i] /\ K2[i] = K[i]
      BY ONLY <1>9, <1>13, <1>15, <3>4, Zenon
    <3>6. PICK z \in Nat : z = after[K[i]]
      BY ONLY <1>16, <3>4, after \in [1 .. k -> Nat]
    <3>7. after2[K[i]] = z + C
      BY ONLY <1>2, <1>16, <3>4, <3>6, <1>00, Zenon
    <3>8. N + C <= (z + C) + n
      <4>1. N <= z + p
        BY ONLY <3>4, <3>6, Zenon
      <4> QED
        BY ONLY <3>1, <4>1, N \in Nat, C \in Nat, z \in Nat, n \in 0 .. N + C
    <3> QED
      BY ONLY <3>2, <3>4, <3>5, <3>7, <3>8, Zenon
  <2> QED
    BY <2>1, <2>2
<1>21. Ahead(b, g, u, Len(u)) = y
  BY ONLY <1>4, <1>5, <1>8, Zenon
<1>22. OriginAt(b, g, u, t, after2, K2)
  BY ONLY <1>1, <1>4, <1>11, <1>17, <1>18, <1>19, <1>20, <1>21, ZenonT(60) DEF OriginAt
<1> QED
  BY <1>22

After == [k \in 1 .. Len(sent) |-> Behind(k)]

Due == DueAt(buf, got, wire, sent, After)
Origin(K) == OriginAt(buf, got, wire, sent, After, K)

\* If no loose garbage was sent, what is decoded has its origin in what was sent.
Traced == Calm(sent, Len(sent)) => \E K : Origin(K)

TlsInv == family = "tls" => Connection /\ Settled /\ Clean /\ Due /\ Traced

LEMMA BehindSame ==
  ASSUME sent' = sent, family' = family, NEW k
  PROVE  Behind(k)' = Behind(k)
<1> DEFINE a == [i \in 1 .. Len(sent) - k |-> Bytes(k + i, sent[k + i])]
<1>1. ASSUME NEW i PROVE (Bytes(k + i, sent[k + i]))' = Bytes(k + i, sent[k + i])
  BY DEF Bytes, Encode
<1>2. a' = [i \in 1 .. Len(sent) - k |-> (Bytes(k + i, sent[k + i]))']
  BY ONLY sent' = sent, Zenon
<1>3. [i \in 1 .. Len(sent) - k |-> (Bytes(k + i, sent[k + i]))'] = a
  BY ONLY <1>1
<1>4. Behind(k)' = Len(FlattenSeq(a'))
  BY DEF Behind
<1>5. Behind(k) = Len(FlattenSeq(a))
  BY DEF Behind
<1> QED
  BY ONLY <1>2, <1>3, <1>4, <1>5

LEMMA InitTls == Init => TlsInv
<1> SUFFICES ASSUME Init, family = "tls"
             PROVE  Connection /\ Settled /\ Clean /\ Due /\ Traced
  BY DEF TlsInv
<1>1. sent = <<>> /\ wire = <<>> /\ buf = <<>> /\ got = <<>>
  BY DEF Init
<1>2. Connection
  BY <1>1 DEF Connection
<1>3. PICK e : e = <<>>
  OBVIOUS
<1>0. e \in Seq(Nat) /\ Len(e) = 0 /\ e \o e = e /\ SubSeq(e, 1, 0) = e
  BY <1>3
<1>4. PICK f : Decoding(e, f) /\ DecodeTls(e) = f[1]
  BY <1>0, Decoded
<1>5. f[1] = [msgs |-> <<>>, rest |-> <<>>]
  <2>1. 1 \in 1 .. Len(e) + 1 /\ CutOff(e, 1) /\ SubSeq(e, 1, Len(e)) = <<>>
    BY <1>0, <1>3 DEF CutOff
  <2>2. f[1] = Scan(e, f, 1)
    BY <1>4, <2>1 DEF Decoding
  <2> QED
    BY <2>1, <2>2 DEF Scan
<1>6. DecodeTls(<<>>) = [msgs |-> <<>>, rest |-> <<>>]
  BY <1>3, <1>4, <1>5
<1>7. Settled
  BY <1>1, <1>6, Limits DEF Settled
<1>8. Clean
  BY <1>0, <1>1, <1>3, <1>6 DEF Clean, Garbage
<1>9. Due
  BY <1>1 DEF Due, DueAt
<1>10. Ahead(buf, got, wire, 0) = e
  <2>1. e \o SubSeq(e, 1, 0) = e /\ DecodeTls(e).msgs = e
    BY <1>0, <1>3, <1>6
  <2> QED
    BY <1>0, <1>1, <1>3, <2>1 DEF Ahead
<1>11. Origin(<<>>)
  <2>1. Len(wire) = 0 /\ Len(sent) = 0 /\ Len(e) = 0 /\ 1 .. 0 = {} /\ 0 .. 0 = {0}
    BY <1>0, <1>1
  <2>2. <<>> \in [1 .. 0 -> 1 .. 0]
    BY <2>1
  <2> QED
    BY <1>10, <2>1, <2>2 DEF Origin, OriginAt
<1> QED
  BY <1>2, <1>7, <1>8, <1>9, <1>11 DEF Traced

LEMMA ReceiveTls ==
  ASSUME family = "tls", Connection, Clean, Due, Traced,
         NEW m \in 1 .. MaxChunk, Receive(m)
  PROVE  Connection' /\ Settled' /\ Clean' /\ Due' /\ Traced'
<1>1. PICK b \in Seq(Nat), g \in Seq(Seq(Nat)), w \in Seq(Nat) :
        b = buf /\ g = got /\ w = wire
  BY DEF Connection
<1>2. m \in 0 .. Len(w) /\ MaxChunk \in Nat
  <2>1. MaxChunk \in Nat
    BY FramingAssumption
  <2> QED
    BY <1>1, <2>1 DEF Receive
<1>3. PICK d : d = DecodeTls(b \o SubSeq(w, 1, m))
  OBVIOUS
<1>4. d \in Result /\ d.msgs \in Seq(Seq(Nat)) /\ d.rest \in Seq(Nat)
  BY <1>2, <1>3, AheadTyped, DecodeTyped
<1>5. PICK v : v = SubSeq(w, m + 1, Len(w))
  OBVIOUS
<1>6. buf' = d.rest /\ got' = g \o d.msgs /\ wire' = v /\ sent' = sent /\ family' = family
  BY <1>1, <1>3, <1>5 DEF Receive
<1>7. v \in Seq(Nat) /\ DecodeTls(d.rest \o v).rest = DecodeTls(b \o w).rest
  <2>1. \A e, u :
          e = DecodeTls(b \o SubSeq(w, 1, m)) /\ u = SubSeq(w, m + 1, Len(w)) =>
            /\ u \in Seq(Nat) /\ Len(u) = Len(w) - m
            /\ \A n \in 0 .. Len(u) :
                 Ahead(e.rest, g \o e.msgs, u, n) = Ahead(b, g, w, m + n)
            /\ DecodeTls(e.rest \o u).rest = DecodeTls(b \o w).rest
    BY ONLY <1>2, Taken, b \in Seq(Nat), g \in Seq(Seq(Nat)), w \in Seq(Nat), ZenonT(60)
  <2> QED
    BY ONLY <1>3, <1>5, <2>1, Zenon
<1>8. Connection'
  BY <1>1, <1>4, <1>6, <1>7 DEF Connection
<1>9. Settled'
  <2>1. b \o SubSeq(w, 1, m) \in Seq(Nat)
    BY <1>2, AheadTyped
  <2>2. Len(d.rest) <= MaxFrame + 3 /\ DecodeTls(d.rest) = [msgs |-> <<>>, rest |-> d.rest]
    BY <1>3, <2>1, Remainder
  <2> QED
    BY <1>6, <2>2 DEF Settled
<1>10. Clean'
  <2>1. Calm(sent, Len(sent)) => Garbage(DecodeTls(d.rest \o v).rest)
    BY <1>1, <1>7, Zenon DEF Clean
  <2> QED
    BY <1>6, <2>1 DEF Clean
<1>11. PICK after \in [1 .. Len(sent) -> Nat] : after = After
  BY BehindFacts DEF Connection, After
<1>12. After' = after
  <2>1. \A k : Behind(k)' = Behind(k)
    BY <1>6, BehindSame
  <2> QED
    BY <1>6, <1>11, <2>1 DEF After
<1>13. /\ DueAt(b, g, w, sent, after) => DueAt(d.rest, g \o d.msgs, v, sent, after)
       /\ \A K : OriginAt(b, g, w, sent, after, K) =>
                    OriginAt(d.rest, g \o d.msgs, v, sent, after, K)
  BY <1>2, <1>3, <1>5, TakenKeeps, Zenon
<1>14. Due'
  <2>1. DueAt(b, g, w, sent, after)
    BY <1>1, <1>11 DEF Due
  <2> QED
    BY <1>6, <1>12, <1>13, <2>1 DEF Due
<1>15. Traced'
  <2> SUFFICES ASSUME Calm(sent, Len(sent)) PROVE \E K : Origin(K)'
    BY <1>6 DEF Traced
  <2>1. PICK K : Origin(K)
    BY DEF Traced
  <2>2. OriginAt(b, g, w, sent, after, K)
    BY <1>1, <1>11, <2>1 DEF Origin
  <2>3. Origin(K)'
    BY <1>6, <1>12, <1>13, <2>2 DEF Origin
  <2> QED
    BY <2>3
<1> QED
  BY <1>8, <1>9, <1>10, <1>14, <1>15

LEMMA SendTls ==
  ASSUME family = "tls", Connection, Settled, Clean, Due, Traced,
         NEW x \in Things, Send(x)
  PROVE  Connection' /\ Settled' /\ Clean' /\ Due' /\ Traced'
<1>1. PICK b \in Seq(Nat), g \in Seq(Seq(Nat)), w \in Seq(Nat), s \in Seq(Things) :
        b = buf /\ g = got /\ w = wire /\ s = sent
  BY DEF Connection
<1>2. PICK N \in Nat : N = Len(s)
  OBVIOUS
<1>3. PICK t : t = Append(s, x)
  OBVIOUS
<1>4. t \in Seq(Things) /\ Len(t) = N + 1 /\ t[N + 1] = x /\ \A i \in 1 .. N : t[i] = s[i]
  BY ONLY <1>2, <1>3, s \in Seq(Things), x \in Things
<1>5. PICK c : c = Bytes(N + 1, x)
  OBVIOUS
<1>6. sent' = t /\ wire' = w \o c /\ buf' = b /\ got' = g /\ family' = family
  <2>1. /\ sent' = Append(s, x) /\ wire' = w \o Bytes(Len(sent'), x)
        /\ buf' = b /\ got' = g /\ family' = family
    BY <1>1 DEF Send
  <2>2. Len(sent') = N + 1
    BY ONLY <1>3, <1>4, <2>1
  <2> QED
    BY ONLY <1>3, <1>5, <2>1, <2>2, Zenon
<1>7. Sendable(x)
  BY DEF Send, Sendable
<1>8. PICK r \in Seq(Nat) : r = DecodeTls(b \o w).rest
  <2>1. b \o w \in Seq(Nat)
    OBVIOUS
  <2> QED
    BY <2>1, DecodeTyped
<1>9. c \in Seq(Nat)
  <2>1. N + 1 \in Nat
    BY ONLY N \in Nat
  <2> QED
    BY <1>5, <1>7, <2>1, BytesFacts
<1>10. ASSUME Calm(s, N), ~Loose(x) PROVE Adds(r, c, Brings(N + 1, x))
  <2>1. N + 1 \in Nat
    BY ONLY N \in Nat
  <2>3. Garbage(r)
    BY <1>1, <1>2, <1>8, <1>10, Zenon DEF Clean
  <2>2. Adds(r, Bytes(N + 1, x),
             IF x.what = "message" THEN <<Payload(N + 1, x.size)>> ELSE <<>>)
    BY <1>7, <1>10, <2>1, <2>3, ThingAdds, Zenon DEF Sendable
  <2> QED
    BY ONLY <1>5, <2>2, Zenon DEF Brings
<1>11. PICK u : u = w \o c
  OBVIOUS
<1>12. Connection'
  <2>1. \A i \in 1 .. Len(t) : Sendable(t[i])
    <3>1. \A i \in 1 .. N : Sendable(s[i])
      BY <1>1, <1>2 DEF Connection
    <3> QED
      BY <1>4, <1>7, <3>1
  <2>2. w \o c \in Seq(Nat)
    BY <1>9
  <2> QED
    BY <1>4, <1>6, <2>1, <2>2 DEF Connection
<1>13. Settled'
  BY <1>1, <1>6 DEF Settled
<1>23. Calm(t, N + 1) => Calm(s, N) /\ ~Loose(x)
  <2>1. N + 1 \in 1 .. N + 1 /\ \A j \in 1 .. N : j \in 1 .. N + 1
    BY ONLY N \in Nat
  <2> QED
    BY ONLY <1>4, <2>1, Zenon DEF Calm
<1>14. Clean'
  <2> SUFFICES ASSUME Calm(t, N + 1) PROVE Garbage(DecodeTls(b \o (w \o c)).rest)
    BY <1>4, <1>6 DEF Clean
  <2>1. Adds(DecodeTls(b \o w).rest, c, Brings(N + 1, x))
    BY ONLY <1>8, <1>10, <1>23, Calm(t, N + 1), Zenon
  <2>2. PICK m : m = Brings(N + 1, x)
    OBVIOUS
  <2>3. Adds(DecodeTls(b \o w).rest, c, m)
    BY ONLY <2>1, <2>2, Zenon
  <2>4. Garbage(DecodeTls(b \o (w \o c)).rest)
    BY ONLY <2>3, LongerAhead, b \in Seq(Nat), g \in Seq(Seq(Nat)), w \in Seq(Nat), Zenon
  <2> QED
    BY ONLY <2>4
<1>15. PICK after : after = After
  OBVIOUS
<1>16. after \in [1 .. N -> Nat] /\ \A k \in 1 .. N : after[k] = Behind(k)
  BY <1>1, <1>2, <1>15, BehindFacts DEF Connection, After
<1>17. PICK after2 : after2 = After'
  OBVIOUS
<1>18. /\ after2 \in [1 .. N + 1 -> Nat]
       /\ \A k \in 1 .. N : after2[k] = after[k] + Len(c)
       /\ after2[N + 1] = 0
  <2>1. (\A k \in 1 .. N : Behind(k)' = Behind(k) + Len(c)) /\ Behind(N + 1)' = 0
    <3>1. N = Len(sent) /\ sent' = Append(sent, x)
      BY <1>1, <1>2, <1>3, <1>6
    <3> QED
      BY <1>5, <1>6, <1>7, <3>1, BehindSend DEF Connection
  <2>2. after2 = [k \in 1 .. N + 1 |-> Behind(k)']
    BY <1>4, <1>6, <1>17 DEF After
  <2>3. PICK C \in Nat : C = Len(c)
    BY <1>9
  <2>4. ASSUME NEW k \in 1 .. N
        PROVE  k \in 1 .. N + 1 /\ after2[k] = after[k] + C /\ after2[k] \in Nat
    <3>1. k \in 1 .. N + 1
      BY ONLY N \in Nat, k \in 1 .. N
    <3>2. after2[k] = Behind(k)'
      BY ONLY <2>2, <3>1
    <3>3. PICK z \in Nat : z = after[k]
      BY ONLY <1>16, k \in 1 .. N
    <3>4. Behind(k)' = z + C
      BY ONLY <1>16, <2>1, <2>3, <3>3, k \in 1 .. N, Zenon
    <3>5. z + C \in Nat
      BY ONLY z \in Nat, C \in Nat
    <3> QED
      BY ONLY <3>1, <3>2, <3>3, <3>4, <3>5, Zenon
  <2>5. N + 1 \in 1 .. N + 1 /\ after2[N + 1] = 0
    BY ONLY <2>1, <2>2, N \in Nat
  <2>6. \A k \in 1 .. N + 1 : k \in 1 .. N \/ k = N + 1
    BY ONLY N \in Nat
  <2>7. ASSUME NEW k \in 1 .. N + 1 PROVE after2[k] \in Nat
    <3>1. CASE k \in 1 .. N
      BY ONLY <2>4, <3>1, Zenon
    <3>2. CASE k = N + 1
      BY ONLY <2>5, <3>2
    <3> QED
      BY ONLY <2>6, <3>1, <3>2, k \in 1 .. N + 1, Zenon
  <2>8. after2 = [k \in 1 .. N + 1 |-> after2[k]]
    BY ONLY <2>2
  <2>9. after2 \in [1 .. N + 1 -> Nat]
    BY ONLY <2>7, <2>8
  <2> QED
    BY ONLY <2>3, <2>4, <2>5, <2>9, Zenon
<1>0. after \in [1 .. N -> Nat] /\ after2 \in [1 .. N + 1 -> Nat]
  BY <1>16, <1>18
<1>19. SendingAny(b, w, c, x, r, u, s, t, N, after, after2)
  <2>1. x.what = "message" => ~Loose(x)
    BY DEF Loose
  <2> QED
    BY ONLY <1>2, <1>3, <1>8, <1>9, <1>10, <1>11, <1>18, <2>1, x \in Things, Zenon
       DEF SendingAny
<1>20. DueAt(b, g, u, t, after2)
  <2>1. DueAt(b, g, w, s, after)
    BY <1>1, <1>15 DEF Due
  <2> QED
    BY ONLY <1>0, <1>19, <2>1, DueKeeps, b \in Seq(Nat), g \in Seq(Seq(Nat)),
            w \in Seq(Nat), s \in Seq(Things), N \in Nat, Zenon
<1>21. Due'
  BY <1>6, <1>11, <1>17, <1>20 DEF Due
<1>22. Traced'
  <2> SUFFICES ASSUME Calm(t, N + 1) PROVE \E K : Origin(K)'
    BY <1>4, <1>6 DEF Traced
  <2>1. Calm(s, N) /\ ~Loose(x)
    BY ONLY <1>23, Calm(t, N + 1)
  <2>2. Sending(b, w, c, x, r, u, s, t, N, after, after2)
    BY ONLY <1>2, <1>3, <1>8, <1>10, <1>11, <1>18, <2>1, x \in Things, Zenon DEF Sending
  <2>3. Sourced(b, g, w, s, after)
    <3>1. PICK K : Origin(K)
      BY <1>1, <1>2, <2>1 DEF Traced
    <3>2. OriginAt(b, g, w, s, after, K)
      BY <1>1, <1>15, <3>1 DEF Origin
    <3> QED
      BY ONLY <3>2, Zenon DEF Sourced
  <2>4. Sourced(b, g, u, t, after2)
    BY ONLY <1>0, <2>2, <2>3, OriginKeeps, b \in Seq(Nat), g \in Seq(Seq(Nat)),
            w \in Seq(Nat), s \in Seq(Things), N \in Nat, Zenon
  <2>5. PICK K : OriginAt(b, g, u, t, after2, K)
    BY ONLY <2>4, Zenon DEF Sourced
  <2>6. Origin(K)'
    BY <1>6, <1>11, <1>17, <2>5 DEF Origin
  <2> QED
    BY <2>6
<1> QED
  BY <1>12, <1>13, <1>14, <1>21, <1>22

LEMMA StutterTls ==
  ASSUME family = "tls", TlsInv, UNCHANGED vars
  PROVE  TlsInv'
<1>1. sent' = sent /\ wire' = wire /\ buf' = buf /\ got' = got /\ family' = family
  BY DEF vars
<1>2. After' = After
  <2>1. \A k : Behind(k)' = Behind(k)
    BY <1>1, BehindSame
  <2> QED
    BY <1>1, <2>1 DEF After
<1> QED
  BY <1>1, <1>2 DEF TlsInv, Connection, Settled, Clean, Due, Traced, Origin

-----------------------------------------------------------------------------
(* The theorems. *)

\* At a TLS handler: the remainder is less than a frame; a message with no loose garbage
\* before it is decoded as soon as its last byte arrives; and where no loose garbage
\* was sent, nothing else is ever decoded, and when all has arrived nothing is left of
\* which a frame could begin.
THEOREM TlsInvariance == Spec => []TlsInv
<1>1. TlsInv /\ [Next]_vars => TlsInv'
  <2> SUFFICES ASSUME TlsInv, [Next]_vars PROVE TlsInv'
    OBVIOUS
  <2>1. family' = family
    BY DEF Next, Send, Receive, vars
  <2>2. CASE family = "tls"
    <3>1. Connection /\ Settled /\ Clean /\ Due /\ Traced
      BY <2>2 DEF TlsInv
    <3>2. ASSUME NEW x \in Things, Send(x) PROVE TlsInv'
      BY <2>2, <3>1, <3>2, SendTls DEF TlsInv
    <3>3. ASSUME NEW m \in 1 .. MaxChunk, Receive(m) PROVE TlsInv'
      BY <2>2, <3>1, <3>3, ReceiveTls DEF TlsInv
    <3>4. CASE UNCHANGED vars
      BY <2>2, <3>4, StutterTls
    <3> QED
      BY <3>2, <3>3, <3>4 DEF Next
  <2>3. CASE family # "tls"
    BY <2>1, <2>3 DEF TlsInv
  <2> QED
    BY <2>2, <2>3
<1> QED
  BY <1>1, InitTls, PTL DEF Spec

LEMMA AheadNow ==
  ASSUME NEW b \in Seq(Nat), NEW g \in Seq(Seq(Nat)), NEW w \in Seq(Nat),
         DecodeTls(b) = [msgs |-> <<>>, rest |-> b]
  PROVE  Ahead(b, g, w, 0) = g
<1>1. b \o SubSeq(w, 1, 0) = b /\ g \o <<>> = g
  OBVIOUS
<1>2. DecodeTls(b \o SubSeq(w, 1, 0)).msgs = <<>>
  <2>1. DecodeTls(b).msgs = <<>>
    <3>1. PICK d : d = DecodeTls(b)
      OBVIOUS
    <3>2. d = [msgs |-> <<>>, rest |-> b]
      BY <3>1
    <3>3. d.msgs = <<>>
      BY ONLY <3>2
    <3> QED
      BY ONLY <3>1, <3>3, Zenon
  <2> QED
    BY ONLY <1>1, <2>1, Zenon
<1> QED
  BY ONLY <1>1, <1>2 DEF Ahead

\* NothingMissed, of the TLS family: however the stream is cut, every message whose last
\* byte has arrived has been decoded, unless garbage with loose zero bytes was sent
\* before it.
THEOREM TlsNothingMissed == Spec => [](family = "tls" => NothingMissed)
<1>1. TlsInv => (family = "tls" => NothingMissed)
  <2> SUFFICES ASSUME TlsInv, family = "tls" PROVE NothingMissed
    OBVIOUS
  <2>1. Connection /\ Settled /\ Due
    BY DEF TlsInv
  <2>2. Ahead(buf, got, wire, 0) = got
    BY <2>1, AheadNow DEF Connection, Settled
  <2>3. ASSUME NEW k \in DOMAIN sent, sent[k].what = "message", Arrived(k),
               ~ \E j \in 1 .. k - 1 : Loose(sent[j])
        PROVE  \E i \in DOMAIN got : got[i] = Payload(k, sent[k].size)
    <3>1. k \in 1 .. Len(sent)
      BY <2>1 DEF Connection
    <3>2. Behind(k) \in Nat
      BY <2>1, <3>1, BehindFacts DEF Connection
    <3>3. Len(wire) <= After[k] + 0 /\ 0 \in 0 .. Len(wire)
      <4>1. Len(wire) <= Behind(k)
        BY <2>3 DEF Arrived
      <4>2. Len(wire) \in Nat
        BY <2>1 DEF Connection
      <4>3. After[k] = Behind(k)
        BY <3>1 DEF After
      <4> QED
        BY ONLY <3>2, <4>1, <4>2, <4>3
    <3>4. Holds(got, Payload(k, sent[k].size))
      <4>1. Calm(sent, k - 1)
        BY ONLY <2>3, Zenon DEF Calm
      <4> QED
        BY ONLY <2>1, <2>2, <2>3, <3>1, <3>3, <4>1, Zenon DEF Due, DueAt
    <3>5. DOMAIN got = 1 .. Len(got)
      BY <2>1 DEF Connection
    <3> QED
      BY ONLY <3>4, <3>5, Zenon DEF Holds
  <2> QED
    BY <2>3 DEF NothingMissed
<1> QED
  BY <1>1, TlsInvariance, PTL

\* NothingInvented, of the TLS family: only what was sent is decoded, each message once
\* and in the order of sending, as long as no garbage with loose zero bytes is sent: of
\* such a byte and what follows a frame could be read that nobody sent.
THEOREM TlsNothingInvented ==
  Spec => [](family = "tls" /\ (\A j \in DOMAIN sent : ~Loose(sent[j])) => NothingInvented)
<1>1. TlsInv =>
        (family = "tls" /\ (\A j \in DOMAIN sent : ~Loose(sent[j])) => NothingInvented)
  <2> SUFFICES ASSUME TlsInv, family = "tls", \A j \in DOMAIN sent : ~Loose(sent[j])
               PROVE  NothingInvented
    OBVIOUS
  <2>1. PICK K : Connection /\ Settled /\ Origin(K)
    <3>1. Connection /\ Settled /\ Traced
      BY DEF TlsInv
    <3>2. Calm(sent, Len(sent))
      BY <3>1 DEF Connection, Calm
    <3> QED
      BY <3>1, <3>2 DEF Traced
  <2>2. Ahead(buf, got, wire, 0) = got
    BY <2>1, AheadNow DEF Connection, Settled
  <2>3. DOMAIN sent = 1 .. Len(sent) /\ DOMAIN got = 1 .. Len(got)
    BY <2>1 DEF Connection
  <2>4. PICK a : a = Ahead(buf, got, wire, Len(wire))
    OBVIOUS
  <2>5. /\ K \in [1 .. Len(a) -> 1 .. Len(sent)]
        /\ \A i \in 1 .. Len(a) :
             sent[K[i]].what = "message" /\ a[i] = Payload(K[i], sent[K[i]].size)
        /\ \A i, j \in 1 .. Len(a) : i < j => K[i] < K[j]
        /\ \A n \in 0 .. Len(wire) : \A i \in 1 .. Len(Ahead(buf, got, wire, n)) :
             /\ i \in 1 .. Len(a)
             /\ Ahead(buf, got, wire, n)[i] = a[i]
             /\ Len(wire) <= After[K[i]] + n
    BY ONLY <2>1, <2>4, Zenon DEF Origin, OriginAt
  <2>6. Len(wire) \in Nat /\ 0 \in 0 .. Len(wire)
    BY <2>1 DEF Connection
  <2>7. ASSUME NEW i \in DOMAIN got
        PROVE  /\ i \in 1 .. Len(a) /\ K[i] \in DOMAIN sent
               /\ sent[K[i]].what = "message" /\ Arrived(K[i])
               /\ got[i] = Payload(K[i], sent[K[i]].size)
    <3>1. i \in 1 .. Len(a) /\ got[i] = a[i] /\ Len(wire) <= After[K[i]] + 0
      BY ONLY <2>2, <2>3, <2>5, <2>6, i \in DOMAIN got, Zenon
    <3>2. PICK z \in 1 .. Len(sent) : z = K[i]
      BY ONLY <2>5, <3>1
    <3>3. After[z] = Behind(z)
      BY DEF After
    <3>4. Behind(z) \in Nat
      BY <2>1, BehindFacts DEF Connection
    <3>5. Arrived(z)
      <4>1. Len(wire) <= Behind(z) + 0
        BY ONLY <3>1, <3>2, <3>3
      <4>2. Len(wire) <= Behind(z)
        BY ONLY <2>6, <3>4, <4>1
      <4> QED
        BY <4>2 DEF Arrived
    <3>6. sent[z].what = "message" /\ a[i] = Payload(z, sent[z].size)
      BY ONLY <2>5, <3>1, <3>2, Zenon
    <3> QED
      BY ONLY <2>3, <3>1, <3>2, <3>5, <3>6, Zenon
  <2> DEFINE texts == {i \in DOMAIN got : IsObject(got[i])}
             k == [i \in texts |-> K[i]]
  <2>8. k \in [texts -> DOMAIN sent]
    BY <2>7
  <2>9. \A i \in texts : /\ sent[k[i]].what = "message" /\ Arrived(k[i])
                         /\ got[i] = Payload(k[i], sent[k[i]].size)
    BY <2>7
  <2>10. \A i, j \in texts : i < j => k[i] < k[j]
    BY <2>5, <2>7
  <2> QED
    BY <2>8, <2>9, <2>10 DEF NothingInvented
<1> QED
  BY <1>1, TlsInvariance, PTL

\* The remainder a TLS handler keeps is less than a frame of the largest length: there
\* is no need for the sanity limit of the raw family.
THEOREM TlsBufferBounded == Spec => [](family = "tls" => Len(buf) <= MaxFrame + 3)
<1>1. TlsInv => (family = "tls" => Len(buf) <= MaxFrame + 3)
  BY DEF TlsInv, Settled
<1> QED
  BY <1>1, TlsInvariance, PTL

-----------------------------------------------------------------------------
(* MsgpackReader: where a value of the raw family ends. *)

ReadStep(b, f, p, n) ==
  IF n = 0 \/ p > Len(b) THEN p
  ELSE LET q == ValueEnd(b, f, p)
       IN  IF q = Raises THEN Raises ELSE f[q][n - 1]

ReadRecursion(b, f) ==
  f = [p \in 1 .. Len(b) + 1 |-> [n \in Nat |-> ReadStep(b, f, p, n)]]

LEMMA ReadIs ==
  ASSUME NEW b, \E f : ReadRecursion(b, f)
  PROVE  \E f : /\ ReadRecursion(b, f)
                /\ ReadAt(b) = [p \in 1 .. Len(b) + 1 |-> f[p][1]]
<1> DEFINE g == CHOOSE f : f = [p \in 1 .. Len(b) + 1 |-> [n \in Nat |-> ReadStep(b, f, p, n)]]
<1>1. g = [p \in 1 .. Len(b) + 1 |-> [n \in Nat |-> ReadStep(b, g, p, n)]]
  BY DEF ReadRecursion
<1>2. ReadAt(b) = [p \in 1 .. Len(b) + 1 |-> g[p][1]]
  BY DEF ReadAt, ReadStep
<1>3. ReadRecursion(b, g)
  BY ONLY <1>1, Zenon DEF ReadRecursion
<1> HIDE DEF g
<1> QED
  BY <1>2, <1>3

LEMMA ReadRecursionAt ==
  ASSUME NEW b, NEW f, ReadRecursion(b, f), NEW p \in 1 .. Len(b) + 1, NEW n \in Nat
  PROVE  f[p][n] = ReadStep(b, f, p, n)
<1>1. PICK r : r = [q \in 1 .. Len(b) + 1 |-> [m \in Nat |-> ReadStep(b, f, q, m)]]
  OBVIOUS
<1>2. r[p][n] = ReadStep(b, f, p, n)
  BY ONLY <1>1, p \in 1 .. Len(b) + 1, n \in Nat, Zenon
<1>3. f = r
  BY ONLY <1>1, ReadRecursion(b, f), Zenon DEF ReadRecursion
<1> QED
  BY ONLY <1>2, <1>3, Zenon

\* The header of the value that begins with x, and the number in it: the bytes of a
\* string, the keys and values of a map.
HeadSize(x) ==
  CASE x \in {217, 204} -> 2 [] x \in {218, 222} -> 3 [] OTHER -> 1

Number(b, p) ==
  CASE b[p] \in 128 .. 143 -> 2 * (b[p] - 128)
    [] b[p] \in 160 .. 191 -> b[p] - 160
    [] b[p] = 217          -> b[p+1]
    [] b[p] = 218          -> Word(b, p + 1)
    [] b[p] = 222          -> 2 * Word(b, p + 1)
    [] OTHER               -> 0

IsScalar(x) == x < 128 \/ x \in {194, 195, 204}

HeadWhole(b, p) == p + HeadSize(b[p]) <= Len(b) + 1

\* Which arm of read() a first byte selects, told in numbers alone.
LEMMA HeadSizes ==
  ASSUME NEW x \in Nat
  PROVE  /\ HeadSize(x) \in 1 .. 3
         /\ x \in {217, 204} <=> HeadSize(x) = 2
         /\ x \in {218, 222} <=> HeadSize(x) = 3
         /\ IsStr(x) => HeadSize(x) = HeadLen(x)
         /\ ~ (IsStr(x) /\ IsMap(x))
<1>1. HeadSize(x) \in 1 .. 3
  BY DEF HeadSize
<1>2. (x \in {217, 204} <=> HeadSize(x) = 2) /\ (x \in {218, 222} <=> HeadSize(x) = 3)
  BY DEF HeadSize
<1>3. ~ (IsStr(x) /\ IsMap(x))
  BY DEF IsStr, IsMap
<1>4. x \in 160 .. 191 => HeadSize(x) = HeadLen(x)
  BY DEF HeadSize, HeadLen
<1>5. x \in {217, 218} => HeadSize(x) = HeadLen(x)
  BY DEF HeadSize, HeadLen
<1> QED
  BY <1>1, <1>2, <1>3, <1>4, <1>5 DEF IsStr

NumbersAt(b, p) ==
  /\ b[p] \in 128 .. 143 => Number(b, p) = 2 * (b[p] - 128)
  /\ b[p] \in 160 .. 191 => Number(b, p) = b[p] - 160
  /\ b[p] = 217 => Number(b, p) = b[p+1]
  /\ b[p] = 218 => Number(b, p) = Word(b, p + 1)
  /\ b[p] = 222 => Number(b, p) = 2 * Word(b, p + 1)
  /\ ~IsMap(b[p]) /\ ~IsStr(b[p]) => Number(b, p) = 0

LEMMA Numbers ==
  ASSUME NEW b, NEW p, b[p] \in Nat
  PROVE  NumbersAt(b, p)
<1>1. b[p] \in 128 .. 143 => Number(b, p) = 2 * (b[p] - 128)
  BY DEF Number
<1>2. b[p] \in 160 .. 191 => Number(b, p) = b[p] - 160
  BY DEF Number
<1>3. b[p] = 217 => Number(b, p) = b[p+1]
  BY DEF Number
<1>4. b[p] = 218 => Number(b, p) = Word(b, p + 1)
  BY DEF Number
<1>5. b[p] = 222 => Number(b, p) = 2 * Word(b, p + 1)
  BY DEF Number
<1>6. ~IsMap(b[p]) /\ ~IsStr(b[p]) => Number(b, p) = 0
  BY DEF Number, IsMap, IsStr
<1> QED
  BY <1>1, <1>2, <1>3, <1>4, <1>5, <1>6 DEF NumbersAt

ArmsAt(b, f, p) ==
  /\ b[p] \in 128 .. 143 => ValueEnd(b, f, p) = f[p + 1][2 * (b[p] - 128)]
  /\ b[p] \in 160 .. 191 => ValueEnd(b, f, p) = Need(b, p + 1 + b[p] - 160)
  /\ b[p] = 217 => ValueEnd(b, f, p) =
       IF p + 1 <= Len(b) THEN Need(b, p + 2 + b[p+1]) ELSE Raises
  /\ b[p] = 218 => ValueEnd(b, f, p) =
       IF p + 2 <= Len(b) THEN Need(b, p + 3 + Word(b, p + 1)) ELSE Raises
  /\ b[p] = 222 => ValueEnd(b, f, p) =
       IF p + 2 <= Len(b) THEN f[p + 3][2 * Word(b, p + 1)] ELSE Raises
  /\ b[p] < 128 \/ b[p] \in {194, 195} => ValueEnd(b, f, p) = p + 1
  /\ b[p] = 204 => ValueEnd(b, f, p) = IF p + 1 <= Len(b) THEN p + 2 ELSE Raises
  /\ ~ (IsMap(b[p]) \/ IsStr(b[p]) \/ IsScalar(b[p])) => ValueEnd(b, f, p) = Raises

LEMMA Arms ==
  ASSUME NEW b, NEW p, NEW f, b[p] \in Nat
  PROVE  ArmsAt(b, f, p)
<1>1. ASSUME b[p] \in 128 .. 143
      PROVE  ValueEnd(b, f, p) = f[p + 1][2 * (b[p] - 128)]
  <2>1. /\ b[p] \notin 160 .. 191 /\ b[p] # 217 /\ b[p] # 218 /\ b[p] # 222
        /\ b[p] # 204 /\ ~ (b[p] < 128) /\ b[p] \notin {194, 195}
    BY <1>1
  <2> QED
    BY ONLY <1>1, <2>1, Zenon DEF ValueEnd
<1>2. ASSUME b[p] \in 160 .. 191
      PROVE  ValueEnd(b, f, p) = Need(b, p + 1 + b[p] - 160)
  <2>1. /\ b[p] \notin 128 .. 143 /\ b[p] # 217 /\ b[p] # 218 /\ b[p] # 222
        /\ b[p] # 204 /\ ~ (b[p] < 128) /\ b[p] \notin {194, 195}
    BY <1>2
  <2> QED
    BY ONLY <1>2, <2>1, Zenon DEF ValueEnd
<1>3. b[p] = 217 => ValueEnd(b, f, p) =
        IF p + 1 <= Len(b) THEN Need(b, p + 2 + b[p+1]) ELSE Raises
  BY DEF ValueEnd
<1>4. b[p] = 218 => ValueEnd(b, f, p) =
        IF p + 2 <= Len(b) THEN Need(b, p + 3 + Word(b, p + 1)) ELSE Raises
  BY DEF ValueEnd
<1>5. b[p] = 222 => ValueEnd(b, f, p) =
        IF p + 2 <= Len(b) THEN f[p + 3][2 * Word(b, p + 1)] ELSE Raises
  BY DEF ValueEnd
<1>6. b[p] < 128 \/ b[p] \in {194, 195} => ValueEnd(b, f, p) = p + 1
  BY DEF ValueEnd
<1>7. b[p] = 204 => ValueEnd(b, f, p) = IF p + 1 <= Len(b) THEN p + 2 ELSE Raises
  BY DEF ValueEnd
<1>8. ~ (IsMap(b[p]) \/ IsStr(b[p]) \/ IsScalar(b[p])) => ValueEnd(b, f, p) = Raises
  BY DEF IsMap, IsStr, IsScalar, ValueEnd
<1> QED
  BY <1>1, <1>2, <1>3, <1>4, <1>5, <1>6, <1>7, <1>8 DEF ArmsAt

LEMMA Words ==
  ASSUME NEW b \in Seq(Nat), NEW p \in Nat, 1 <= p, p + 1 <= Len(b)
  PROVE  Word(b, p) \in Nat
<1>1. PICK y \in Nat : y = b[p]
  OBVIOUS
<1>2. PICK z \in Nat : z = b[p+1]
  OBVIOUS
<1>3. y * 256 + z \in Nat
  OBVIOUS
<1> QED
  BY <1>1, <1>2, <1>3 DEF Word

LEMMA HeadFacts ==
  ASSUME NEW b \in Seq(Nat), NEW p \in 1 .. Len(b)
  PROVE  /\ b[p] \in Nat /\ Len(b) \in Nat /\ HeadSize(b[p]) \in 1 .. 3
         /\ HeadWhole(b, p) => Number(b, p) \in Nat
<1>0. NumbersAt(b, p)
  <2>1. b[p] \in Nat
    OBVIOUS
  <2> QED
    BY ONLY <2>1, Numbers, Zenon
<1>1. PICK N \in Nat : N = Len(b)
  OBVIOUS
<1>2. PICK x \in Nat : x = b[p]
  OBVIOUS
<1>3. ASSUME HeadWhole(b, p) PROVE Number(b, p) \in Nat
  <2>1. p + HeadSize(x) <= N + 1
    BY <1>1, <1>2, <1>3 DEF HeadWhole
  <2>2. CASE x \in {217, 218, 222}
    <3>1. PICK y \in Nat : y = b[p+1]
      BY <1>1, <2>1, <2>2, HeadSizes
    <3>2. CASE x = 217
      BY <1>2, <3>1, <3>2, <1>0 DEF NumbersAt
    <3>3. CASE x \in {218, 222}
      <4>1. Word(b, p + 1) \in Nat
        <5>1. p + 1 \in Nat /\ 1 <= p + 1 /\ p + 1 + 1 <= Len(b)
          BY <1>1, <2>1, <3>3, HeadSizes
        <5> QED
          BY <5>1, Words
      <4> QED
        BY <1>2, <3>3, <4>1, <1>0 DEF NumbersAt
    <3> QED
      BY <2>2, <3>2, <3>3
  <2>3. CASE x \in 128 .. 143 \/ x \in 160 .. 191
    <3>1. /\ x \in 128 .. 143 => Number(b, p) = 2 * (x - 128)
          /\ x \in 160 .. 191 => Number(b, p) = x - 160
      BY <1>2, <1>0 DEF NumbersAt
    <3> QED
      BY ONLY <2>3, <3>1, x \in Nat
  <2>4. CASE ~IsMap(x) /\ ~IsStr(x)
    <3>1. Number(b, p) = 0
      BY <1>2, <2>4, <1>0 DEF NumbersAt
    <3> QED
      BY <3>1
  <2> QED
    BY <2>2, <2>3, <2>4 DEF IsMap, IsStr
<1> QED
  BY <1>1, <1>2, <1>3, HeadSizes

\* Where a value ends, in one form for all kinds of values.
LEMMA ValueEndIs ==
  ASSUME NEW b \in Seq(Nat), NEW p \in 1 .. Len(b), NEW f
  PROVE  /\ ~HeadWhole(b, p) => ValueEnd(b, f, p) = Raises
         /\ HeadWhole(b, p) /\ IsMap(b[p]) =>
              ValueEnd(b, f, p) = f[p + HeadSize(b[p])][Number(b, p)]
         /\ HeadWhole(b, p) /\ IsStr(b[p]) =>
              ValueEnd(b, f, p) = Need(b, p + HeadSize(b[p]) + Number(b, p))
         /\ HeadWhole(b, p) /\ IsScalar(b[p]) => ValueEnd(b, f, p) = p + HeadSize(b[p])
         /\ ~ (IsMap(b[p]) \/ IsStr(b[p]) \/ IsScalar(b[p])) => ValueEnd(b, f, p) = Raises
<1>0. NumbersAt(b, p)
  <2>1. b[p] \in Nat
    OBVIOUS
  <2> QED
    BY ONLY <2>1, Numbers, Zenon
<1>9. ArmsAt(b, f, p)
  <2>1. b[p] \in Nat
    OBVIOUS
  <2> QED
    BY ONLY <2>1, Arms, Zenon
<1>1. PICK N \in Nat : N = Len(b)
  OBVIOUS
<1>2. PICK x \in Nat : x = b[p]
  OBVIOUS
<1>3. PICK h \in 1 .. 3 : h = HeadSize(x)
  BY HeadSizes
<1>4. ASSUME ~HeadWhole(b, p) PROVE ValueEnd(b, f, p) = Raises
  <2>1. p + h > N + 1 /\ p <= N
    BY <1>1, <1>2, <1>3, <1>4 DEF HeadWhole
  <2>2. CASE x = 217 \/ x = 204
    <3>1. h = 2
      BY <1>3, <2>2, HeadSizes
    <3>2. ~ (p + 1 <= N)
      BY <2>1, <3>1
    <3> QED
      BY <1>1, <1>2, <2>2, <3>2, <1>9 DEF ArmsAt
  <2>3. CASE x = 218 \/ x = 222
    <3>1. h = 3
      BY <1>3, <2>3, HeadSizes
    <3>2. ~ (p + 2 <= N)
      BY <2>1, <3>1
    <3> QED
      BY <1>1, <1>2, <2>3, <3>2, <1>9 DEF ArmsAt
  <2>4. h # 1
    BY <2>1
  <2> QED
    BY <1>3, <2>2, <2>3, <2>4, HeadSizes
<1>5. ASSUME HeadWhole(b, p), IsMap(x) PROVE ValueEnd(b, f, p) = f[p + h][Number(b, p)]
  <2>1. CASE x = 222
    <3>1. h = 3 /\ Number(b, p) = 2 * Word(b, p + 1)
      BY <1>2, <1>3, <2>1, HeadSizes, <1>0 DEF NumbersAt
    <3>2. p + 2 <= N
      BY <1>1, <1>2, <1>3, <1>5, <3>1 DEF HeadWhole
    <3> QED
      BY <1>1, <1>2, <2>1, <3>1, <3>2, <1>9 DEF ArmsAt
  <2>2. CASE x \in 128 .. 143
    <3>1. h = 1
      BY ONLY <1>3, <2>2, HeadSizes, h \in 1 .. 3, x \in Nat
    <3>2. Number(b, p) = 2 * (x - 128) /\ ValueEnd(b, f, p) = f[p + 1][2 * (x - 128)]
      BY <1>2, <2>2, <1>0, <1>9 DEF NumbersAt, ArmsAt
    <3> QED
      BY <3>1, <3>2
  <2> QED
    BY <1>5, <2>1, <2>2 DEF IsMap
<1>6. ASSUME HeadWhole(b, p), IsStr(x)
      PROVE  ValueEnd(b, f, p) = Need(b, p + h + Number(b, p))
  <2>1. PICK n \in Nat : n = Number(b, p)
    BY <1>6, HeadFacts
  <2>2. CASE x \in 160 .. 191
    <3>1. h = 1
      BY ONLY <1>3, <2>2, HeadSizes, h \in 1 .. 3, x \in Nat
    <3>2. n = x - 160 /\ ValueEnd(b, f, p) = Need(b, p + 1 + x - 160)
      BY <1>2, <2>1, <2>2, <1>0, <1>9 DEF NumbersAt, ArmsAt
    <3>3. p + 1 + x - 160 = p + h + n
      BY <3>1, <3>2
    <3> QED
      BY <2>1, <3>2, <3>3
  <2>3. CASE x = 217
    <3>1. h = 2 /\ n = b[p+1]
      BY <1>2, <1>3, <2>1, <2>3, HeadSizes, <1>0 DEF NumbersAt
    <3>2. p + 1 <= N
      BY <1>1, <1>2, <1>3, <1>6, <3>1 DEF HeadWhole
    <3> QED
      BY <1>1, <1>2, <2>1, <2>3, <3>1, <3>2, <1>9 DEF ArmsAt
  <2>4. CASE x = 218
    <3>1. h = 3 /\ n = Word(b, p + 1)
      BY <1>2, <1>3, <2>1, <2>4, HeadSizes, <1>0 DEF NumbersAt
    <3>2. p + 2 <= N
      BY <1>1, <1>2, <1>3, <1>6, <3>1 DEF HeadWhole
    <3>3. ValueEnd(b, f, p) = Need(b, p + 3 + Word(b, p + 1))
      BY <1>1, <1>2, <2>4, <3>2, <1>9 DEF ArmsAt
    <3>5. p + 3 + Word(b, p + 1) = p + h + n
      BY <3>1
    <3> QED
      BY <2>1, <3>3, <3>5
  <2> QED
    BY <1>6, <2>2, <2>3, <2>4 DEF IsStr
<1>7. ASSUME HeadWhole(b, p), IsScalar(x) PROVE ValueEnd(b, f, p) = p + h
  <2>1. CASE x = 204
    <3>1. h = 2
      BY <1>3, <2>1, HeadSizes
    <3>2. p + 1 <= N
      BY <1>1, <1>2, <1>3, <1>7, <3>1 DEF HeadWhole
    <3> QED
      BY <1>1, <1>2, <2>1, <3>1, <3>2, <1>9 DEF ArmsAt
  <2>2. CASE x < 128 \/ x \in {194, 195}
    <3>1. h = 1
      BY ONLY <1>3, <2>2, HeadSizes, h \in 1 .. 3, x \in Nat
    <3> QED
      BY <1>2, <2>2, <3>1, <1>9 DEF ArmsAt
  <2> QED
    BY <1>7, <2>1, <2>2 DEF IsScalar
<1>8. ASSUME ~ (IsMap(x) \/ IsStr(x) \/ IsScalar(x)) PROVE ValueEnd(b, f, p) = Raises
  BY <1>2, <1>8, <1>9 DEF ArmsAt
<1> QED
  BY <1>2, <1>3, <1>4, <1>5, <1>6, <1>7, <1>8

Places(b, p) == {Raises} \cup p .. Len(b) + 1

\* What is read behind p ends where a value can end.
TypedBehind(b, f, p) ==
  \A q \in p + 1 .. Len(b) + 1, n \in Nat : f[q][n] \in Places(b, q)

LEMMA ValueEndTyped ==
  ASSUME NEW b \in Seq(Nat), NEW p \in 1 .. Len(b), NEW f, TypedBehind(b, f, p)
  PROVE  ValueEnd(b, f, p) \in Places(b, p + 1)
<1>1. PICK N \in Nat : N = Len(b)
  OBVIOUS
<1>2. PICK h \in 1 .. 3 : h = HeadSize(b[p])
  BY HeadFacts
<1>3. CASE ~HeadWhole(b, p)
  BY <1>3, ValueEndIs DEF Places
<1>4. CASE HeadWhole(b, p)
  <2>1. p + h <= N + 1
    BY <1>1, <1>2, <1>4 DEF HeadWhole
  <2>2. PICK n \in Nat : n = Number(b, p)
    BY <1>4, HeadFacts
  <2>3. CASE IsMap(b[p])
    <3>1. p + h \in p + 1 .. N + 1
      BY <1>1, <2>1
    <3>2. f[p + h][n] \in Places(b, p + h)
      BY <1>1, <2>2, <3>1 DEF TypedBehind
    <3>3. Places(b, p + h) \subseteq Places(b, p + 1)
      BY <1>1 DEF Places
    <3> QED
      BY <1>2, <1>4, <2>2, <2>3, <3>2, <3>3, ValueEndIs
  <2>4. CASE IsStr(b[p])
    <3>1. ValueEnd(b, f, p) = Need(b, p + h + n)
      BY <1>2, <1>4, <2>2, <2>4, ValueEndIs
    <3>2. Need(b, p + h + n) \in Places(b, p + 1)
      BY <1>1 DEF Need, Places
    <3> QED
      BY <3>1, <3>2
  <2>5. CASE IsScalar(b[p])
    <3>1. ValueEnd(b, f, p) = p + h
      BY <1>2, <1>4, <2>5, ValueEndIs
    <3> QED
      BY <1>1, <2>1, <3>1 DEF Places
  <2>6. CASE ~ (IsMap(b[p]) \/ IsStr(b[p]) \/ IsScalar(b[p]))
    BY <2>6, ValueEndIs DEF Places
  <2> QED
    BY <2>3, <2>4, <2>5, <2>6
<1> QED
  BY <1>3, <1>4

\* f and g agree behind p.
SameBehind(b, f, g, p) ==
  \A q \in p + 1 .. Len(b) + 1, n \in Nat : f[q][n] = g[q][n]

\* What is read at p depends on what is read behind p.
LEMMA ValueEndAhead ==
  ASSUME NEW b \in Seq(Nat), NEW p \in 1 .. Len(b), NEW f, NEW g, SameBehind(b, f, g, p)
  PROVE  ValueEnd(b, f, p) = ValueEnd(b, g, p)
<1>1. CASE HeadWhole(b, p) /\ IsMap(b[p])
  <2>1. PICK h \in 1 .. 3 : h = HeadSize(b[p])
    BY HeadFacts
  <2>2. p + h \in p + 1 .. Len(b) + 1 /\ Number(b, p) \in Nat
    BY <1>1, <2>1, HeadFacts DEF HeadWhole
  <2>3. f[p + h][Number(b, p)] = g[p + h][Number(b, p)]
    BY <2>2 DEF SameBehind
  <2> QED
    BY <1>1, <2>1, <2>3, ValueEndIs
<1>2. CASE ~ (HeadWhole(b, p) /\ IsMap(b[p]))
  BY <1>2, ValueEndIs
<1> QED
  BY <1>1, <1>2

LEMMA ReadStepTyped ==
  ASSUME NEW b \in Seq(Nat), NEW p \in 1 .. Len(b) + 1, NEW f, TypedBehind(b, f, p),
         NEW n \in Nat
  PROVE  ReadStep(b, f, p, n) \in Places(b, p)
<1>1. PICK N \in Nat : N = Len(b)
  OBVIOUS
<1>2. CASE n = 0 \/ p > N
  BY <1>1, <1>2 DEF ReadStep, Places
<1>3. CASE n # 0 /\ p <= N
  <2>1. PICK q : q = ValueEnd(b, f, p) /\ q \in Places(b, p + 1)
    BY <1>1, <1>3, ValueEndTyped
  <2>2. CASE q = Raises
    BY <1>1, <1>3, <2>1, <2>2 DEF ReadStep, Places
  <2>3. CASE q # Raises
    <3>1. q \in p + 1 .. N + 1 /\ n - 1 \in Nat
      BY <1>1, <1>3, <2>1, <2>3 DEF Places
    <3>2. f[q][n - 1] \in Places(b, q)
      BY <1>1, <3>1 DEF TypedBehind
    <3>3. Places(b, q) \subseteq Places(b, p)
      BY <1>1, <3>1 DEF Places
    <3>4. ReadStep(b, f, p, n) = f[q][n - 1]
      BY <1>1, <1>3, <2>1, <2>3 DEF ReadStep
    <3> QED
      BY <3>2, <3>3, <3>4
  <2> QED
    BY <2>2, <2>3
<1> QED
  BY <1>1, <1>2, <1>3

LEMMA ReadStepAhead ==
  ASSUME NEW b \in Seq(Nat), NEW p \in 1 .. Len(b) + 1, NEW f, TypedBehind(b, f, p),
         NEW g, SameBehind(b, f, g, p), NEW n \in Nat
  PROVE  ReadStep(b, f, p, n) = ReadStep(b, g, p, n)
<1>1. PICK N \in Nat : N = Len(b)
  OBVIOUS
<1>2. CASE n = 0 \/ p > N
  BY <1>1, <1>2 DEF ReadStep
<1>3. CASE n # 0 /\ p <= N
  <2>1. PICK q : q = ValueEnd(b, f, p) /\ q \in Places(b, p + 1)
    BY <1>1, <1>3, ValueEndTyped
  <2>2. q = ValueEnd(b, g, p)
    BY <1>1, <1>3, <2>1, ValueEndAhead
  <2>3. q # Raises => f[q][n - 1] = g[q][n - 1]
    BY <1>1, <1>3, <2>1 DEF Places, SameBehind
  <2> QED
    BY <1>1, <1>3, <2>1, <2>2, <2>3 DEF ReadStep
<1> QED
  BY <1>1, <1>2, <1>3

ReadFrom(b, f, k) ==
  \A p \in k .. Len(b) + 1, n \in Nat :
    f[p][n] = ReadStep(b, f, p, n) /\ f[p][n] \in Places(b, p)

Reads(b, f) == /\ f = [p \in 1 .. Len(b) + 1 |-> [n \in Nat |-> f[p][n]]]
               /\ ReadFrom(b, f, 1)

\* Reading comes to an end on every stream.
LEMMA Readable ==
  ASSUME NEW b \in Seq(Nat)
  PROVE  \E f : Reads(b, f)
<1> DEFINE N == Len(b)
           P == {k \in 1 .. N + 1 : \E g : ReadFrom(b, g, k)}
<1>1. N \in Nat
  OBVIOUS
<1>2. ASSUME NEW p \in 1 .. N + 1, \A q \in p + 1 .. N + 1 : q \in P
      PROVE  p \in P
  <2>1. PICK g : ReadFrom(b, g, p + 1)
    <3>1. CASE p = N + 1
      <4>1. p + 1 .. N + 1 = {}
        BY <1>1, <3>1
      <4> QED
        BY <4>1 DEF ReadFrom
    <3>2. CASE p # N + 1
      <4>1. p + 1 \in p + 1 .. N + 1
        BY <1>1, <3>2
      <4>2. p + 1 \in P
        BY ONLY <1>2, <4>1, Zenon
      <4> QED
        BY <4>2
    <3> QED
      BY <3>1, <3>2
  <2> DEFINE h == [q \in p .. N + 1 |->
                     [n \in Nat |-> IF q = p THEN ReadStep(b, g, p, n) ELSE g[q][n]]]
  <2>2. \A q \in p + 1 .. N + 1, n \in Nat : h[q][n] = g[q][n]
    BY <1>1
  <2>3. \A n \in Nat : h[p][n] = ReadStep(b, g, p, n)
    BY <1>1
  <2>4. ASSUME NEW q \in p .. N + 1, NEW n \in Nat
        PROVE  h[q][n] = ReadStep(b, g, q, n) /\ h[q][n] \in Places(b, q)
    <3>1. CASE q = p
      <4>1. TypedBehind(b, g, p)
        BY <2>1 DEF TypedBehind, ReadFrom
      <4>2. ReadStep(b, g, p, n) \in Places(b, p)
        BY <1>1, <4>1, ReadStepTyped
      <4> QED
        BY <2>3, <3>1, <4>2
    <3>2. CASE q # p
      <4>1. q \in p + 1 .. N + 1
        BY <1>1, <3>2
      <4>2. h[q][n] = g[q][n]
        BY <2>2, <4>1
      <4>3. g[q][n] = ReadStep(b, g, q, n) /\ g[q][n] \in Places(b, q)
        BY <2>1, <4>1 DEF ReadFrom
      <4> QED
        BY <4>2, <4>3
    <3> QED
      BY <3>1, <3>2
  <2>5. ASSUME NEW q \in p .. N + 1, NEW n \in Nat
        PROVE  ReadStep(b, h, q, n) = ReadStep(b, g, q, n)
    <3> HIDE DEF h
    <3>1. TypedBehind(b, g, q)
      BY <1>1, <2>1 DEF TypedBehind, ReadFrom
    <3>2. SameBehind(b, g, h, q)
      <4>1. q + 1 .. N + 1 \subseteq p + 1 .. N + 1
        BY <1>1
      <4> QED
        BY <2>2, <4>1 DEF SameBehind
    <3>3. q \in 1 .. N + 1
      BY <1>1
    <3> QED
      BY <3>1, <3>2, <3>3, ReadStepAhead
  <2>6. ReadFrom(b, h, p)
    <3> HIDE DEF h
    <3> QED
      BY <2>4, <2>5 DEF ReadFrom
  <2> QED
    BY <2>6
<1>3. 1 \in P
  <2> HIDE DEF P
  <2>1. 1 .. N + 1 \subseteq P
    BY <1>1, <1>2, Downward
  <2> QED
    BY <1>1, <2>1
<1>4. PICK g : ReadFrom(b, g, 1)
  BY <1>3
<1> DEFINE f == [p \in 1 .. N + 1 |-> [n \in Nat |-> g[p][n]]]
<1>5. \A p \in 1 .. N + 1, n \in Nat : f[p][n] = g[p][n]
  OBVIOUS
<1>6. f = [p \in 1 .. N + 1 |-> [n \in Nat |-> f[p][n]]]
  BY <1>5
<1>7. ReadFrom(b, f, 1)
  <2> HIDE DEF f
  <2>1. ASSUME NEW p \in 1 .. N + 1, NEW n \in Nat
        PROVE  ReadStep(b, f, p, n) = ReadStep(b, g, p, n)
    <3>1. TypedBehind(b, g, p) /\ SameBehind(b, g, f, p)
      BY <1>1, <1>4, <1>5 DEF TypedBehind, SameBehind, ReadFrom
    <3> QED
      BY <3>1, ReadStepAhead
  <2> QED
    BY <1>4, <1>5, <2>1 DEF ReadFrom
<1> QED
  BY <1>6, <1>7, Zenon DEF Reads

\* What ReadAt returns is what is read value by value.
LEMMA ReadDone ==
  ASSUME NEW b \in Seq(Nat)
  PROVE  \E f : Reads(b, f) /\ ReadAt(b) = [p \in 1 .. Len(b) + 1 |-> f[p][1]]
<1>1. PICK f : Reads(b, f)
  BY Readable
<1>2. PICK N \in Nat : N = Len(b)
  OBVIOUS
<1>3. ReadRecursion(b, f)
  <2>1. f = [p \in 1 .. N + 1 |-> [n \in Nat |-> f[p][n]]]
    BY <1>1, <1>2 DEF Reads
  <2>2. \A p \in 1 .. N + 1, n \in Nat : f[p][n] = ReadStep(b, f, p, n)
    BY <1>1, <1>2 DEF Reads, ReadFrom
  <2>3. ASSUME NEW p \in 1 .. N + 1
        PROVE  [n \in Nat |-> f[p][n]] = [n \in Nat |-> ReadStep(b, f, p, n)]
    BY ONLY <2>2
  <2>4. f = [p \in 1 .. N + 1 |-> [n \in Nat |-> ReadStep(b, f, p, n)]]
    BY ONLY <2>1, <2>3
  <2> QED
    BY ONLY <1>2, <2>4, Zenon DEF ReadRecursion
<1>4. PICK g : /\ ReadRecursion(b, g)
               /\ ReadAt(b) = [p \in 1 .. Len(b) + 1 |-> g[p][1]]
  <2>1. \E e : ReadRecursion(b, e)
    BY ONLY <1>3, Zenon
  <2> QED
    BY ONLY <2>1, ReadIs, Zenon
<1> DEFINE P == {p \in 1 .. N + 1 : \A n \in Nat : f[p][n] = g[p][n]}
<1>5. ASSUME NEW p \in 1 .. N + 1, \A q \in p + 1 .. N + 1 : q \in P
      PROVE  p \in P
  <2>1. TypedBehind(b, f, p)
    <3>1. p + 1 .. N + 1 \subseteq 1 .. N + 1
      BY <1>2
    <3> QED
      BY <1>1, <1>2, <3>1 DEF TypedBehind, Reads, ReadFrom
  <2>2. SameBehind(b, f, g, p)
    BY <1>2, <1>5 DEF SameBehind
  <2>3. ASSUME NEW n \in Nat PROVE f[p][n] = g[p][n]
    <3>1. ReadStep(b, f, p, n) = ReadStep(b, g, p, n)
      BY <1>2, <2>1, <2>2, ReadStepAhead
    <3>2. f[p][n] = ReadStep(b, f, p, n)
      BY <1>1, <1>2 DEF Reads, ReadFrom
    <3>3. g[p][n] = ReadStep(b, g, p, n)
      BY ONLY <1>2, <1>4, ReadRecursionAt, p \in 1 .. N + 1, n \in Nat, Zenon
    <3> QED
      BY <3>1, <3>2, <3>3
  <2> QED
    BY <2>3
<1>6. 1 .. N + 1 \subseteq P
  <2> HIDE DEF P
  <2> QED
    BY <1>2, <1>5, Downward
<1>7. [p \in 1 .. N + 1 |-> f[p][1]] = [p \in 1 .. N + 1 |-> g[p][1]]
  BY <1>6
<1> QED
  BY <1>1, <1>2, <1>4, <1>7

LEMMA ReadItems ==
  ASSUME NEW b, NEW f, Reads(b, f), NEW p \in 1 .. Len(b) + 1, NEW n \in Nat
  PROVE  f[p][n] = ReadStep(b, f, p, n) /\ f[p][n] \in Places(b, p)
BY Zenon DEF Reads, ReadFrom

\* Where the value at p ends, and that one of a value's kind ends somewhere.
LEMMA ReadOne ==
  ASSUME NEW b \in Seq(Nat), NEW f, Reads(b, f), NEW p \in 1 .. Len(b)
  PROVE  f[p][1] = ValueEnd(b, f, p) /\ f[p][1] \in Places(b, p + 1)
<1>1. PICK N \in Nat : N = Len(b)
  OBVIOUS
<1>2. PICK q : q = ValueEnd(b, f, p) /\ q \in Places(b, p + 1)
  <2>1. p + 1 .. N + 1 \subseteq 1 .. N + 1
    BY <1>1
  <2>2. TypedBehind(b, f, p)
    BY <1>1, <2>1 DEF TypedBehind, Reads, ReadFrom
  <2> QED
    BY <2>2, ValueEndTyped
<1>3. f[p][1] = ReadStep(b, f, p, 1)
  BY <1>1 DEF Reads, ReadFrom
<1>4. ReadStep(b, f, p, 1) = IF q = Raises THEN Raises ELSE f[q][0]
  BY <1>1, <1>2 DEF ReadStep
<1>5. q # Raises => f[q][0] = q
  <2>1. ASSUME q # Raises PROVE q \in 1 .. N + 1
    BY <1>1, <1>2, <2>1 DEF Places
  <2>2. q # Raises => f[q][0] = ReadStep(b, f, q, 0)
    BY <1>1, <2>1 DEF Reads, ReadFrom
  <2> QED
    BY <2>2 DEF ReadStep
<1> QED
  BY <1>2, <1>3, <1>4, <1>5

-----------------------------------------------------------------------------
(* Reading a stream again when more of it has arrived, from position k + 1 on. *)

\* c goes on as b does behind its first k bytes, as far as b is known.
Continues(b, k, c) ==
  /\ b \in Seq(Nat) /\ c \in Seq(Nat) /\ k \in 0 .. Len(b) /\ k + Len(c) >= Len(b)
  /\ \A i \in k + 1 .. Len(b) : c[i - k] = b[i]

\* A value that ended before the end of b ends at the same place of c; what was
\* incomplete in b is incomplete in c or ends behind the bytes that were known.
Later(b, k, at, v) ==
  /\ at # Raises /\ at <= Len(b) => v = at - k
  /\ at = Raises => v = Raises \/ v > Len(b) - k + 1

LEMMA SameHead ==
  ASSUME NEW b, NEW k, NEW c, Continues(b, k, c), NEW p \in k + 1 .. Len(b)
  PROVE  /\ p \in 1 .. Len(b) /\ p - k \in 1 .. Len(c) /\ c[p - k] = b[p]
         /\ HeadWhole(b, p) => HeadWhole(c, p - k) /\ Number(c, p - k) = Number(b, p)
<1>1. PICK N \in Nat, M \in Nat : N = Len(b) /\ M = Len(c)
  BY DEF Continues
<1>2. k \in Nat /\ k <= N /\ k + M >= N /\ \A i \in k + 1 .. N : c[i - k] = b[i]
  BY <1>1 DEF Continues
<1>3. p \in 1 .. N /\ p - k \in 1 .. M /\ c[p - k] = b[p]
  BY <1>1, <1>2
<1>4. ASSUME HeadWhole(b, p)
      PROVE  HeadWhole(c, p - k) /\ Number(c, p - k) = Number(b, p)
  <2>1. PICK h \in 1 .. 3 : h = HeadSize(b[p])
    BY <1>1, <1>3, HeadFacts DEF Continues
  <2>2. p + h <= N + 1
    BY <1>1, <1>4, <2>1 DEF HeadWhole
  <2>3. HeadWhole(c, p - k)
    BY <1>1, <1>2, <1>3, <2>1, <2>2 DEF HeadWhole
  <2>4. NumbersAt(b, p) /\ NumbersAt(c, p - k)
    <3>1. b[p] \in Nat /\ c[p - k] \in Nat
      BY <1>1, <1>3 DEF Continues
    <3> QED
      BY ONLY <3>1, Numbers, Zenon
  <2>5. h >= 2 => c[p - k + 1] = b[p + 1]
    <3>1. ASSUME h >= 2 PROVE c[p - k + 1] = b[p + 1]
      <4>1. p + 1 \in k + 1 .. N /\ p + 1 - k = p - k + 1
        BY <1>1, <1>2, <2>2, <3>1
      <4> QED
        BY <1>2, <4>1
    <3> QED
      BY <3>1
  <2>6. h = 3 => Word(c, p - k + 1) = Word(b, p + 1)
    <3>1. ASSUME h = 3 PROVE c[p - k + 1 + 1] = b[p + 1 + 1]
      <4>1. p + 1 + 1 \in k + 1 .. N /\ p + 1 + 1 - k = p - k + 1 + 1
        BY <1>1, <1>2, <2>2, <3>1
      <4> QED
        BY <1>2, <4>1
    <3> QED
      BY <2>5, <3>1 DEF Word
  <2>7. CASE b[p] = 217
    <3>1. h = 2
      BY <2>1, <2>7, HeadSizes
    <3> QED
      BY <1>3, <2>3, <2>4, <2>5, <2>7, <3>1 DEF NumbersAt
  <2>8. ASSUME b[p] = 218 \/ b[p] = 222 PROVE Number(c, p - k) = Number(b, p)
    <3>1. h = 3
      BY <2>1, <2>8, HeadSizes
    <3>2. Word(c, p - k + 1) = Word(b, p + 1)
      BY <2>6, <3>1
    <3>3. CASE b[p] = 218
      BY ONLY <1>3, <2>4, <3>2, <3>3 DEF NumbersAt
    <3>4. CASE b[p] = 222
      BY ONLY <1>3, <2>4, <3>2, <3>4 DEF NumbersAt
    <3> QED
      BY <2>8, <3>3, <3>4
  <2>9. ASSUME b[p] \in 128 .. 143 PROVE Number(c, p - k) = Number(b, p)
    BY ONLY <1>3, <2>4, <2>9, Zenon DEF NumbersAt
  <2>10. ASSUME b[p] \in 160 .. 191 PROVE Number(c, p - k) = Number(b, p)
    <3>1. Number(b, p) = b[p] - 160
      BY ONLY <2>4, <2>10, Zenon DEF NumbersAt
    <3>2. Number(c, p - k) = c[p - k] - 160
      <4>1. c[p - k] \in 160 .. 191
        BY ONLY <1>3, <2>10, Zenon
      <4> QED
        BY ONLY <2>4, <4>1, Zenon DEF NumbersAt
    <3> QED
      BY ONLY <1>3, <3>1, <3>2, Zenon
  <2>11. CASE ~IsMap(b[p]) /\ ~IsStr(b[p])
    BY <1>3, <2>3, <2>4, <2>11 DEF NumbersAt
  <2> QED
    BY ONLY <2>3, <2>7, <2>8, <2>9, <2>10, <2>11, Zenon DEF IsMap, IsStr
<1> QED
  BY <1>1, <1>3, <1>4

\* The values of c, read after the known bytes of b changed their places.
Prolongs(b, f, k, c, g) == Continues(b, k, c) /\ Reads(b, f) /\ Reads(c, g)

LaterBehind(b, f, k, g, p) ==
  \A q \in p + 1 .. Len(b) + 1, n \in Nat : Later(b, k, f[q][n], g[q - k][n])

LEMMA LaterEnd ==
  ASSUME NEW b, NEW f, NEW k \in Nat, NEW c, NEW g, Prolongs(b, f, k, c, g),
         NEW p \in Nat, p \in k + 1 .. Len(b), LaterBehind(b, f, k, g, p)
  PROVE  Later(b, k, ValueEnd(b, f, p), ValueEnd(c, g, p - k))
<1>1. b \in Seq(Nat) /\ c \in Seq(Nat) /\ Continues(b, k, c)
  BY DEF Prolongs, Continues
<1>2. PICK N \in Nat, M \in Nat : N = Len(b) /\ M = Len(c)
  BY <1>1
<1>3. k \in Nat /\ k <= N /\ k + M >= N
  BY <1>1, <1>2 DEF Continues
<1>4. p \in 1 .. N /\ p - k \in 1 .. M /\ c[p - k] = b[p]
  BY <1>1, <1>2, SameHead
<1>5. PICK h \in 1 .. 3 : h = HeadSize(b[p]) /\ h = HeadSize(c[p - k])
  BY <1>1, <1>2, <1>4, HeadFacts
<1>6. PICK e \in Places(c, p - k + 1) : e = ValueEnd(c, g, p - k)
  BY <1>1, <1>2, <1>4, ReadOne DEF Prolongs
<1>7. CASE ~HeadWhole(b, p)
  <2>1. p + h > N + 1
    BY <1>2, <1>4, <1>5, <1>7 DEF HeadWhole
  <2>2. ValueEnd(b, f, p) = Raises
    BY <1>1, <1>2, <1>4, <1>7, ValueEndIs
  <2>3. e = Raises \/ e > N - k + 1
    <3>1. CASE ~HeadWhole(c, p - k)
      BY <1>1, <1>2, <1>4, <1>6, <3>1, ValueEndIs
    <3>2. CASE HeadWhole(c, p - k) /\ IsMap(c[p - k])
      <4>1. PICK n \in Nat : n = Number(c, p - k)
        BY <1>1, <1>2, <1>4, <3>2, HeadFacts
      <4>2. e = g[p - k + h][n]
        BY <1>1, <1>2, <1>4, <1>5, <1>6, <3>2, <4>1, ValueEndIs
      <4>3. p - k + h \in 1 .. M + 1
        BY <1>2, <1>3, <1>4, <1>5, <3>2 DEF HeadWhole
      <4>4. e \in Places(c, p - k + h)
        BY <1>2, <4>2, <4>3 DEF Prolongs, Reads, ReadFrom
      <4> QED
        BY <1>2, <1>3, <2>1, <4>3, <4>4 DEF Places
    <3>3. CASE HeadWhole(c, p - k) /\ IsStr(c[p - k])
      <4>1. PICK n \in Nat : n = Number(c, p - k)
        BY <1>1, <1>2, <1>4, <3>3, HeadFacts
      <4>2. e = Need(c, p - k + h + n)
        BY <1>1, <1>2, <1>4, <1>5, <1>6, <3>3, <4>1, ValueEndIs
      <4> QED
        BY <1>2, <1>3, <1>4, <2>1, <4>2 DEF Need
    <3>4. CASE HeadWhole(c, p - k) /\ IsScalar(c[p - k])
      <4>1. e = p - k + h
        BY <1>1, <1>2, <1>4, <1>5, <1>6, <3>4, ValueEndIs
      <4> QED
        BY <1>2, <1>3, <1>4, <2>1, <4>1
    <3>5. CASE ~ (IsMap(c[p - k]) \/ IsStr(c[p - k]) \/ IsScalar(c[p - k]))
      BY <1>1, <1>2, <1>4, <1>6, <3>5, ValueEndIs
    <3> QED
      BY <3>1, <3>2, <3>3, <3>4, <3>5
  <2> QED
    BY <1>2, <1>6, <2>2, <2>3 DEF Later
<1>8. CASE HeadWhole(b, p)
  <2>1. p + h <= N + 1
    BY <1>2, <1>4, <1>5, <1>8 DEF HeadWhole
  <2>2. HeadWhole(c, p - k) /\ Number(c, p - k) = Number(b, p)
    BY <1>1, <1>8, SameHead
  <2>3. PICK n \in Nat : n = Number(b, p) /\ n = Number(c, p - k)
    BY <1>1, <1>2, <1>4, <1>8, <2>2, HeadFacts
  <2>4. CASE IsMap(b[p])
    <3>1. ValueEnd(b, f, p) = f[p + h][n] /\ e = g[p - k + h][n]
      BY <1>1, <1>2, <1>4, <1>5, <1>6, <1>8, <2>2, <2>3, <2>4, ValueEndIs
    <3>2. PICK q \in Nat : q = p + h
      OBVIOUS
    <3>3. q \in p + 1 .. Len(b) + 1 /\ q - k = p - k + h
      BY ONLY <1>2, <1>3, <2>1, <3>2, h \in 1 .. 3, N \in Nat, k \in Nat, p \in Nat, q \in Nat
    <3>4. Later(b, k, f[q][n], g[q - k][n])
      BY ONLY <3>3, LaterBehind(b, f, k, g, p), n \in Nat, SMT DEF LaterBehind
    <3> QED
      BY ONLY <1>6, <3>1, <3>2, <3>3, <3>4
  <2>5. CASE IsStr(b[p])
    <3>1. ValueEnd(b, f, p) = Need(b, p + h + n) /\ e = Need(c, p - k + h + n)
      BY <1>1, <1>2, <1>4, <1>5, <1>6, <1>8, <2>2, <2>3, <2>5, ValueEndIs
    <3>2. Later(b, k, Need(b, p + h + n), Need(c, p - k + h + n))
      <4>1. CASE p + h + n - 1 > N
        <5>1. p - k + h + n > N - k + 1
          BY ONLY <1>3, <1>4, <4>1, h \in 1 .. 3, N \in Nat, n \in Nat
        <5>2. /\ Need(b, p + h + n) = Raises
              /\ Need(c, p - k + h + n) \in {Raises, p - k + h + n}
          BY ONLY <1>2, <4>1 DEF Need
        <5> QED
          BY ONLY <1>2, <5>1, <5>2 DEF Later
      <4>2. CASE ~ (p + h + n - 1 > N)
        <5>1. p - k + h + n = p + h + n - k /\ p + h + n # 0
          BY ONLY p \in Nat, k \in Nat, h \in 1 .. 3, n \in Nat
        <5>2. ~ (p - k + h + n - 1 > M)
          BY ONLY <1>3, <4>2, p \in Nat, k \in Nat, h \in 1 .. 3, n \in Nat, N \in Nat,
                  M \in Nat
        <5>3. Need(b, p + h + n) = p + h + n
          BY ONLY <1>2, <4>2 DEF Need
        <5>4. Need(c, p - k + h + n) = p - k + h + n
          BY ONLY <1>2, <5>2 DEF Need
        <5> QED
          BY ONLY <5>1, <5>3, <5>4 DEF Later, Raises
      <4> QED
        BY <4>1, <4>2
    <3> QED
      BY <1>6, <3>1, <3>2
  <2>6. CASE IsScalar(b[p])
    <3>1. ValueEnd(b, f, p) = p + h
      <4>1. p \in 1 .. Len(b)
        BY ONLY <1>2, <1>4
      <4>2. ValueEnd(b, f, p) = p + HeadSize(b[p])
        BY ONLY <1>1, <1>8, <2>6, <4>1, ValueEndIs, Zenon
      <4> QED
        BY ONLY <1>5, <4>2
    <3>2. e = p - k + h
      <4>1. IsScalar(c[p - k])
        BY <1>4, <2>6
      <4> QED
        BY <1>1, <1>2, <1>4, <1>5, <1>6, <2>2, <4>1, ValueEndIs
    <3> QED
      BY <1>2, <1>3, <1>4, <1>6, <3>1, <3>2 DEF Later, Raises
  <2>7. CASE ~ (IsMap(b[p]) \/ IsStr(b[p]) \/ IsScalar(b[p]))
    <3>1. ValueEnd(b, f, p) = Raises /\ e = Raises
      BY <1>1, <1>2, <1>4, <1>6, <2>7, ValueEndIs
    <3> QED
      BY <1>6, <3>1 DEF Later
  <2> QED
    BY <2>4, <2>5, <2>6, <2>7
<1> QED
  BY <1>7, <1>8

\* Reading n values from p on.
LEMMA LaterItems ==
  ASSUME NEW b, NEW f, NEW k \in Nat, NEW c, NEW g, Prolongs(b, f, k, c, g),
         NEW p \in Nat, p \in k + 1 .. Len(b), LaterBehind(b, f, k, g, p), NEW n \in Nat
  PROVE  Later(b, k, f[p][n], g[p - k][n])
<1>1. b \in Seq(Nat) /\ c \in Seq(Nat) /\ Continues(b, k, c) /\ Reads(b, f) /\ Reads(c, g)
  BY DEF Prolongs, Continues
<1>2. PICK N \in Nat, M \in Nat : N = Len(b) /\ M = Len(c)
  BY <1>1
<1>3. k \in Nat /\ k <= N /\ k + M >= N
  BY <1>1, <1>2 DEF Continues
<1>4. p \in 1 .. N /\ p - k \in 1 .. M
  BY <1>2, <1>3
<1>5. PICK d \in Places(b, p + 1) : d = ValueEnd(b, f, p)
  BY <1>1, <1>2, <1>4, ReadOne
<1>6. PICK e \in Places(c, p - k + 1) : e = ValueEnd(c, g, p - k)
  BY <1>1, <1>2, <1>4, ReadOne
<1>7. Later(b, k, d, e)
  BY <1>5, <1>6, LaterEnd
<1>8. /\ f[p][n] = IF n = 0 THEN p ELSE IF d = Raises THEN Raises ELSE f[d][n - 1]
      /\ g[p - k][n] = IF n = 0 THEN p - k ELSE IF e = Raises THEN Raises ELSE g[e][n - 1]
  <2>1. f[p][n] = ReadStep(b, f, p, n) /\ g[p - k][n] = ReadStep(c, g, p - k, n)
    <3>1. p \in 1 .. Len(b) + 1 /\ p - k \in 1 .. Len(c) + 1
      BY <1>2, <1>4
    <3> QED
      BY ONLY <1>1, <3>1, ReadItems, n \in Nat, Zenon
  <2> QED
    BY <1>2, <1>4, <1>5, <1>6, <2>1 DEF ReadStep
<1>9. CASE n = 0
  BY <1>2, <1>4, <1>8, <1>9 DEF Later, Raises
<1>10. CASE n # 0
  <2>1. n - 1 \in Nat
    BY <1>10
  <2>2. e # Raises => g[e][n - 1] \in Places(c, e)
    <3>1. e # Raises => e \in 1 .. M + 1
      BY <1>2, <1>3, <1>4 DEF Places
    <3> QED
      BY <1>1, <1>2, <2>1, <3>1 DEF Reads, ReadFrom
  <2>3. CASE d = Raises
    <3>1. f[p][n] = Raises
      BY <1>8, <1>10, <2>3
    <3>2. e = Raises \/ e > N - k + 1
      BY <1>2, <1>7, <2>3 DEF Later
    <3>3. g[p - k][n] = Raises \/ g[p - k][n] > N - k + 1
      BY <1>2, <1>3, <1>8, <1>10, <2>2, <3>2 DEF Places
    <3> QED
      BY <1>2, <3>1, <3>3 DEF Later
  <2>4. CASE d # Raises
    <3>1. d \in p + 1 .. N + 1
      BY <1>2, <2>4 DEF Places
    <3>2. f[p][n] = f[d][n - 1] /\ f[d][n - 1] \in Places(b, d)
      <4>1. f[p][n] = f[d][n - 1]
        BY ONLY <1>8, <1>10, <2>4, Zenon
      <4>2. d \in 1 .. N + 1
        BY <1>4, <3>1
      <4> QED
        BY <1>1, <1>2, <2>1, <4>1, <4>2 DEF Reads, ReadFrom
    <3>3. CASE d = N + 1
      <4>1. f[p][n] = Raises \/ f[p][n] = N + 1
        BY <1>2, <3>2, <3>3 DEF Places
      <4>2. CASE f[p][n] = N + 1
        BY <1>2, <4>2 DEF Later, Raises
      <4>3. CASE f[p][n] = Raises
        <5>1. f[d][n - 1] = ReadStep(b, f, d, n - 1)
          <6>1. d \in 1 .. N + 1
            BY <3>3
          <6> QED
            BY <1>1, <1>2, <2>1, <6>1 DEF Reads, ReadFrom
        <5>2. ReadStep(b, f, d, n - 1) = N + 1
          BY <1>2, <3>3 DEF ReadStep
        <5>3. f[p][n] = N + 1
          BY ONLY <3>2, <5>1, <5>2
        <5> QED
          BY ONLY <4>3, <5>3, N \in Nat DEF Raises
      <4> QED
        BY <4>1, <4>2, <4>3
    <3>4. CASE d # N + 1
      <4>1. e = d - k /\ e # Raises
        BY <1>2, <1>3, <1>4, <1>7, <2>4, <3>1, <3>4 DEF Later, Raises
      <4>2. Later(b, k, f[d][n - 1], g[d - k][n - 1])
        BY <1>2, <2>1, <3>1 DEF LaterBehind
      <4> QED
        BY <1>8, <1>10, <3>2, <4>1, <4>2
    <3> QED
      BY <3>3, <3>4
  <2> QED
    BY <2>3, <2>4
<1> QED
  BY <1>9, <1>10

LEMMA LaterAll ==
  ASSUME NEW b, NEW f, NEW k \in Nat, NEW c, NEW g, Prolongs(b, f, k, c, g),
         NEW p \in Nat, p \in k + 1 .. Len(b), NEW n \in Nat
  PROVE  Later(b, k, f[p][n], g[p - k][n])
<1>1. PICK N \in Nat : N = Len(b)
  BY DEF Prolongs, Continues
<1> DEFINE P == {q \in 1 .. N + 1 : q > k =>
                   \A m \in Nat : Later(b, k, f[q][m], g[q - k][m])}
<1>2. ASSUME NEW q \in 1 .. N + 1, \A r \in q + 1 .. N + 1 : r \in P
      PROVE  q \in P
  <2>1. CASE q <= k
    BY <1>1, <2>1
  <2>2. CASE q > k /\ q <= N
    <3>1. LaterBehind(b, f, k, g, q)
      <4>1. ASSUME NEW r \in q + 1 .. N + 1, NEW m \in Nat
            PROVE  Later(b, k, f[r][m], g[r - k][m])
        <5>1. r \in P /\ r > k
          BY <1>1, <1>2, <2>2
        <5> QED
          BY <5>1
      <4> QED
        BY <1>1, <4>1 DEF LaterBehind
    <3>2. q \in Nat /\ q \in k + 1 .. Len(b)
      BY <1>1, <2>2
    <3>3. \A m \in Nat : Later(b, k, f[q][m], g[q - k][m])
      BY ONLY <3>1, <3>2, Prolongs(b, f, k, c, g), k \in Nat, LaterItems, Zenon
    <3> QED
      BY <3>3
  <2>3. CASE q = N + 1
    <3>1. ASSUME NEW m \in Nat PROVE Later(b, k, f[q][m], g[q - k][m])
      <4>1. q \in 1 .. Len(b) + 1 /\ b \in Seq(Nat)
        BY <1>1, <2>3 DEF Prolongs, Continues
      <4>2. f[q][m] = ReadStep(b, f, q, m)
        BY <4>1, ReadItems DEF Prolongs
      <4>3. ReadStep(b, f, q, m) = N + 1
        BY <1>1, <2>3 DEF ReadStep
      <4>4. f[q][m] = N + 1
        BY <4>2, <4>3
      <4> QED
        BY ONLY <1>1, <4>4, N \in Nat DEF Later, Raises
    <3> QED
      BY <3>1
  <2> QED
    BY <1>1, <2>1, <2>2, <2>3
<1>3. 1 .. N + 1 \subseteq P
  <2> HIDE DEF P
  <2> QED
    BY <1>1, <1>2, Downward
<1>4. p \in P /\ p > k
  <2>1. p \in 1 .. N + 1 /\ p > k
    BY <1>1
  <2> QED
    BY <1>3, <2>1
<1> QED
  BY <1>4

-----------------------------------------------------------------------------
(* The loop of decode_messages: it goes on while there is a message at p. *)

Text(b, v, p) == SubSeq(b, p + HeadLen(b[p]), v[p] - 1)

Takes(b, v, p) == /\ p <= Len(b) /\ v[p] # Raises
                  /\ IsMap(b[p]) \/ (IsStr(b[p]) /\ IsMessage(Text(b, v, p)))

\* The reader is at something that is no message, or not yet.
Waits(b) == b = <<>> \/ ~Takes(b, ReadAt(b), 1)

\* What the handler waited for does not become a message within the bytes it had.
LEMMA WaitsLonger ==
  ASSUME NEW b, NEW k \in Nat, NEW c, Continues(b, k, c), k < Len(b),
         ~Takes(b, ReadAt(b), k + 1), Takes(c, ReadAt(c), 1)
  PROVE  ReadAt(c)[1] > Len(b) - k + 1
<1>1. b \in Seq(Nat) /\ c \in Seq(Nat)
  BY DEF Continues
<1>2. PICK f : Reads(b, f) /\ ReadAt(b) = [p \in 1 .. Len(b) + 1 |-> f[p][1]]
  BY <1>1, ReadDone
<1>3. PICK g : Reads(c, g) /\ ReadAt(c) = [p \in 1 .. Len(c) + 1 |-> g[p][1]]
  BY <1>1, ReadDone
<1>4. PICK N \in Nat, M \in Nat : N = Len(b) /\ M = Len(c)
  BY <1>1
<1>5. PICK p \in 1 .. N : p = k + 1
  BY <1>4
<1>6. p - k = 1 /\ p \in k + 1 .. Len(b) /\ 1 \in 1 .. M
  BY <1>4, <1>5 DEF Continues
<1>7. PICK at, v : at = f[p][1] /\ v = g[1][1] /\ ReadAt(b)[p] = at /\ ReadAt(c)[1] = v
  <2>1. p \in 1 .. Len(b) + 1 /\ 1 \in 1 .. Len(c) + 1
    BY <1>4, <1>6
  <2>2. ReadAt(b)[p] = f[p][1]
    BY ONLY <1>2, <2>1, Zenon
  <2>3. ReadAt(c)[1] = g[1][1]
    BY ONLY <1>3, <2>1, Zenon
  <2> QED
    BY ONLY <2>2, <2>3, Zenon
<1>8. Later(b, k, at, v)
  <2>1. Prolongs(b, f, k, c, g)
    BY <1>2, <1>3 DEF Prolongs
  <2>2. Later(b, k, f[p][1], g[p - k][1])
    BY <1>6, <2>1, LaterAll
  <2> QED
    BY <1>6, <1>7, <2>2
<1>9. v \in Nat /\ v # Raises
  <2>1. v \in Places(c, 1)
    BY <1>3, <1>4, <1>6, <1>7, ReadItems
  <2> QED
    BY <1>4, <1>7, <2>1 DEF Places, Takes, Raises
<1>10. b[p] = c[1]
  BY <1>5, <1>6, SameHead
<1>11. CASE at = Raises
  BY <1>4, <1>7, <1>8, <1>9, <1>11 DEF Later
<1>12. CASE at # Raises
  <2>1. IsStr(b[p]) /\ ~IsMessage(Text(b, ReadAt(b), p)) /\ IsMessage(Text(c, ReadAt(c), 1))
    <3>1. p <= Len(b) /\ p = k + 1
      BY <1>4, <1>5
    <3>2. ~Takes(b, ReadAt(b), p)
      BY ONLY <3>1, ~Takes(b, ReadAt(b), k + 1), Zenon
    <3>3. ~IsMap(b[p]) /\ ~ (IsStr(b[p]) /\ IsMessage(Text(b, ReadAt(b), p)))
      <4>1. ReadAt(b)[p] # Raises
        BY ONLY <1>7, <1>12
      <4>2. p <= Len(b)
        BY ONLY <3>1
      <4> QED
        BY ONLY <3>2, <4>1, <4>2, Zenon DEF Takes
    <3>4. IsMap(c[1]) \/ (IsStr(c[1]) /\ IsMessage(Text(c, ReadAt(c), 1)))
      BY ONLY Takes(c, ReadAt(c), 1), Zenon DEF Takes
    <3> QED
      BY ONLY <1>10, <3>3, <3>4, Zenon
  <2>2. at = ValueEnd(b, f, p) /\ v = ValueEnd(c, g, 1)
    <3>1. p \in 1 .. Len(b) /\ 1 \in 1 .. Len(c)
      BY <1>4, <1>6
    <3> QED
      BY <1>1, <1>2, <1>3, <1>7, <3>1, ReadOne
  <2>3. PICK h \in 1 .. 3 : h = HeadSize(b[p]) /\ h = HeadLen(b[p])
    BY <1>1, <1>4, <2>1, HeadFacts, HeadSizes
  <2>4. HeadWhole(b, p)
    BY <1>1, <1>4, <1>12, <2>2, ValueEndIs
  <2>5. HeadWhole(c, 1) /\ Number(c, 1) = Number(b, p)
    BY <1>6, <2>4, SameHead
  <2>6. PICK n \in Nat : n = Number(b, p)
    BY <1>1, <1>4, <2>4, HeadFacts
  <2>7. at = Need(b, p + h + n) /\ v = Need(c, 1 + h + n)
    BY <1>1, <1>4, <1>6, <1>10, <2>1, <2>2, <2>3, <2>4, <2>5, <2>6, ValueEndIs
  <2>8. at = p + h + n /\ p + h + n - 1 <= N /\ v = 1 + h + n
    BY <1>4, <1>9, <1>12, <2>7 DEF Need, Raises
  <2>9. Text(b, ReadAt(b), p) = SubSeq(b, p + h, p + h + n - 1)
    <3>1. ReadAt(b)[p] - 1 = p + h + n - 1
      BY ONLY <1>7, <2>8
    <3> QED
      BY ONLY <2>3, <3>1, Zenon DEF Text
  <2>10. Text(c, ReadAt(c), 1) = SubSeq(c, 1 + h, 1 + h + n - 1)
    <3>1. ReadAt(c)[1] - 1 = 1 + h + n - 1
      BY ONLY <1>7, <2>8
    <3> QED
      BY ONLY <1>10, <2>3, <3>1, Zenon DEF Text
  <2>11. SubSeq(b, p + h, p + h + n - 1) = SubSeq(c, 1 + h, 1 + h + n - 1)
    <3>1. k \in Nat /\ k + M >= N
      BY <1>4 DEF Continues
    <3>2. PICK i \in 1 .. N + 1, j \in 0 .. N, u \in 1 .. M + 1, l \in 0 .. M :
            /\ i = p + h /\ j = p + h + n - 1 /\ u = 1 + h /\ l = 1 + h + n - 1
            /\ i <= j + 1 /\ l - u = j - i /\ u - i = 0 - k
      BY ONLY <1>5, <2>8, <3>1, h \in 1 .. 3, n \in Nat, N \in Nat, M \in Nat, k \in Nat,
              p \in 1 .. N
    <3>3. ASSUME NEW m \in i .. j PROVE b[m] = c[m + (u - i)]
      <4>1. m \in k + 1 .. Len(b) /\ m + (u - i) = m - k
        BY ONLY <1>4, <1>5, <3>2, k \in Nat, p \in 1 .. N, N \in Nat, n \in Nat,
                h \in 1 .. 3, m \in i .. j
      <4>2. c[m - k] = b[m]
        BY ONLY <4>1, Continues(b, k, c), Zenon DEF Continues
      <4> QED
        BY ONLY <4>1, <4>2, Zenon
    <3>4. SubSeq(b, i, j) = SubSeq(c, u, l)
      <4>1. /\ i \in 1 .. Len(b) + 1 /\ j \in 0 .. Len(b)
            /\ u \in 1 .. Len(c) + 1 /\ l \in 0 .. Len(c)
        BY ONLY <1>4, <3>2
      <4>2. i <= j + 1 /\ l - u = j - i /\ \A m \in i .. j : b[m] = c[m + (u - i)]
        BY ONLY <3>2, <3>3
      <4>3. \A x, y \in Seq(Nat) :
              i \in 1 .. Len(x) + 1 /\ j \in 0 .. Len(x) /\ u \in 1 .. Len(y) + 1
              /\ l \in 0 .. Len(y) /\ (\A m \in i .. j : x[m] = y[m + (u - i)]) =>
                SubSeq(x, i, j) = SubSeq(y, u, l)
        <5> SUFFICES ASSUME NEW x \in Seq(Nat), NEW y \in Seq(Nat),
                            i \in 1 .. Len(x) + 1, j \in 0 .. Len(x),
                            u \in 1 .. Len(y) + 1, l \in 0 .. Len(y),
                            \A m \in i .. j : x[m] = y[m + (u - i)]
                     PROVE  SubSeq(x, i, j) = SubSeq(y, u, l)
          OBVIOUS
        <5> QED
          BY <4>2, SameParts
      <4> QED
        BY ONLY <1>1, <4>1, <4>2, <4>3, Zenon
    <3> QED
      BY ONLY <3>2, <3>4, Zenon
  <2> QED
    BY <2>1, <2>9, <2>10, <2>11
<1> QED
  BY <1>11, <1>12

\* A value that is read ends behind its first byte.
Values(b, v) == \A p \in 1 .. Len(b) : v[p] \in Places(b, p + 1)

LEMMA ReadValues ==
  ASSUME NEW b \in Seq(Nat)
  PROVE  Values(b, ReadAt(b))
<1>1. PICK f : Reads(b, f) /\ ReadAt(b) = [p \in 1 .. Len(b) + 1 |-> f[p][1]]
  BY ReadDone
<1>2. ASSUME NEW p \in 1 .. Len(b) PROVE ReadAt(b)[p] \in Places(b, p + 1)
  <2>1. p \in 1 .. Len(b) + 1
    OBVIOUS
  <2>2. ReadAt(b)[p] = f[p][1]
    BY ONLY <1>1, <2>1, Zenon
  <2> QED
    BY <1>1, <2>2, ReadOne
<1> QED
  BY <1>2 DEF Values

\* What the loop does at p, as Messages has it.
Loop(b, v, f, p) ==
  LET N    == Len(b)
      q    == v[p]
      body == SubSeq(b, p + HeadLen(b[p]), q - 1)
      Take(m) == [f[q] EXCEPT !.msgs = <<m>> \o @]
  IN  CASE p <= N /\ q # Raises /\ IsMap(b[p]) -> Take(SubSeq(b, p, q - 1))
        [] p <= N /\ q # Raises /\ IsStr(b[p]) /\ IsMessage(body) -> Take(body)
        [] OTHER -> [msgs |-> <<>>, rest |-> SubSeq(b, p, N)]

LEMMA LoopIs ==
  ASSUME NEW b, \E f : f = [p \in 1 .. Len(b) + 1 |-> Loop(b, ReadAt(b), f, p)]
  PROVE  \E f : /\ f = [p \in 1 .. Len(b) + 1 |-> Loop(b, ReadAt(b), f, p)]
                /\ Messages(b) = f[1]
<1> DEFINE g == CHOOSE f : f = [p \in 1 .. Len(b) + 1 |-> Loop(b, ReadAt(b), f, p)]
<1>1. g = [p \in 1 .. Len(b) + 1 |-> Loop(b, ReadAt(b), g, p)]
  OBVIOUS
<1>2. Messages(b) = g[1]
  BY DEF Messages, Loop
<1> QED
  BY <1>1, <1>2

Adding(m, r) == [r EXCEPT !.msgs = <<m>> \o @]
Stops(b, p) == [msgs |-> <<>>, rest |-> SubSeq(b, p, Len(b))]

LEMMA LoopFacts ==
  ASSUME NEW b \in Seq(Nat), NEW v, Values(b, v), NEW p \in 1 .. Len(b) + 1
  PROVE  /\ ~Takes(b, v, p) => \A f : Loop(b, v, f, p) = Stops(b, p)
         /\ Takes(b, v, p) =>
              /\ v[p] \in p + 1 .. Len(b) + 1
              /\ \E m : \A f : Loop(b, v, f, p) = Adding(m, f[v[p]])
<1>1. PICK x : x = b[p]
  OBVIOUS
<1>2. PICK e : e = v[p]
  OBVIOUS
<1>3. ASSUME Takes(b, v, p) PROVE e \in p + 1 .. Len(b) + 1
  <2>1. p \in 1 .. Len(b) /\ e # Raises
    BY <1>2, <1>3 DEF Takes
  <2>2. e \in Places(b, p + 1)
    BY <1>2, <2>1 DEF Values
  <2> QED
    BY <2>1, <2>2 DEF Places
<1>4. PICK t : t = SubSeq(b, p + HeadLen(x), e - 1)
  OBVIOUS
<1>5. Text(b, v, p) = t
  BY <1>1, <1>2, <1>4, Zenon DEF Text
<1>6. CASE ~Takes(b, v, p)
  <2>1. ~ (p <= Len(b) /\ e # Raises /\ IsMap(x))
        /\ ~ (p <= Len(b) /\ e # Raises /\ IsStr(x) /\ IsMessage(t))
    BY <1>1, <1>2, <1>5, <1>6, Zenon DEF Takes
  <2>2. \A f : Loop(b, v, f, p) = Stops(b, p)
    BY ONLY <1>1, <1>2, <1>4, <2>1, Zenon DEF Loop, Stops
  <2> QED
    BY <1>6, <2>2
<1>7. CASE Takes(b, v, p) /\ IsMap(x)
  <2>1. ~IsStr(x) /\ p <= Len(b) /\ e # Raises
    <3>1. p \in 1 .. Len(b) /\ e # Raises
      BY <1>2, <1>7 DEF Takes
    <3>2. x \in Nat
      BY <1>1, <3>1
    <3> QED
      BY <1>7, <3>1, <3>2, HeadSizes
  <2>2. PICK m : m = SubSeq(b, p, e - 1)
    OBVIOUS
  <2>3. \A f : Loop(b, v, f, p) = Adding(m, f[e])
    BY ONLY <1>1, <1>2, <1>4, <1>7, <2>1, <2>2, Zenon DEF Loop, Adding
  <2> QED
    BY ONLY <1>2, <1>3, <1>7, <2>3, Zenon
<1>8. CASE Takes(b, v, p) /\ ~IsMap(x)
  <2>1. IsStr(x) /\ IsMessage(t) /\ p <= Len(b) /\ e # Raises
    BY <1>1, <1>2, <1>5, <1>8, Zenon DEF Takes
  <2>2. \A f : Loop(b, v, f, p) = Adding(t, f[e])
    BY ONLY <1>1, <1>2, <1>4, <1>8, <2>1, Zenon DEF Loop, Adding
  <2> QED
    BY ONLY <1>2, <1>3, <1>8, <2>2, Zenon
<1> QED
  BY <1>6, <1>7, <1>8

LEMMA LoopAhead ==
  ASSUME NEW b \in Seq(Nat), NEW v, Values(b, v), NEW p \in 1 .. Len(b) + 1,
         NEW f, NEW g, \A q \in p + 1 .. Len(b) + 1 : f[q] = g[q]
  PROVE  Loop(b, v, f, p) = Loop(b, v, g, p)
<1>1. CASE Takes(b, v, p)
  <2>1. f[v[p]] = g[v[p]]
    BY <1>1, LoopFacts
  <2>2. PICK m : \A h : Loop(b, v, h, p) = Adding(m, h[v[p]])
    BY <1>1, LoopFacts
  <2> QED
    BY ONLY <2>1, <2>2
<1>2. CASE ~Takes(b, v, p)
  <2>1. \A h : Loop(b, v, h, p) = Stops(b, p)
    BY <1>2, LoopFacts
  <2> QED
    BY ONLY <2>1
<1> QED
  BY <1>1, <1>2

\* The loop comes to an end on every stream.
LEMMA LoopEnds ==
  ASSUME NEW b \in Seq(Nat), NEW v, Values(b, v)
  PROVE  \E f : f = [p \in 1 .. Len(b) + 1 |-> Loop(b, v, f, p)]
<1>1. PICK N \in Nat : N = Len(b)
  OBVIOUS
<1> DEFINE Part(k, g) == \A p \in k .. N + 1 : g[p] = Loop(b, v, g, p)
           P == {k \in 1 .. N + 1 : \E g : Part(k, g)}
<1>2. ASSUME NEW p \in 1 .. N + 1, \A q \in p + 1 .. N + 1 : q \in P
      PROVE  p \in P
  <2>1. PICK g : \A q \in p + 1 .. N + 1 : g[q] = Loop(b, v, g, q)
    <3>1. CASE p = N + 1
      <4>1. p + 1 .. N + 1 = {}
        BY <3>1
      <4> QED
        BY <4>1
    <3>2. CASE p # N + 1
      <4>1. p + 1 \in p + 1 .. N + 1
        BY <3>2
      <4>2. p + 1 \in P
        BY ONLY <1>2, <4>1, Zenon
      <4> QED
        BY <4>2
    <3> QED
      BY <3>1, <3>2
  <2> DEFINE h == [q \in p .. N + 1 |-> IF q = p THEN Loop(b, v, g, p) ELSE g[q]]
  <2>2. (\A q \in p + 1 .. N + 1 : h[q] = g[q]) /\ h[p] = Loop(b, v, g, p)
    OBVIOUS
  <2>3. ASSUME NEW q \in p .. N + 1 PROVE h[q] = Loop(b, v, h, q)
    <3> HIDE DEF h
    <3>1. q \in 1 .. Len(b) + 1 /\ \A r \in q + 1 .. Len(b) + 1 : h[r] = g[r]
      BY <1>1, <2>2
    <3>2. Loop(b, v, h, q) = Loop(b, v, g, q)
      BY <3>1, LoopAhead
    <3>3. q = p \/ q \in p + 1 .. N + 1
      OBVIOUS
    <3> QED
      BY <2>1, <2>2, <3>2, <3>3
  <2> QED
    BY <2>3
<1>3. 1 \in P
  <2> HIDE DEF P
  <2>1. 1 .. N + 1 \subseteq P
    BY <1>2, Downward
  <2> QED
    BY <2>1
<1>4. PICK g : Part(1, g)
  BY <1>3
<1> DEFINE f == [p \in 1 .. N + 1 |-> g[p]]
<1>5. \A p \in 1 .. N + 1 : f[p] = g[p]
  OBVIOUS
<1>6. ASSUME NEW p \in 1 .. N + 1 PROVE g[p] = Loop(b, v, f, p)
  <2> HIDE DEF f
  <2>1. p \in 1 .. Len(b) + 1 /\ \A q \in p + 1 .. Len(b) + 1 : f[q] = g[q]
    BY <1>1, <1>5
  <2>2. Loop(b, v, f, p) = Loop(b, v, g, p)
    BY <2>1, LoopAhead
  <2> QED
    BY <1>4, <2>2
<1>7. f = [p \in 1 .. N + 1 |-> Loop(b, v, f, p)]
  BY <1>6
<1> QED
  BY <1>1, <1>7

\* r is what the loop may return from p on: at the end of r the reader waits, behind
\* what was taken at p.
Leaves(b, v, p, r) ==
  \E q \in p .. Len(b) + 1 :
    /\ \E m : r = [msgs |-> m, rest |-> SubSeq(b, q, Len(b))]
    /\ ~Takes(b, v, q)
    /\ Takes(b, v, p) => q >= v[p]
    /\ ~Takes(b, v, p) => q = p /\ r.msgs = <<>>

LEMMA MessagesDone ==
  ASSUME NEW b \in Seq(Nat)
  PROVE  Leaves(b, ReadAt(b), 1, Messages(b))
<1>1. PICK N \in Nat : N = Len(b)
  OBVIOUS
<1>2. PICK v : v = ReadAt(b) /\ Values(b, v)
  BY ReadValues
<1>3. PICK f : f = [p \in 1 .. N + 1 |-> Loop(b, v, f, p)] /\ Messages(b) = f[1]
  BY <1>1, <1>2, LoopEnds, LoopIs
<1> DEFINE P == {p \in 1 .. N + 1 : Leaves(b, v, p, f[p])}
<1>4. ASSUME NEW p \in 1 .. N + 1, \A q \in p + 1 .. N + 1 : q \in P
      PROVE  p \in P
  <2>1. f[p] = Loop(b, v, f, p)
    BY ONLY <1>3, p \in 1 .. N + 1, Zenon
  <2>2. CASE ~Takes(b, v, p)
    <3>1. f[p] = Stops(b, p)
      BY <1>1, <1>2, <2>1, <2>2, LoopFacts
    <3>2. p \in p .. Len(b) + 1
      BY <1>1
    <3>3. f[p] = [msgs |-> <<>>, rest |-> SubSeq(b, p, Len(b))]
      BY <3>1 DEF Stops
    <3>4. f[p].msgs = <<>>
      BY <3>3
    <3>5. Leaves(b, v, p, f[p])
      BY ONLY <2>2, <3>2, <3>3, <3>4, Zenon DEF Leaves
    <3> QED
      BY <3>5
  <2>3. CASE Takes(b, v, p)
    <3>1. PICK e \in p + 1 .. N + 1 : e = v[p]
      BY <1>1, <1>2, <2>3, LoopFacts
    <3>2. PICK m : f[p] = Adding(m, f[e])
      <4>1. \E m : \A h : Loop(b, v, h, p) = Adding(m, h[v[p]])
        <5>1. p \in 1 .. Len(b) + 1
          BY <1>1
        <5>2. Values(b, v)
          BY <1>2
        <5> QED
          BY ONLY <2>3, <5>1, <5>2, b \in Seq(Nat), LoopFacts, Zenon
      <4> QED
        BY ONLY <2>1, <3>1, <4>1, Zenon
    <3>3. PICK q \in e .. N + 1 : ~Takes(b, v, q)
                                /\ \E ms : f[e] = [msgs |-> ms, rest |-> SubSeq(b, q, N)]
      BY <1>1, <1>4, <3>1 DEF Leaves
    <3>6. PICK ms : f[e] = [msgs |-> ms, rest |-> SubSeq(b, q, N)]
      BY <3>3
    <3>4. f[p] = [msgs |-> <<m>> \o ms, rest |-> SubSeq(b, q, N)]
      <4>1. PICK r : r = f[e]
        OBVIOUS
      <4>2. PICK rs : rs = SubSeq(b, q, N)
        OBVIOUS
      <4>3. PICK x : x = <<m>> \o ms
        OBVIOUS
      <4>4. r = [msgs |-> ms, rest |-> rs]
        BY ONLY <3>6, <4>1, <4>2, Zenon
      <4>5. r.msgs = ms
        BY ONLY <4>4
      <4>6. Adding(m, r) = [r EXCEPT !.msgs = x]
        BY ONLY <4>3, <4>5, Zenon DEF Adding
      <4>7. [r EXCEPT !.msgs = x] = [msgs |-> x, rest |-> rs]
        BY ONLY <4>4
      <4> QED
        BY ONLY <3>2, <4>1, <4>2, <4>3, <4>6, <4>7, Zenon
    <3>5. q \in p .. Len(b) + 1 /\ q >= v[p]
      BY <1>1, <3>1
    <3> QED
      BY <1>1, <2>3, <3>3, <3>4, <3>5 DEF Leaves
  <2> QED
    BY <2>2, <2>3
<1>5. 1 \in P
  <2> HIDE DEF P
  <2>1. 1 .. N + 1 \subseteq P
    BY <1>4, Downward
  <2> QED
    BY <2>1
<1> QED
  BY <1>2, <1>3, <1>5

-----------------------------------------------------------------------------
(* The handler of the raw family. *)

\* What is left of the remainder and a piece of n bytes, before the sanity limit: the
\* reader waits again, and if there was a message nothing but the piece is left.
LEMMA MessagesLeave ==
  ASSUME NEW b \in Seq(Nat), Waits(b), NEW c \in Seq(Nat)
  PROVE  LET d == Messages(b \o c) IN
         /\ d.rest \in Seq(Nat) /\ Waits(d.rest)
         /\ d.msgs # <<>> => Len(d.rest) < Len(c)
<1>1. PICK a : a = b \o c
  OBVIOUS
<1>2. a \in Seq(Nat) /\ Len(a) = Len(b) + Len(c) /\ \A i \in 1 .. Len(b) : a[i] = b[i]
  BY <1>1, Joined
<1>3. PICK N \in Nat, M \in Nat, K \in Nat : N = Len(a) /\ M = Len(b) /\ K = Len(c)
                                              /\ N = M + K
  BY <1>2
<1>4. PICK v : v = ReadAt(a) /\ Values(a, v)
  BY <1>2, ReadValues
<1>5. PICK d : d = Messages(a)
  OBVIOUS
<1>6. Leaves(a, v, 1, d)
  BY <1>2, <1>4, <1>5, MessagesDone
<1>7. PICK q \in 1 .. N + 1 : /\ \E m : d = [msgs |-> m, rest |-> SubSeq(a, q, N)]
                              /\ ~Takes(a, v, q)
                              /\ Takes(a, v, 1) => q >= v[1]
                              /\ ~Takes(a, v, 1) => q = 1 /\ d.msgs = <<>>
  BY ONLY <1>3, <1>6, Zenon DEF Leaves
<1>8. PICK r : r = SubSeq(a, q, N)
  OBVIOUS
<1>9. /\ r \in Seq(Nat) /\ Len(r) = N - q + 1
      /\ \A i \in 1 .. N - q + 1 : r[i] = a[i + q - 1]
  <2>1. q \in 1 .. Len(a) + 1 /\ N \in 0 .. Len(a) /\ q <= N + 1
    BY <1>3
  <2> QED
    BY ONLY <1>2, <1>8, <2>1, PartOf
<1>10. d.rest = r
  BY <1>7, <1>8
<1>11. Waits(r)
  <2> SUFFICES ASSUME r # <<>>, Takes(r, ReadAt(r), 1) PROVE FALSE
    BY DEF Waits
  <2>1. q <= N
    BY <1>3, <1>9
  <2>2. PICK k \in Nat : k = q - 1
    BY <1>7
  <2>3. Continues(a, k, r)
    <3>1. k \in 0 .. Len(a) /\ k + Len(r) >= Len(a)
      BY <1>3, <1>9, <2>1, <2>2
    <3>2. ASSUME NEW i \in k + 1 .. Len(a) PROVE r[i - k] = a[i]
      <4>1. i - k \in 1 .. N - q + 1 /\ i - k + q - 1 = i
        BY <1>3, <2>2
      <4> QED
        BY <1>9, <4>1
    <3> QED
      BY <1>2, <1>9, <3>1, <3>2 DEF Continues
  <2>4. k < Len(a) /\ ~Takes(a, ReadAt(a), k + 1)
    <3>1. k + 1 = q
      BY <2>2
    <3> QED
      BY <1>3, <1>4, <1>7, <2>1, <2>2, <3>1
  <2>5. ReadAt(r)[1] > Len(a) - k + 1
    BY <2>3, <2>4, WaitsLonger
  <2>6. ReadAt(r)[1] \in Places(r, 2)
    <3>1. 1 \in 1 .. Len(r)
      BY <1>3, <1>9, <2>1
    <3>2. Values(r, ReadAt(r))
      BY <1>9, ReadValues
    <3> QED
      BY <3>1, <3>2 DEF Values
  <2> QED
    BY <1>3, <1>9, <2>1, <2>2, <2>5, <2>6 DEF Places, Raises
<1>12. ASSUME d.msgs # <<>> PROVE Len(r) < Len(c)
  <2>1. Takes(a, v, 1) /\ q >= v[1]
    BY <1>7, <1>12
  <2>2. v[1] \in Places(a, 2) /\ v[1] # Raises
    <3>1. 1 \in 1 .. Len(a) /\ v[1] # Raises
      BY <1>2, <2>1 DEF Takes
    <3> QED
      BY <1>4, <3>1 DEF Values
  <2>3. CASE b = <<>>
    <3>1. M = 0
      BY <1>3, <2>3
    <3> QED
      BY <1>3, <1>9, <2>1, <2>2, <3>1 DEF Places, Raises
  <2>4. CASE b # <<>>
    <3>1. Continues(b, 0, a) /\ 0 < Len(b)
      <4>1. 0 \in 0 .. Len(b) /\ 0 + Len(a) >= Len(b) /\ 0 < Len(b)
        BY <1>3, <2>4
      <4>2. ASSUME NEW i \in 0 + 1 .. Len(b) PROVE a[i - 0] = b[i]
        <5>1. i - 0 = i /\ i \in 1 .. Len(b)
          BY <1>3
        <5> QED
          BY <1>2, <5>1
      <4> QED
        BY <1>2, <4>1, <4>2 DEF Continues
    <3>2. ~Takes(b, ReadAt(b), 0 + 1)
      BY <2>4 DEF Waits
    <3>3. ReadAt(a)[1] > Len(b) - 0 + 1
      <4>1. Takes(a, ReadAt(a), 1)
        BY <1>4, <2>1
      <4> QED
        BY <3>1, <3>2, <4>1, WaitsLonger
    <3>4. v[1] > M + 1
      BY <1>3, <1>4, <3>3
    <3> QED
      BY <1>3, <1>9, <2>1, <2>2, <3>4 DEF Places, Raises
  <2> QED
    BY <2>3, <2>4
<1> QED
  BY <1>1, <1>5, <1>9, <1>10, <1>11, <1>12

LEMMA RawEncoded ==
  ASSUME NEW s \in Seq(Nat)
  PROVE  EncodeRaw(s) \in Seq(Nat)
<1>1. PICK n \in Nat : n = Len(s)
  OBVIOUS
<1>2. PICK h \in Nat, l \in Nat, m \in Nat : h = n \div 256 /\ l = n % 256 /\ m = 160 + n
  OBVIOUS
<1>3. PICK a \in Seq(Nat), c \in Seq(Nat), e \in Seq(Nat) :
        a = <<m>> /\ c = <<217, n>> /\ e = <<218, h, l>>
  <2>1. <<m>> \in Seq(Nat) /\ <<217, n>> \in Seq(Nat) /\ <<218, h, l>> \in Seq(Nat)
    OBVIOUS
  <2> QED
    BY ONLY <2>1, Zenon
<1>4. a \o s \in Seq(Nat) /\ c \o s \in Seq(Nat) /\ e \o s \in Seq(Nat)
  OBVIOUS
<1>5. CASE n < 32
  BY <1>1, <1>2, <1>3, <1>4, <1>5 DEF EncodeRaw
<1>6. CASE n >= 32 /\ n < 256
  BY <1>1, <1>2, <1>3, <1>4, <1>6 DEF EncodeRaw
<1>7. CASE n >= 256
  BY <1>1, <1>2, <1>3, <1>4, <1>7 DEF EncodeRaw
<1> QED
  BY <1>5, <1>6, <1>7

LEMMA RawBytes ==
  ASSUME family = "raw", NEW k \in Nat, NEW x \in Things
  PROVE  Bytes(k, x) \in Seq(Nat)
<1>1. \A s \in Seq(Nat) : Encode(s) \in Seq(Nat)
  BY RawEncoded DEF Encode
<1>2. CASE x.what = "message"
  <2>1. Payload(k, x.size) \in Seq(Nat)
    <3>1. x.size \in Sizes
      BY <1>2 DEF Things
    <3> QED
      BY <3>1, PayloadFacts
  <2> QED
    BY <1>1, <1>2, <2>1 DEF Bytes
<1>3. PICK y \in Seq(Nat), z \in Seq(Nat) : y = Encode(<<Open, Open>>) /\ z = Encode(<<49>>)
  BY <1>1, Texts
<1>4. CASE x.what = "text"
  BY <1>3, <1>4 DEF Bytes
<1>5. CASE x.what = "number"
  BY <1>3, <1>5 DEF Bytes
<1>6. CASE x.what = "overlong"
  <2>1. PICK c \in Seq(Nat) : c = <<Close>>
    BY GarbageFacts
  <2>2. Bytes(k, x) = y \o c
    BY <1>3, <1>6, <2>1 DEF Bytes
  <2> QED
    BY <2>2
<1>7. CASE x.what = "stray"
  BY <1>7 DEF Bytes
<1>9. CASE x.what = "zero"
  BY <1>9 DEF Bytes
<1>10. CASE x.what = "insane"
  BY <1>10 DEF Bytes, Open, Close
<1>8. CASE x.what = "map"
  <2>1. 64 + k \in Nat
    OBVIOUS
  <2> QED
    BY <1>8, <2>1 DEF Bytes
<1> QED
  BY <1>2, <1>4, <1>5, <1>6, <1>7, <1>8, <1>9, <1>10 DEF Things

RawInv ==
  family = "raw" =>
    /\ sent \in Seq(Things) /\ wire \in Seq(Nat) /\ buf \in Seq(Nat)
    /\ Waits(buf)
    /\ Len(buf) <= SanityLimit \/ Len(buf) < MaxChunk

LEMMA ReceiveRaw ==
  ASSUME family = "raw", RawInv, NEW n \in 1 .. MaxChunk, Receive(n)
  PROVE  RawInv'
<1>1. PICK b \in Seq(Nat), w \in Seq(Nat) : b = buf /\ w = wire
  BY DEF RawInv
<1>2. PICK W \in Nat : W = Len(w) /\ n <= W /\ n \in Nat /\ MaxChunk \in Nat /\ n <= MaxChunk
  <2>1. MaxChunk \in Nat /\ SanityLimit \in Nat
    BY FramingAssumption
  <2> QED
    BY <1>1, <2>1 DEF Receive
<1>3. PICK c \in Seq(Nat) : c = SubSeq(w, 1, n) /\ Len(c) = n
  <2>1. 1 \in 1 .. Len(w) + 1 /\ n \in 0 .. Len(w) /\ 1 <= n + 1 /\ n - 1 + 1 = n
    BY <1>2
  <2>2. SubSeq(w, 1, n) \in Seq(Nat) /\ Len(SubSeq(w, 1, n)) = n - 1 + 1
    BY ONLY <2>1, w \in Seq(Nat), PartOf, Zenon
  <2> QED
    BY ONLY <2>1, <2>2, Zenon
<1>4. PICK u \in Seq(Nat) : u = SubSeq(w, n + 1, Len(w))
  <2>1. n + 1 \in 1 .. Len(w) + 1 /\ Len(w) \in 0 .. Len(w) /\ n + 1 <= Len(w) + 1
    BY <1>2
  <2> QED
    BY ONLY <2>1, w \in Seq(Nat), PartOf
<1>5. PICK d : d = Messages(b \o c)
  OBVIOUS
<1>6. /\ d.rest \in Seq(Nat) /\ Waits(d.rest)
      /\ d.msgs # <<>> => Len(d.rest) < n
  <2>1. Waits(b)
    BY <1>1 DEF RawInv
  <2> QED
    BY <1>3, <1>5, <2>1, MessagesLeave
<1>7. buf' = DecodeRaw(b \o c).rest /\ wire' = u /\ sent' = sent /\ family' = family
  BY <1>1, <1>3, <1>4 DEF Receive
<1>8. SanityLimit \in Nat
  BY FramingAssumption
<1>9. CASE d.msgs = <<>> /\ Len(d.rest) > SanityLimit
  <2>1. buf' = <<>>
    BY <1>5, <1>7, <1>9 DEF DecodeRaw
  <2> QED
    BY <1>1, <1>4, <1>7, <1>8, <2>1 DEF RawInv, Waits
<1>10. CASE ~ (d.msgs = <<>> /\ Len(d.rest) > SanityLimit)
  <2>1. PICK r \in Seq(Nat) : r = d.rest /\ Waits(r) /\ (d.msgs # <<>> => Len(r) < n)
    BY <1>6
  <2>2. buf' = r
    BY <1>5, <1>7, <1>10, <2>1 DEF DecodeRaw
  <2>3. Len(r) <= SanityLimit \/ Len(r) < MaxChunk
    BY <1>2, <1>8, <1>10, <2>1
  <2>4. Waits(buf)'
    BY <2>1, <2>2 DEF Waits
  <2> QED
    BY <1>4, <1>7, <2>2, <2>3, <2>4 DEF RawInv
<1> QED
  BY <1>9, <1>10

\* At a raw handler the reader always waits: what was decoded left nothing that is a
\* message already; and the remainder is within the limit or within one piece.
THEOREM RawInvariance == Spec => []RawInv
<1>1. Init => RawInv
  <2>1. SanityLimit \in Nat /\ <<>> \in Seq(Nat) /\ <<>> \in Seq(Things) /\ Len(<<>>) = 0
    BY FramingAssumption
  <2> QED
    BY <2>1 DEF Init, RawInv, Waits
<1>2. RawInv /\ [Next]_vars => RawInv'
  <2> SUFFICES ASSUME RawInv, [Next]_vars PROVE RawInv'
    OBVIOUS
  <2>1. family' = family
    BY DEF Next, Send, Receive, vars
  <2>2. CASE family = "raw"
    <3>1. ASSUME NEW x \in Things, Send(x) PROVE RawInv'
      <4>1. sent' \in Seq(Things) /\ Len(sent') \in Nat
        BY <2>2, <3>1 DEF RawInv, Send
      <4>2. Bytes(Len(sent'), x) \in Seq(Nat)
        BY <2>2, <4>1, RawBytes
      <4>3. wire' \in Seq(Nat)
        BY <2>2, <3>1, <4>2 DEF RawInv, Send
      <4>4. buf' = buf
        BY <3>1 DEF Send
      <4> QED
        BY <2>1, <2>2, <4>1, <4>3, <4>4 DEF RawInv, Waits
    <3>2. ASSUME NEW n \in 1 .. MaxChunk, Receive(n) PROVE RawInv'
      BY <2>2, <3>2, ReceiveRaw
    <3>3. CASE UNCHANGED vars
      BY <3>3 DEF RawInv, Waits, vars
    <3> QED
      BY <3>1, <3>2, <3>3 DEF Next
  <2>3. CASE family # "raw"
    BY <2>1, <2>3 DEF RawInv
  <2> QED
    BY <2>2, <2>3
<1> QED
  BY <1>1, <1>2, PTL DEF Spec

\* Garbage is not buffered for ever at a raw handler, whatever the appliance sends and
\* however it is cut.
THEOREM RawBufferBounded == Spec => []BufferBounded
<1>1. RawInv => BufferBounded
  BY DEF RawInv, BufferBounded
<1> QED
  BY <1>1, RawInvariance, PTL

=============================================================================
