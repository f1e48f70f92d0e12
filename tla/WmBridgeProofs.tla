--------------------------- MODULE WmBridgeProofs ---------------------------
(* Proofs about WmBridge, for any number of records and any idle timeout:       *)
(* types, that the bridge alters nothing it forwards, what its observer sees,    *)
(* that the last records before an end of a stream get through, and that the    *)
(* selector blocks only when there is nothing to do.                            *)
EXTENDS WmBridge, TLAPS

USE BridgeAssumption DEF Ends, Flight, Eof

-----------------------------------------------------------------------------
(* Sequences, by their indices. *)

\* Two sequences put together.
LEMMA Joined ==
  ASSUME NEW S, NEW s \in Seq(S), NEW t \in Seq(S)
  PROVE  /\ s \o t \in Seq(S) /\ Len(s \o t) = Len(s) + Len(t)
         /\ \A i \in 1 .. Len(s) : (s \o t)[i] = s[i]
         /\ \A i \in 1 .. Len(t) : (s \o t)[Len(s) + i] = t[i]
  OBVIOUS

\* The first k items of a sequence, and what is left without them.
LEMMA CutAt ==
  ASSUME NEW S, NEW s \in Seq(S), NEW k \in 0 .. Len(s)
  PROVE  /\ SubSeq(s, 1, k) \in Seq(S) /\ Len(SubSeq(s, 1, k)) = k
         /\ \A i \in 1 .. k : SubSeq(s, 1, k)[i] = s[i]
         /\ SubSeq(s, k + 1, Len(s)) \in Seq(S)
         /\ Len(SubSeq(s, k + 1, Len(s))) = Len(s) - k
         /\ \A i \in 1 .. Len(s) - k : SubSeq(s, k + 1, Len(s))[i] = s[k + i]
  OBVIOUS

\* One more item at the end, or the first one less.
LEMMA OneMore ==
  ASSUME NEW S, NEW s \in Seq(S), NEW x \in S
  PROVE  /\ Append(s, x) \in Seq(S) /\ Len(Append(s, x)) = Len(s) + 1
         /\ \A i \in 1 .. Len(s) : Append(s, x)[i] = s[i]
         /\ Append(s, x)[Len(s) + 1] = x
  OBVIOUS

LEMMA OneLess ==
  ASSUME NEW S, NEW s \in Seq(S), s # <<>>
  PROVE  /\ Tail(s) \in Seq(S) /\ Len(Tail(s)) = Len(s) - 1 /\ Len(s) >= 1
         /\ \A i \in 1 .. Len(s) - 1 : Tail(s)[i] = s[i + 1]
         /\ Head(s) = s[1]
  OBVIOUS

-----------------------------------------------------------------------------
(* What is on its way from a peer to the bridge.                             *)

\* The length of s without an end of the stream.
DataLen(s) == IF EndsIn(s, Eof) THEN Len(s) - 1 ELSE Len(s)

\* The p-th thing that a peer with a flights sends: these, then its records.
Item(a, p) == IF p <= a THEN Flight ELSE p - a

\* Of the k things sent the last ones are on the wire (n), those before them with
\* the TLS layer (b), and an end the bridge has seen is still there to be seen.
Feed(a, k, b, n) ==
  /\ DataLen(b) + DataLen(n) <= k
  /\ \A i \in 1 .. DataLen(n) : n[i] = Item(a, k - DataLen(n) + i)
  /\ \A i \in 1 .. DataLen(b) : b[i] = Item(a, k - DataLen(n) - DataLen(b) + i)
  /\ EndsIn(b, Eof) => n = <<Eof>>

\* Beyond the flights come the records.
LEMMA RecordIs ==
  ASSUME NEW a \in Nat, NEW r \in Nat, r > 0
  PROVE  Item(a, a + r) = r
<1>1. ~(a + r <= a) /\ a + r - a = r
  OBVIOUS
<1> QED
  BY <1>1 DEF Item

\* What the length without the end is; and a sequence told by its last item.
LEMMA EndFacts ==
  ASSUME NEW s \in Seq(Items)
  PROVE  /\ Len(s) \in Nat /\ DataLen(s) \in Nat /\ DataLen(s) <= Len(s)
         /\ EndsIn(s, Eof) => Len(s) >= 1 /\ s[Len(s)] = Eof /\ DataLen(s) = Len(s) - 1
         /\ ~EndsIn(s, Eof) => DataLen(s) = Len(s) /\ (Len(s) >= 1 => s[Len(s)] # Eof)
<1>1. Len(s) \in Nat /\ (s = <<>> <=> Len(s) = 0)
  OBVIOUS
<1> QED
  BY <1>1 DEF EndsIn, Last, DataLen

LEMMA EndSeen ==
  ASSUME NEW s \in Seq(Items), Len(s) >= 1, s[Len(s)] = Eof
  PROVE  EndsIn(s, Eof)
<1>1. s # <<>>
  OBVIOUS
<1> QED
  BY <1>1 DEF EndsIn, Last

LEMMA NoEndSeen ==
  ASSUME NEW s \in Seq(Items), Len(s) = 0 \/ s[Len(s)] # Eof
  PROVE  ~EndsIn(s, Eof)
<1>1. s = <<>> <=> Len(s) = 0
  OBVIOUS
<1> QED
  BY <1>1 DEF EndsIn, Last

LEMMA EndAlone == /\ Eof \in Items /\ <<Eof>> \in Seq(Items)
                  /\ EndsIn(<<Eof>>, Eof) /\ DataLen(<<Eof>>) = 0
<1>1. /\ Eof \in Items /\ <<Eof>> \in Seq(Items) /\ <<Eof>> # <<>>
      /\ Len(<<Eof>>) = 1 /\ <<Eof>>[1] = Eof
  BY DEF Items
<1> QED
  BY <1>1 DEF EndsIn, Last, DataLen

\* The peer sends the next thing.
LEMMA FeedItem ==
  ASSUME NEW a \in Nat, NEW k \in Nat, NEW b \in Seq(Items), NEW n \in Seq(Items),
         Feed(a, k, b, n), ~EndsIn(n, Eof),
         NEW q \in Nat, q = k + 1, NEW x \in Items, x = Item(a, q)
  PROVE  Feed(a, q, b, Append(n, x)) /\ DataLen(Append(n, x)) = DataLen(n) + 1
<1> SUFFICES ASSUME NEW m \in Seq(Items), m = Append(n, x)
             PROVE  Feed(a, q, b, m) /\ DataLen(m) = DataLen(n) + 1
  BY OneMore
<1>1. x # Eof
  BY DEF Item
<1>2. /\ Len(m) = Len(n) + 1 /\ Len(n) \in Nat /\ m[Len(m)] = x
      /\ \A i \in 1 .. Len(n) : m[i] = n[i]
  BY OneMore
<1>3. DataLen(b) \in Nat /\ DataLen(n) = Len(n) /\ ~EndsIn(b, Eof)
  BY EndFacts, EndAlone DEF Feed
<1>4. ~EndsIn(m, Eof) /\ DataLen(m) = Len(n) + 1
  BY <1>1, <1>2, NoEndSeen, EndFacts
<1>5. \A i \in 1 .. DataLen(m) : m[i] = Item(a, q - DataLen(m) + i)
  <2> SUFFICES ASSUME NEW i \in 1 .. Len(n) + 1
               PROVE  m[i] = Item(a, q - (Len(n) + 1) + i)
    BY <1>4
  <2>1. CASE i \in 1 .. Len(n)
    <3>1. m[i] = n[i] /\ n[i] = Item(a, k - Len(n) + i)
      BY <1>2, <1>3, <2>1 DEF Feed
    <3>2. k - Len(n) + i = q - (Len(n) + 1) + i
      BY <1>2
    <3> QED
      BY <3>1, <3>2
  <2>2. CASE i = Len(n) + 1
    <3>1. q - (Len(n) + 1) + i = q /\ i = Len(m)
      BY <1>2, <2>2
    <3> QED
      BY <1>2, <3>1
  <2> QED
    BY <1>2, <2>1, <2>2
<1>6. q - DataLen(m) - DataLen(b) = k - DataLen(n) - DataLen(b)
  BY <1>2, <1>3, <1>4
<1>7. \A i \in 1 .. DataLen(b) : b[i] = Item(a, q - DataLen(m) - DataLen(b) + i)
  BY <1>6 DEF Feed
<1>8. DataLen(b) + DataLen(m) <= q /\ DataLen(m) \in Nat
  BY <1>2, <1>3, <1>4 DEF Feed
<1>9. Feed(a, q, b, m)
  BY <1>3, <1>5, <1>7, <1>8 DEF Feed
<1> QED
  BY <1>2, <1>3, <1>4, <1>9

\* The peer ends its stream.
LEMMA FeedEnd ==
  ASSUME NEW a \in Nat, NEW k \in Nat, NEW b \in Seq(Items), NEW n \in Seq(Items),
         Feed(a, k, b, n), ~EndsIn(n, Eof)
  PROVE  Feed(a, k, b, Append(n, Eof)) /\ DataLen(Append(n, Eof)) = DataLen(n)
<1> SUFFICES ASSUME NEW m \in Seq(Items), m = Append(n, Eof)
             PROVE  Feed(a, k, b, m) /\ DataLen(m) = DataLen(n)
  BY OneMore, EndAlone
<1>1. /\ Len(m) = Len(n) + 1 /\ Len(n) \in Nat /\ m[Len(m)] = Eof
      /\ \A i \in 1 .. Len(n) : m[i] = n[i]
  BY OneMore, EndAlone
<1>2. DataLen(b) \in Nat /\ DataLen(n) = Len(n) /\ ~EndsIn(b, Eof)
  BY EndFacts, EndAlone DEF Feed
<1>3. EndsIn(m, Eof) /\ DataLen(m) = Len(n)
  <2>1. Len(m) >= 1
    BY <1>1
  <2>2. EndsIn(m, Eof)
    BY <1>1, <2>1, EndSeen
  <2>3. DataLen(m) = Len(m) - 1
    BY <2>2, EndFacts
  <2> QED
    BY <1>1, <2>2, <2>3
<1>4. \A i \in 1 .. DataLen(m) : m[i] = Item(a, k - DataLen(m) + i)
  BY <1>1, <1>2, <1>3 DEF Feed
<1>5. Feed(a, k, b, m)
  BY <1>1, <1>2, <1>3, <1>4 DEF Feed
<1> QED
  BY <1>2, <1>3, <1>5

\* The bridge takes the first j things, records or flights.
LEMMA FeedCut ==
  ASSUME NEW a \in Nat, NEW k \in Nat, NEW b \in Seq(Items), NEW n \in Seq(Items),
         Feed(a, k, b, n), NEW j \in Nat, j <= DataLen(b),
         NEW t \in Seq(Items), Len(t) = Len(b) - j,
         \A i \in 1 .. Len(b) - j : t[i] = b[j + i]
  PROVE  /\ Feed(a, k, t, n) /\ DataLen(t) = DataLen(b) - j
         /\ EndsIn(t, Eof) <=> EndsIn(b, Eof)
<1>1. /\ Len(b) \in Nat /\ DataLen(b) \in Nat /\ DataLen(b) <= Len(b)
      /\ DataLen(n) \in Nat /\ Len(t) \in Nat
  BY EndFacts
<1>2. DataLen(t) = DataLen(b) - j /\ (EndsIn(t, Eof) <=> EndsIn(b, Eof))
  <2>1. CASE EndsIn(b, Eof)
    <3>1. b[Len(b)] = Eof /\ DataLen(b) = Len(b) - 1
      BY <2>1, EndFacts
    <3>2. Len(t) >= 1 /\ Len(t) \in 1 .. Len(b) - j /\ j + Len(t) = Len(b)
      BY <1>1, <3>1
    <3>3. t[Len(t)] = Eof
      BY <3>1, <3>2
    <3>4. EndsIn(t, Eof)
      BY ONLY t \in Seq(Items), <3>2, <3>3, EndSeen
    <3>5. DataLen(t) = Len(t) - 1
      BY ONLY t \in Seq(Items), <3>4, EndFacts
    <3>6. DataLen(t) = DataLen(b) - j
      BY ONLY <1>1, <3>1, <3>5, j \in Nat, Len(t) = Len(b) - j
    <3> QED
      BY ONLY <2>1, <3>4, <3>6
  <2>2. CASE ~EndsIn(b, Eof)
    <3>1. DataLen(b) = Len(b) /\ (Len(b) >= 1 => b[Len(b)] # Eof)
      BY <2>2, EndFacts
    <3>2. Len(t) = 0 \/ (Len(t) \in 1 .. Len(b) - j /\ j + Len(t) = Len(b) /\ Len(b) >= 1)
      BY <1>1
    <3>3. Len(t) = 0 \/ t[Len(t)] # Eof
      BY <3>1, <3>2
    <3> QED
      BY <1>1, <2>2, <3>1, <3>3, NoEndSeen, EndFacts
  <2> QED
    BY <2>1, <2>2
<1>3. \A i \in 1 .. DataLen(t) : t[i] = Item(a, k - DataLen(n) - DataLen(t) + i)
  <2> SUFFICES ASSUME NEW i \in 1 .. DataLen(b) - j
               PROVE  t[i] = Item(a, k - DataLen(n) - (DataLen(b) - j) + i)
    BY <1>2
  <2>1. t[i] = b[j + i] /\ j + i \in 1 .. DataLen(b)
    BY <1>1
  <2>2. b[j + i] = Item(a, k - DataLen(n) - DataLen(b) + (j + i))
    BY <2>1 DEF Feed
  <2>3. k - DataLen(n) - DataLen(b) + (j + i) = k - DataLen(n) - (DataLen(b) - j) + i
    BY <1>1
  <2> QED
    BY <2>1, <2>2, <2>3
<1>4. Feed(a, k, t, n)
  BY <1>1, <1>2, <1>3 DEF Feed
<1> QED
  BY <1>2, <1>4

\* A flight at the head is one of the first a things.
LEMMA FeedFlight ==
  ASSUME NEW a \in Nat, NEW k \in Nat, NEW b \in Seq(Items), NEW n \in Seq(Items),
         Feed(a, k, b, n), Len(b) >= 1, b[1] = Flight
  PROVE  DataLen(b) >= 1 /\ k - DataLen(n) - DataLen(b) + 1 <= a
<1>1. Len(b) \in Nat /\ DataLen(b) \in Nat /\ DataLen(n) \in Nat
  BY EndFacts
<1>2. DataLen(b) >= 1
  <2>1. CASE EndsIn(b, Eof)
    BY <1>1, <2>1, EndFacts
  <2>2. CASE ~EndsIn(b, Eof)
    BY <2>2, EndFacts
  <2> QED
    BY <2>1, <2>2
<1>3. Item(a, k - DataLen(n) - DataLen(b) + 1) = Flight
  BY <1>1, <1>2 DEF Feed
<1> QED
  BY <1>1, <1>2, <1>3 DEF Item

\* The handshake takes a flight.
LEMMA FeedTake ==
  ASSUME NEW a \in Nat, NEW k \in Nat, NEW b \in Seq(Items), NEW n \in Seq(Items),
         Feed(a, k, b, n), b # <<>>, Head(b) = Flight
  PROVE  /\ Tail(b) \in Seq(Items) /\ Feed(a, k, Tail(b), n)
         /\ DataLen(Tail(b)) = DataLen(b) - 1 /\ DataLen(b) >= 1
         /\ k - DataLen(n) - DataLen(b) + 1 <= a
<1>1. /\ Tail(b) \in Seq(Items) /\ Len(Tail(b)) = Len(b) - 1 /\ Len(b) >= 1
      /\ \A i \in 1 .. Len(b) - 1 : Tail(b)[i] = b[i + 1]
      /\ Head(b) = b[1] /\ Len(b) \in Nat
  BY ONLY OneLess, b \in Seq(Items), b # <<>>
<1>2. DataLen(b) >= 1 /\ k - DataLen(n) - DataLen(b) + 1 <= a
  BY <1>1, FeedFlight
<1>3. ASSUME NEW t \in Seq(Items), Len(t) = Len(b) - 1,
             \A i \in 1 .. Len(b) - 1 : t[i] = b[i + 1]
      PROVE  Feed(a, k, t, n) /\ DataLen(t) = DataLen(b) - 1
  <2>1. \A i \in 1 .. Len(b) - 1 : t[i] = b[1 + i]
    <3>1. \A i \in 1 .. Len(b) - 1 : i + 1 = 1 + i
      OBVIOUS
    <3> QED
      BY <1>3, <3>1
  <2>2. 1 \in Nat /\ 1 <= DataLen(b)
    BY <1>2
  <2> QED
    BY <1>3, <2>1, <2>2, FeedCut
<1> QED
  BY <1>1, <1>2, <1>3

\* One recv: what came joins what is there.
LEMMA FeedJoin ==
  ASSUME NEW a \in Nat, NEW k \in Nat, NEW b \in Seq(Items), NEW n \in Seq(Items),
         Feed(a, k, b, n), ~EndsIn(b, Eof),
         NEW c \in Seq(Items), Len(c) = DataLen(n),
         \A i \in 1 .. Len(c) : c[i] = n[i],
         NEW r \in Seq(Items), r = <<>> \/ r = <<Eof>>
  PROVE  Feed(a, k, b \o c, r) /\ DataLen(b \o c) = DataLen(b) + DataLen(n)
         /\ DataLen(r) = 0
<1>0. /\ b \o c \in Seq(Items)
      /\ Len(b \o c) = Len(b) + Len(c) /\ Len(b) \in Nat /\ Len(c) \in Nat
      /\ \A i \in 1 .. Len(b) : (b \o c)[i] = b[i]
      /\ \A i \in 1 .. Len(c) : (b \o c)[Len(b) + i] = c[i]
  BY ONLY Joined, b \in Seq(Items), c \in Seq(Items)
<1> SUFFICES ASSUME NEW t \in Seq(Items), t = b \o c
             PROVE  Feed(a, k, t, r) /\ DataLen(t) = DataLen(b) + DataLen(n)
                    /\ DataLen(r) = 0
  BY <1>0
<1>1. /\ Len(t) = Len(b) + Len(c) /\ Len(b) \in Nat /\ Len(c) \in Nat
      /\ \A i \in 1 .. Len(b) : t[i] = b[i]
      /\ \A i \in 1 .. Len(c) : t[Len(b) + i] = c[i]
  BY <1>0
<1>2. DataLen(b) = Len(b) /\ (Len(b) >= 1 => b[Len(b)] # Eof) /\ DataLen(n) \in Nat
  BY EndFacts
<1>3. DataLen(r) = 0
  <2>1. CASE r = <<>>
    BY <2>1 DEF DataLen, EndsIn
  <2>2. CASE r = <<Eof>>
    BY <2>2, EndAlone
  <2> QED
    BY <2>1, <2>2
<1>4. \A i \in 1 .. Len(c) : c[i] # Eof
  <2> SUFFICES ASSUME NEW i \in 1 .. Len(c) PROVE c[i] # Eof
    OBVIOUS
  <2>1. c[i] = Item(a, k - DataLen(n) + i)
    BY DEF Feed
  <2>2. k - DataLen(n) + i \in Int
    BY <1>1, <1>2
  <2> QED
    BY <2>1, <2>2 DEF Item
<1>5. ~EndsIn(t, Eof) /\ DataLen(t) = Len(b) + Len(c)
  <2>1. Len(t) = 0 \/ t[Len(t)] # Eof
    <3>1. CASE Len(c) = 0
      BY <1>1, <1>2, <3>1
    <3>2. CASE Len(c) >= 1
      <4>1. t[Len(b) + Len(c)] = c[Len(c)] /\ c[Len(c)] # Eof
        BY <1>1, <1>4, <3>2
      <4> QED
        BY <1>1, <4>1
    <3> QED
      BY <1>1, <3>1, <3>2
  <2>2. ~EndsIn(t, Eof)
    BY <2>1, NoEndSeen
  <2>3. DataLen(t) = Len(t)
    BY <2>2, EndFacts
  <2> QED
    BY <1>1, <2>2, <2>3
<1>6. \A i \in 1 .. DataLen(t) : t[i] = Item(a, k - DataLen(r) - DataLen(t) + i)
  <2> SUFFICES ASSUME NEW i \in 1 .. Len(b) + Len(c)
               PROVE  t[i] = Item(a, k - (Len(b) + Len(c)) + i)
    BY <1>1, <1>3, <1>5
  <2>1. CASE i \in 1 .. Len(b)
    <3>1. t[i] = Item(a, k - DataLen(n) - DataLen(b) + i)
      BY <1>1, <1>2, <2>1 DEF Feed
    <3>2. k - DataLen(n) - DataLen(b) + i = k - (Len(b) + Len(c)) + i
      BY <1>1, <1>2
    <3> QED
      BY <3>1, <3>2
  <2>2. CASE i - Len(b) \in 1 .. Len(c)
    <3>1. t[i] = c[i - Len(b)]
      <4>1. i = Len(b) + (i - Len(b))
        BY <1>1
      <4> QED
        BY <1>1, <2>2, <4>1
    <3>2. c[i - Len(b)] = Item(a, k - DataLen(n) + (i - Len(b)))
      BY <2>2 DEF Feed
    <3>3. k - DataLen(n) + (i - Len(b)) = k - (Len(b) + Len(c)) + i
      BY <1>1, <1>2
    <3> QED
      BY <3>1, <3>2, <3>3
  <2> QED
    BY <1>1, <2>1, <2>2
<1>7. DataLen(t) \in Nat /\ DataLen(t) + DataLen(r) <= k
  BY <1>1, <1>2, <1>3, <1>5 DEF Feed
<1>8. \A i \in 1 .. DataLen(r) : r[i] = Item(a, k - DataLen(r) + i)
  BY <1>3
<1>9. Feed(a, k, t, r)
  BY <1>3, <1>5, <1>6, <1>7, <1>8 DEF Feed
<1> QED
  BY <1>2, <1>3, <1>5, <1>9

-----------------------------------------------------------------------------
(* What was forwarded to a peer. *)

\* The peer was sent (g), and will be sent (o), a flight and then the records from
\* the first on.
Laid(g, o) == /\ \A i \in 1 .. Len(g) : g[i] = i - 1
              /\ \A i \in 1 .. Len(o) : o[i] = Len(g) + i - 1

\* More is encrypted.
LEMMA LaidMore ==
  ASSUME NEW g \in Seq(Items), NEW o \in Seq(Items), Laid(g, o),
         NEW t \in Seq(Items), \A i \in 1 .. Len(t) : t[i] = Len(g) + Len(o) + i - 1
  PROVE  Laid(g, o \o t)
<1> SUFFICES ASSUME NEW u \in Seq(Items), u = o \o t
             PROVE  Laid(g, u)
  BY Joined
<1>1. /\ Len(u) = Len(o) + Len(t) /\ Len(o) \in Nat /\ Len(t) \in Nat
      /\ \A i \in 1 .. Len(o) : u[i] = o[i]
      /\ \A i \in 1 .. Len(t) : u[Len(o) + i] = t[i]
  BY Joined
<1>2. ASSUME NEW i \in 1 .. Len(u) PROVE u[i] = Len(g) + i - 1
  <2>1. CASE i \in 1 .. Len(o)
    BY <1>1, <2>1 DEF Laid
  <2>2. CASE i - Len(o) \in 1 .. Len(t)
    <3>1. u[i] = t[i - Len(o)]
      <4>1. i = Len(o) + (i - Len(o))
        BY <1>1
      <4> QED
        BY <1>1, <2>2, <4>1
    <3>2. t[i - Len(o)] = Len(g) + Len(o) + (i - Len(o)) - 1
      BY <2>2
    <3>3. Len(g) \in Nat
      OBVIOUS
    <3> QED
      BY <1>1, <3>1, <3>2, <3>3
  <2> QED
    BY <1>1, <2>1, <2>2
<1> QED
  BY <1>2 DEF Laid

\* The socket takes the first j items.
LEMMA LaidFlush ==
  ASSUME NEW g \in Seq(Items), NEW o \in Seq(Items), Laid(g, o), NEW j \in 0 .. Len(o)
  PROVE  Laid(g \o SubSeq(o, 1, j), SubSeq(o, j + 1, Len(o)))
<1> SUFFICES ASSUME NEW c \in Seq(Items), c = SubSeq(o, 1, j),
                    NEW r \in Seq(Items), r = SubSeq(o, j + 1, Len(o)),
                    NEW u \in Seq(Items), u = g \o c
             PROVE  Laid(u, r)
  BY CutAt, Joined
<1>1. /\ Len(c) = j /\ \A i \in 1 .. j : c[i] = o[i]
      /\ Len(r) = Len(o) - j /\ \A i \in 1 .. Len(o) - j : r[i] = o[j + i]
  BY CutAt
<1>2. /\ Len(u) = Len(g) + Len(c) /\ Len(g) \in Nat /\ Len(o) \in Nat
      /\ \A i \in 1 .. Len(g) : u[i] = g[i]
      /\ \A i \in 1 .. Len(c) : u[Len(g) + i] = c[i]
  BY ONLY u = g \o c, g \in Seq(Items), c \in Seq(Items), Joined
<1>3. ASSUME NEW i \in 1 .. Len(u) PROVE u[i] = i - 1
  <2>1. CASE i \in 1 .. Len(g)
    BY <1>2, <2>1 DEF Laid
  <2>2. CASE i - Len(g) \in 1 .. j
    <3>1. u[i] = c[i - Len(g)]
      <4>1. i = Len(g) + (i - Len(g))
        BY <1>2
      <4> QED
        BY <1>1, <1>2, <2>2, <4>1
    <3>2. c[i - Len(g)] = Len(g) + (i - Len(g)) - 1
      <4>1. i - Len(g) \in 1 .. Len(o)
        BY <1>2, <2>2
      <4> QED
        BY <1>1, <2>2, <4>1 DEF Laid
    <3>3. Len(g) + (i - Len(g)) - 1 = i - 1
      BY <1>1, <1>2
    <3> QED
      BY <3>1, <3>2, <3>3
  <2> QED
    BY <1>1, <1>2, <2>1, <2>2
<1>4. ASSUME NEW i \in 1 .. Len(r) PROVE r[i] = Len(u) + i - 1
  <2>1. r[i] = o[j + i] /\ j + i \in 1 .. Len(o)
    BY <1>1, <1>2
  <2>2. o[j + i] = Len(g) + (j + i) - 1
    BY <2>1 DEF Laid
  <2> QED
    BY <1>1, <1>2, <2>1, <2>2
<1> QED
  BY <1>3, <1>4 DEF Laid

-----------------------------------------------------------------------------
(* The invariant. *)

\* How many things peer e has sent, not counting the end of its stream; how many of
\* them the TLS layer of end e has read; how many of its flights that takes, given
\* how far the handshake is; and how many records were encrypted for e, which is
\* all but the flight that went before them.
Total(e)     == flights[e] + sent[e]
Consumed(e)  == Total(e) - DataLen(net[e]) - DataLen(inb[e])
Taken(e)     == IF hs[e] = "start" THEN 0
                ELSE IF hs[e] = "wait" THEN AllFlights(e) - 1 ELSE AllFlights(e)
Forwarded(e) == IF hs[e] = "start" THEN 0 ELSE Len(got[e]) + Len(out[e]) - 1

Incoming(e) == /\ Feed(AllFlights(e), Total(e), inb[e], net[e])
               /\ flights[e] <= AllFlights(e)
               /\ sent[e] > 0 => flights[e] = AllFlights(e)

Outgoing(e) == /\ Laid(got[e], out[e])
               /\ hs[e] = "start" <=> Len(got[e]) = 0 /\ Len(out[e]) = 0

\* Once the handshake is through, what was read of a peer beyond its flights is
\* what was forwarded; before, nothing was, and the flights read are those that the
\* handshake took (one more if that one was refused).
Position(e) ==
  /\ hs[e] = "done" => Consumed(e) = AllFlights(e) + Forwarded(Other(e))
  /\ hs[e] # "done" => Forwarded(Other(e)) = 0 /\ Consumed(e) <= AllFlights(e)
  /\ hs[e] # "done" /\ ~AnyDead => Consumed(e) = Taken(e)

Streams ==
  /\ \A e \in Ends : Incoming(e) /\ Outgoing(e) /\ Position(e)
  /\ flights["U"] > 0 => hs["U"] # "start"
  /\ Len(seen) = Forwarded("U") /\ \A i \in 1 .. Len(seen) : seen[i] = i

\* What is known at each step of the loop: an end that is dead at its top was
\* reset; nothing is dead before established ends are read; once they are, nothing
\* waits to be read but the end of a stream, which makes that end dead (what LG
\* sent may wait when the appliance's stream has ended); and an iteration without
\* progress has left no flight.
Drained(e) == inb[e] = <<>> \/ inb[e] = <<Eof>>
Phases ==
  /\ pc = "drive" /\ AnyDead => \E e \in Ends : reset[e]
  /\ pc = "pump" /\ BothDone => ~AnyDead
  /\ pc = "select" => ~AnyDead /\ ~progressed
  /\ pc \in {"push", "select"} /\ BothDone =>
       /\ Drained("C") /\ (Ended("C") \/ Drained("U"))
       /\ \A e \in Ends : Ended(e) => AnyDead
  /\ pc \in {"pump", "push", "select"} /\ ~progressed /\ ~AnyDead =>
       \A e \in Ends : ~Takes(e)
  /\ LastWords

IInv == TypeOK /\ Streams /\ Phases

\* The types of what belongs to an end.
LEMMA Types ==
  ASSUME TypeOK, NEW e \in Ends
  PROVE  /\ inb[e] \in Seq(Items) /\ out[e] \in Seq(Items)
         /\ net[e] \in Seq(Items) /\ got[e] \in Seq(Items)
         /\ hs[e] \in {"start", "wait", "done"} /\ dead[e] \in BOOLEAN
         /\ flights[e] \in Nat /\ flights[e] <= 2
         /\ sent[e] \in Nat /\ sent[e] <= MaxSent
         /\ full[e] \in BOOLEAN /\ reset[e] \in BOOLEAN
         /\ Other(e) \in Ends /\ Other(e) # e /\ Other(Other(e)) = e
         /\ AllFlights(e) \in {1, 2} /\ AllFlights(e) \in Nat
  BY DEF TypeOK, Other, AllFlights

\* The numbers that the invariant is about.
LEMMA Numbers ==
  ASSUME TypeOK, NEW e \in Ends
  PROVE  /\ Len(inb[e]) \in Nat /\ Len(out[e]) \in Nat
         /\ Len(net[e]) \in Nat /\ Len(got[e]) \in Nat
         /\ DataLen(inb[e]) \in Nat /\ DataLen(net[e]) \in Nat
         /\ Total(e) \in Nat /\ Consumed(e) \in Int /\ Forwarded(e) \in Int
<1>1. /\ inb[e] \in Seq(Items) /\ out[e] \in Seq(Items)
      /\ net[e] \in Seq(Items) /\ got[e] \in Seq(Items)
      /\ flights[e] \in Nat /\ sent[e] \in Nat
  BY Types
<1>2. DataLen(inb[e]) \in Nat /\ DataLen(net[e]) \in Nat
  BY <1>1, EndFacts
<1>3. /\ Len(inb[e]) \in Nat /\ Len(out[e]) \in Nat
      /\ Len(net[e]) \in Nat /\ Len(got[e]) \in Nat
  BY <1>1
<1> QED
  BY <1>1, <1>2, <1>3 DEF Total, Consumed, Forwarded

LEMMA InitHolds == Init => IInv
<1> SUFFICES ASSUME Init PROVE IInv
  OBVIOUS
<1>1. TypeOK
  <2>1. <<>> \in Seq(Items) /\ <<>> \in Seq(1 .. MaxSent)
    OBVIOUS
  <2>2. 0 \in 0 .. MaxQuiet /\ 0 \in 0 .. MaxSent /\ 0 \in 0 .. 2
    OBVIOUS
  <2> QED
    BY <2>1, <2>2 DEF Init, TypeOK
<1>2. DataLen(<<>>) = 0 /\ ~EndsIn(<<>>, Eof)
  BY DEF DataLen, EndsIn
<1>3. ASSUME NEW e \in Ends PROVE Incoming(e) /\ Outgoing(e) /\ Position(e)
  BY <1>2 DEF Init, Incoming, Outgoing, Position, Feed, Laid, Total, Consumed,
              Taken, Forwarded, Other, AnyDead, AllFlights
<1>4. Streams
  BY <1>3 DEF Streams, Init, Forwarded
<1>5. Phases
  BY DEF Phases, Init, AnyDead, LastWords
<1> QED
  BY <1>1, <1>4, <1>5 DEF IInv

-----------------------------------------------------------------------------
(* The steps of the peers. *)

\* A peer changes neither the loop nor its ends.
LEMMA PeerFrame ==
  ASSUME TypeOK, NEW e \in Ends, Peer(e)
  PROVE  /\ UNCHANGED <<loopVars, endVars, got>> /\ pc # "closed"
         /\ \A f \in Ends : f # e => /\ net'[f] = net[f] /\ flights'[f] = flights[f]
                                     /\ sent'[f] = sent[f]
<1>1. /\ net \in [Ends -> Seq(Items)]
      /\ flights \in [Ends -> 0 .. 2] /\ sent \in [Ends -> 0 .. MaxSent]
  BY DEF TypeOK
<1>2. CASE PeerFlight(e)
  BY <1>1, <1>2 DEF PeerFlight, Put, Speaks
<1>3. CASE PeerSend(e)
  BY <1>1, <1>3 DEF PeerSend, Put, Speaks
<1>4. CASE PeerClose(e)
  BY <1>1, <1>4 DEF PeerClose, Put, Speaks
<1>5. CASE PeerReset(e)
  BY <1>5 DEF PeerReset
<1>6. CASE PeerReads(e)
  BY <1>6 DEF PeerReads
<1> QED
  BY <1>2, <1>3, <1>4, <1>5, <1>6 DEF Peer

\* What a peer sends joins what is on its way, and nothing of it is read.
LEMMA PeerFeeds ==
  ASSUME TypeOK, Streams, NEW e \in Ends, Peer(e)
  PROVE  Incoming(e)' /\ Consumed(e)' = Consumed(e)
         /\ (flights["U"] > 0 => hs["U"] # "start")'
<1>1. /\ inb[e] \in Seq(Items) /\ net[e] \in Seq(Items) /\ got[e] \in Seq(Items)
      /\ AllFlights(e) \in {1, 2} /\ flights[e] \in Nat /\ sent[e] \in Nat
      /\ sent[e] <= MaxSent
  BY Types
<1>2. /\ inb'[e] = inb[e] /\ hs' = hs /\ got' = got /\ AllFlights(e)' = AllFlights(e)
      /\ \A f \in Ends : f # e => flights'[f] = flights[f]
  BY PeerFrame DEF endVars, AllFlights
<1>3. Feed(AllFlights(e), Total(e), inb[e], net[e]) /\ Total(e) \in Nat
      /\ (sent[e] > 0 => flights[e] = AllFlights(e)) /\ flights[e] <= AllFlights(e)
  BY Numbers DEF Streams, Incoming
<1>4. flights["U"] > 0 => hs["U"] # "start"
  BY DEF Streams
<1>5. DataLen(inb[e]) \in Nat /\ DataLen(net[e]) \in Nat
  BY Numbers
<1>6. Speaks(e) => ~EndsIn(net[e], Eof)
  <2>1. SUFFICES ASSUME EndsIn(net[e], Eof) PROVE Contains(net[e], Eof)
    BY DEF Speaks
  <2>2. Len(net[e]) \in Nat /\ Len(net[e]) >= 1 /\ net[e][Len(net[e])] = Eof
    BY <1>1, <2>1, EndFacts
  <2> QED
    BY <2>2 DEF Contains
<1>7. ASSUME NEW q \in Nat, q = Total(e) + 1, NEW x \in Items,
              x = Item(AllFlights(e), q), ~EndsIn(net[e], Eof)
       PROVE  /\ Feed(AllFlights(e), q, inb[e], Append(net[e], x))
              /\ DataLen(Append(net[e], x)) = DataLen(net[e]) + 1
  <2>1. PICK b \in Seq(Items), n \in Seq(Items) : inb[e] = b /\ net[e] = n
    BY <1>1
  <2>2. PICK a \in Nat, k \in Nat : AllFlights(e) = a /\ Total(e) = k
    BY <1>1, <1>3
  <2>3. Feed(a, k, b, n) /\ ~EndsIn(n, Eof) /\ q = k + 1 /\ x = Item(a, q)
    BY <1>3, <1>7, <2>1, <2>2
  <2>4. Feed(a, q, b, Append(n, x)) /\ DataLen(Append(n, x)) = DataLen(n) + 1
    BY ONLY <2>3, FeedItem, SMTT(20)
  <2> QED
    BY <2>1, <2>2, <2>4
<1>8. CASE PeerFlight(e)
  <2>1. /\ Speaks(e) /\ net'[e] = Append(net[e], Flight) /\ sent' = sent
        /\ flights'[e] = flights[e] + 1
    BY <1>8 DEF PeerFlight, Put, TypeOK
  <2>2. flights[e] < AllFlights(e) /\ flights'[e] <= AllFlights(e)
    BY <1>1, <1>8, <2>1 DEF PeerFlight, AllFlights
  <2>3. sent[e] = 0 /\ Total(e) = flights[e] /\ Total(e)' = Total(e) + 1
    BY <1>1, <1>3, <2>1, <2>2 DEF Total
  <2>4. Flight \in Items /\ Flight = Item(AllFlights(e), Total(e) + 1)
        /\ Total(e) + 1 \in Nat
    BY <1>1, <2>2, <2>3 DEF Item, Items
  <2>5. /\ Feed(AllFlights(e), Total(e)', inb[e], net'[e])
        /\ DataLen(net'[e]) = DataLen(net[e]) + 1
    BY <1>6, <1>7, <2>1, <2>3, <2>4
  <2>6. Consumed(e)' = Consumed(e)
    BY <1>2, <1>3, <1>5, <2>3, <2>5 DEF Consumed
  <2>7. Incoming(e)'
    BY <1>2, <2>1, <2>2, <2>3, <2>5 DEF Incoming
  <2>8. (flights["U"] > 0 => hs["U"] # "start")'
    <3>1. CASE e = "U"
      <4>1. Contains(got["U"], Flight)
        BY <1>1, <1>8, <3>1 DEF PeerFlight, AllFlights
      <4>2. Len(got["U"]) # 0
        BY <4>1 DEF Contains
      <4>3. Outgoing("U")
        BY DEF Streams
      <4> QED
        BY <1>2, <4>2, <4>3 DEF Outgoing
    <3>2. CASE e # "U"
      BY <1>2, <1>4, <3>2
    <3> QED
      BY <3>1, <3>2
  <2> QED
    BY <2>6, <2>7, <2>8
<1>9. CASE PeerSend(e)
  <2>1. /\ Speaks(e) /\ net'[e] = Append(net[e], sent[e] + 1) /\ flights' = flights
        /\ sent'[e] = sent[e] + 1 /\ flights[e] = AllFlights(e) /\ sent[e] < MaxSent
    BY <1>9 DEF PeerSend, Put, TypeOK
  <2>2. Total(e)' = Total(e) + 1 /\ Total(e) = AllFlights(e) + sent[e]
    BY <1>1, <2>1 DEF Total
  <2>3. sent[e] + 1 \in Items /\ sent[e] + 1 = Item(AllFlights(e), Total(e) + 1)
        /\ Total(e) + 1 \in Nat
    <3>1. sent[e] + 1 \in Items /\ AllFlights(e) \in Nat
      BY <1>1, <2>1 DEF Items
    <3>2. /\ Total(e) + 1 = AllFlights(e) + (sent[e] + 1)
          /\ sent[e] + 1 \in Nat /\ sent[e] + 1 > 0
      BY <1>1, <2>2, <3>1
    <3>3. Item(AllFlights(e), AllFlights(e) + (sent[e] + 1)) = sent[e] + 1
      BY <3>1, <3>2, RecordIs
    <3> QED
      BY <1>3, <3>1, <3>2, <3>3
  <2>4. /\ Feed(AllFlights(e), Total(e)', inb[e], net'[e])
        /\ DataLen(net'[e]) = DataLen(net[e]) + 1
    BY <1>6, <1>7, <2>1, <2>2, <2>3
  <2>5. Consumed(e)' = Consumed(e)
    BY <1>2, <1>3, <1>5, <2>2, <2>4 DEF Consumed
  <2>6. Incoming(e)'
    BY <1>2, <1>3, <2>1, <2>2, <2>4 DEF Incoming
  <2> QED
    BY <1>2, <1>4, <2>1, <2>5, <2>6
<1>10. CASE PeerClose(e)
  <2>1. /\ Speaks(e) /\ net'[e] = Append(net[e], Eof) /\ UNCHANGED <<flights, sent>>
    BY <1>10 DEF PeerClose, Put, TypeOK
  <2>2. Total(e)' = Total(e)
    BY <2>1 DEF Total
  <2>3. /\ Feed(AllFlights(e), Total(e), inb[e], net'[e])
        /\ DataLen(net'[e]) = DataLen(net[e])
    BY <1>1, <1>3, <1>6, <2>1, FeedEnd
  <2>4. Consumed(e)' = Consumed(e)
    BY <1>2, <2>2, <2>3 DEF Consumed
  <2> QED
    BY <1>2, <1>3, <1>4, <2>1, <2>2, <2>3, <2>4 DEF Incoming
<1>11. CASE PeerReset(e) \/ PeerReads(e)
  <2>1. UNCHANGED <<net, flights, sent>>
    BY <1>11 DEF PeerReset, PeerReads
  <2> QED
    BY <1>2, <1>3, <1>4, <2>1 DEF Incoming, Consumed, Total
<1> QED
  BY <1>8, <1>9, <1>10, <1>11 DEF Peer

\* A peer's step keeps the invariant.
LEMMA PeerStep == ASSUME IInv, NEW e \in Ends, Peer(e) PROVE IInv'
<1>1. TypeOK /\ Streams /\ Phases
  BY DEF IInv
<1>2. /\ UNCHANGED <<loopVars, endVars, got>> /\ pc # "closed"
      /\ \A f \in Ends : f # e => /\ net'[f] = net[f] /\ flights'[f] = flights[f]
                                  /\ sent'[f] = sent[f]
  BY <1>1, PeerFrame
<1>3. TypeOK'
  <2>1. \A f \in Ends : AllFlights(f) \in 1 .. 2 /\ sent[f] \in Nat
    BY <1>1, Types
  <2>2. \A i \in Items : Append(net[e], i) \in Seq(Items)
    BY <1>1, Types
  <2>3. Flight \in Items /\ Eof \in Items
    BY DEF Items
  <2>4. CASE PeerFlight(e)
    <3>1. flights[e] + 1 \in 0 .. 2
      BY <1>1, <2>1, <2>4, Types DEF PeerFlight
    <3> QED
      BY <1>1, <1>2, <2>2, <2>3, <2>4, <3>1
      DEF TypeOK, PeerFlight, Put, loopVars, endVars
  <2>5. CASE PeerSend(e)
    <3>1. sent[e] + 1 \in 0 .. MaxSent /\ sent[e] + 1 \in Items
          /\ sent'[e] = sent[e] + 1
      BY <1>1, <2>1, <2>5 DEF PeerSend, Items, TypeOK
    <3>2. net' = [net EXCEPT ![e] = Append(net[e], sent[e] + 1)]
          /\ sent' = [sent EXCEPT ![e] = sent[e] + 1]
          /\ UNCHANGED <<loopVars, endVars, flights, got, full, reset>>
      BY <2>5, <3>1 DEF PeerSend, Put
    <3>3. net' \in [Ends -> Seq(Items)] /\ sent' \in [Ends -> 0 .. MaxSent]
      BY <1>1, <2>2, <3>1, <3>2 DEF TypeOK
    <3> QED
      BY <1>1, <3>2, <3>3 DEF TypeOK, loopVars, endVars
  <2>6. CASE PeerClose(e)
    BY <1>1, <1>2, <2>2, <2>3, <2>6 DEF TypeOK, PeerClose, Put, loopVars, endVars
  <2>7. CASE PeerReset(e)
    BY <1>1, <2>7 DEF TypeOK, PeerReset, loopVars, endVars
  <2>8. CASE PeerReads(e)
    BY <1>1, <2>8 DEF TypeOK, PeerReads, loopVars, endVars
  <2> QED
    BY <2>4, <2>5, <2>6, <2>7, <2>8 DEF Peer
<1>4. Incoming(e)' /\ Consumed(e)' = Consumed(e)
      /\ (flights["U"] > 0 => hs["U"] # "start")'
  BY <1>1, PeerFeeds
<1>5. UNCHANGED <<hs, dead, inb, out, seen, got, pc, progressed>>
  BY <1>2 DEF loopVars, endVars
<1>6. ASSUME NEW f \in Ends PROVE Incoming(f)' /\ Consumed(f)' = Consumed(f)
  <2>1. CASE f = e
    BY <1>4, <2>1
  <2>2. CASE f # e
    BY <1>1, <1>2, <1>5, <2>2
    DEF Streams, Incoming, Consumed, Total, AllFlights
  <2> QED
    BY <2>1, <2>2
<1>7. ASSUME NEW f \in Ends PROVE Outgoing(f)' /\ Position(f)'
  BY <1>1, <1>5, <1>6
  DEF Streams, Outgoing, Position, Forwarded, Taken, AnyDead, AllFlights, Other
<1>8. Streams'
  BY <1>1, <1>4, <1>5, <1>6, <1>7 DEF Streams, Forwarded
<1>9. Phases'
  <2>1. \A f \in Ends : reset[f] => reset'[f]
    BY <1>1 DEF Peer, PeerFlight, PeerSend, PeerClose, PeerReset, PeerReads, TypeOK
  <2>2. LastWords'
    BY <1>2, <1>5 DEF LastWords
  <2> QED
    BY <1>1, <1>5, <2>1, <2>2
    DEF Phases, AnyDead, BothDone, Drained, Ended, EndsIn, Takes, HeadIs
<1> QED
  BY <1>3, <1>8, <1>9 DEF IInv

-----------------------------------------------------------------------------
(* The steps of the loop. *)

\* The loop ends, at its top or for the idle timeout, or it goes on after a quiet
\* time.
LEMMA StopStep == ASSUME IInv, Stop \/ Timeout PROVE IInv'
<1>1. TypeOK /\ Streams /\ Phases
  BY DEF IInv
<1>2. UNCHANGED <<hs, dead, inb, out, seen, net, flights, sent, got, full, reset,
                  progressed>>
  BY DEF Stop, Timeout, endVars, peerVars
<1>3. TypeOK'
  <2>1. pc' \in {"drive", "closed"} /\ quiet' \in 0 .. MaxQuiet
    BY <1>1 DEF Stop, Timeout, TypeOK
  <2> QED
    BY <1>1, <1>2, <2>1 DEF TypeOK
<1>4. Streams'
  BY <1>1, <1>2
  DEF Streams, Incoming, Outgoing, Position, Total, Consumed, Taken, Forwarded,
      AnyDead, AllFlights, Other
<1>5. Phases'
  <2>1. CASE Stop
    <3>1. pc' = "closed" /\ \E f \in Ends : reset[f]
      BY <1>1, <2>1 DEF Stop, Phases
    <3> QED
      BY <1>2, <3>1 DEF Phases, LastWords
  <2>2. CASE Timeout
    <3>1. /\ pc = "select" /\ pc' \in {"drive", "closed"} /\ ~AnyDead
          /\ BothDone => \A f \in Ends : ~Ended(f)
      BY <1>1, <2>2 DEF Timeout, Phases
    <3>2. ~AnyDead' /\ (BothDone' => \A f \in Ends : ~Ended(f)')
      BY <1>2, <3>1 DEF AnyDead, BothDone, Ended, EndsIn
    <3>3. LastWords'
      BY <3>2 DEF LastWords, Other
    <3> QED
      BY <3>1, <3>2, <3>3 DEF Phases
  <2> QED
    BY <2>1, <2>2
<1> QED
  BY <1>3, <1>4, <1>5 DEF IInv

\* What a pass over the handshakes does to one end: a flight is taken, or refused,
\* or there is none.
LEMMA DriveEnd ==
  ASSUME Drive, NEW e \in Ends
  PROVE  /\ \/ Takes(e) /\ hs'[e] = hs[e] /\ dead'[e]
            \/ Takes(e) /\ hs'[e] = Advanced(e) /\ ~dead'[e]
            \/ /\ ~Takes(e) /\ hs'[e] = Advanced(e)
               /\ dead'[e] => hs[e] # "done" /\ HeadIs(e, Eof)
         /\ inb'[e] = IF Takes(e) THEN Tail(inb[e]) ELSE inb[e]
         /\ out'[e] = IF hs[e] = "start" /\ hs'[e] = "wait"
                        THEN Append(out[e], Flight) ELSE out[e]
         /\ dead'[e] \in BOOLEAN
         /\ UNCHANGED <<net, flights, sent, got, full, reset, seen, quiet>>
<1>1. PICK refused \in SUBSET {f \in Ends : Takes(f)} :
        /\ hs' = [f \in Ends |-> IF f \in refused THEN hs[f] ELSE Advanced(f)]
        /\ dead' = [f \in Ends |->
                      f \in refused \/ (hs[f] # "done" /\ HeadIs(f, Eof))]
  BY DEF Drive
<1>2. /\ inb'[e] = IF Takes(e) THEN Tail(inb[e]) ELSE inb[e]
      /\ out'[e] = IF hs[e] = "start" /\ hs'[e] = "wait"
                     THEN Append(out[e], Flight) ELSE out[e]
      /\ UNCHANGED <<net, flights, sent, got, full, reset, seen, quiet>>
  BY DEF Drive, peerVars
<1>3. /\ hs'[e] = IF e \in refused THEN hs[e] ELSE Advanced(e)
      /\ dead'[e] = (e \in refused \/ (hs[e] # "done" /\ HeadIs(e, Eof)))
      /\ e \in refused => Takes(e)
  BY <1>1
<1>4. Takes(e) => ~HeadIs(e, Eof)
  BY DEF Takes, HeadIs
<1> QED
  BY <1>2, <1>3, <1>4

\* A flight is taken where one was to come, and the answer goes out.
LEMMA DriveStreams ==
  ASSUME TypeOK, Streams, Drive, NEW e \in Ends
  PROVE  /\ inb'[e] \in Seq(Items) /\ out'[e] \in Seq(Items)
         /\ hs'[e] \in {"start", "wait", "done"}
         /\ Incoming(e)' /\ Outgoing(e)' /\ Forwarded(e)' = Forwarded(e)
         /\ Consumed(e)' = IF Takes(e) THEN Consumed(e) + 1 ELSE Consumed(e)
         /\ Takes(e) => Consumed(e) + 1 <= AllFlights(e)
         /\ e = "U" /\ Takes(e) => hs[e] # "start"
         /\ hs[e] # "start" => hs'[e] # "start"
<1>1. /\ inb[e] \in Seq(Items) /\ net[e] \in Seq(Items) /\ got[e] \in Seq(Items)
      /\ out[e] \in Seq(Items) /\ AllFlights(e) \in {1, 2}
      /\ hs[e] \in {"start", "wait", "done"}
      /\ flights[e] \in Nat /\ sent[e] \in Nat
  BY Types
<1>0. AllFlights(e) \in Nat
  BY <1>1
<1>2. /\ \/ hs'[e] = hs[e]
         \/ hs'[e] = Advanced(e)
      /\ inb'[e] = IF Takes(e) THEN Tail(inb[e]) ELSE inb[e]
      /\ out'[e] = IF hs[e] = "start" /\ hs'[e] = "wait"
                     THEN Append(out[e], Flight) ELSE out[e]
      /\ UNCHANGED <<net, flights, sent, got>>
  BY DriveEnd
<1>3. /\ Feed(AllFlights(e), Total(e), inb[e], net[e]) /\ Total(e) \in Nat
      /\ DataLen(inb[e]) \in Nat /\ DataLen(net[e]) \in Nat
      /\ sent[e] > 0 => flights[e] = AllFlights(e)
      /\ flights[e] <= AllFlights(e)
      /\ Outgoing(e)
  BY Numbers DEF Streams, Incoming
<1>4. /\ Total(e)' = Total(e) /\ AllFlights(e)' = AllFlights(e)
      /\ net'[e] = net[e]
  BY <1>2 DEF Total, AllFlights
<1>5. /\ hs'[e] \in {"start", "wait", "done"}
      /\ hs[e] # "start" => hs'[e] # "start"
      /\ hs[e] = "start" => hs'[e] \in {"start", "wait"}
  BY <1>1, <1>2 DEF Advanced
<1>6. /\ inb'[e] \in Seq(Items) /\ Incoming(e)'
      /\ Consumed(e)' = IF Takes(e) THEN Consumed(e) + 1 ELSE Consumed(e)
      /\ Takes(e) => Consumed(e) + 1 <= AllFlights(e)
      /\ e = "U" /\ Takes(e) => hs[e] # "start"
  <2>1. CASE Takes(e)
    <3>1. inb[e] # <<>> /\ Head(inb[e]) = Flight
      BY <2>1 DEF Takes, HeadIs
    <3>2. /\ Tail(inb[e]) \in Seq(Items)
          /\ Feed(AllFlights(e), Total(e), Tail(inb[e]), net[e])
          /\ DataLen(Tail(inb[e])) = DataLen(inb[e]) - 1 /\ DataLen(inb[e]) >= 1
          /\ Total(e) - DataLen(net[e]) - DataLen(inb[e]) + 1 <= AllFlights(e)
      BY <1>0, <1>1, <1>3, <3>1, FeedTake
    <3>6. inb'[e] = Tail(inb[e])
      BY <1>2, <2>1
    <3>7. Consumed(e)' = Consumed(e) + 1
      BY <1>3, <1>4, <3>2, <3>6 DEF Consumed
    <3>8. Incoming(e)'
      BY <1>2, <1>3, <1>4, <3>2, <3>6 DEF Incoming
    <3>9. flights[e] > 0
      <4>1. Total(e) >= 1
        BY <1>3, <3>2 DEF Feed
      <4> QED
        BY <1>1, <1>3, <4>1 DEF Total
    <3>10. e = "U" => hs[e] # "start"
      BY <3>9 DEF Streams
    <3> QED
      BY <2>1, <3>2, <3>6, <3>7, <3>8, <3>10 DEF Consumed
  <2>2. CASE ~Takes(e)
    <3>1. inb'[e] = inb[e]
      BY <1>2, <2>2
    <3> QED
      BY <1>1, <1>2, <1>3, <1>4, <2>2, <3>1 DEF Incoming, Consumed
  <2> QED
    BY <2>1, <2>2
<1>7. out'[e] \in Seq(Items) /\ Outgoing(e)' /\ Forwarded(e)' = Forwarded(e)
  <2>1. CASE hs[e] = "start" /\ hs'[e] = "wait"
    <3>1. Len(got[e]) = 0 /\ Len(out[e]) = 0
      BY <1>3, <2>1 DEF Outgoing
    <3>2. Flight \in Items
      BY DEF Items
    <3>3. out'[e] \in Seq(Items) /\ Len(out'[e]) = 1 /\ out'[e][1] = Flight
      BY <1>1, <1>2, <2>1, <3>1, <3>2
    <3>4. Laid(got[e], out'[e])
      BY <3>1, <3>3 DEF Laid
    <3> QED
      BY <1>2, <2>1, <3>1, <3>3, <3>4 DEF Outgoing, Forwarded
  <2>2. CASE ~(hs[e] = "start" /\ hs'[e] = "wait")
    <3>1. out'[e] = out[e] /\ got' = got /\ (hs[e] = "start" <=> hs'[e] = "start")
      BY <1>2, <1>5, <2>2
    <3> QED
      BY <1>1, <1>3, <3>1 DEF Outgoing, Forwarded
  <2> QED
    BY <2>1, <2>2
<1> QED
  BY <1>5, <1>6, <1>7

\* A pass over the handshakes keeps the invariant.
LEMMA DriveStep == ASSUME IInv, Drive PROVE IInv'
<1>1. TypeOK /\ Streams /\ Phases
  BY DEF IInv
<1>2. /\ pc' = "pump" /\ progressed' = (hs' # hs) /\ ~AnyDead
      /\ UNCHANGED <<quiet, seen, net, flights, sent, got, full, reset>>
  BY DEF Drive, peerVars
<1>3. TypeOK'
  <2>1. /\ hs' \in [Ends -> {"start", "wait", "done"}]
        /\ inb' \in [Ends -> Seq(Items)] /\ out' \in [Ends -> Seq(Items)]
        /\ dead' \in [Ends -> BOOLEAN]
    <3>1. /\ DOMAIN hs' = Ends /\ DOMAIN inb' = Ends /\ DOMAIN out' = Ends
          /\ DOMAIN dead' = Ends
          /\ hs' = [f \in Ends |-> hs'[f]] /\ inb' = [f \in Ends |-> inb'[f]]
          /\ out' = [f \in Ends |-> out'[f]] /\ dead' = [f \in Ends |-> dead'[f]]
      BY DEF Drive
    <3>2. \A f \in Ends : /\ hs'[f] \in {"start", "wait", "done"}
                          /\ inb'[f] \in Seq(Items) /\ out'[f] \in Seq(Items)
                          /\ dead'[f] \in BOOLEAN
      BY <1>1, DriveStreams, DriveEnd
    <3> QED
      BY <3>1, <3>2
  <2> QED
    BY <1>1, <1>2, <2>1 DEF TypeOK
<1>4. ASSUME NEW e \in Ends PROVE Position(e)'
  <2>1. /\ hs[e] \in {"start", "wait", "done"} /\ AllFlights(e) \in {1, 2}
        /\ e \in {"C", "U"} /\ Other(e) \in Ends
        /\ Consumed(e) \in Int /\ Forwarded(Other(e)) \in Int
    BY <1>1, Types, Numbers
  <2>2. /\ Position(e) /\ ~AnyDead
    BY <1>1, <1>2 DEF Streams
  <2>3. /\ Forwarded(Other(e))' = Forwarded(Other(e))
        /\ Consumed(e)' = IF Takes(e) THEN Consumed(e) + 1 ELSE Consumed(e)
        /\ Takes(e) => Consumed(e) + 1 <= AllFlights(e)
        /\ e = "U" /\ Takes(e) => hs[e] # "start"
        /\ AllFlights(e)' = AllFlights(e) /\ Other(e)' = Other(e)
    BY <1>1, <2>1, DriveStreams DEF AllFlights, Other
  <2>4. CASE Takes(e) /\ hs'[e] = hs[e] /\ dead'[e]
    <3>1. hs[e] # "done" /\ AnyDead'
      BY <2>4 DEF Takes, AnyDead
    <3> QED
      BY <2>2, <2>3, <2>4, <3>1 DEF Position
  <2>5. CASE Takes(e) /\ hs'[e] = Advanced(e)
    <3>1. /\ hs[e] # "done" /\ Forwarded(Other(e)) = 0 /\ Consumed(e) = Taken(e)
          /\ Consumed(e)' = Consumed(e) + 1
      BY <2>2, <2>3, <2>5 DEF Takes, Position
    <3>2. CASE hs[e] = "start"
      <4>1. e = "C" /\ hs'[e] = "wait" /\ Consumed(e) = 0 /\ AllFlights(e) = 2
        BY <2>1, <2>3, <2>5, <3>1, <3>2 DEF Advanced, Taken, AllFlights
      <4> QED
        BY <2>3, <3>1, <4>1 DEF Position, Taken
    <3>3. CASE hs[e] = "wait"
      <4>1. hs'[e] = "done" /\ Consumed(e) = AllFlights(e) - 1
        BY <2>1, <2>5, <3>1, <3>3 DEF Advanced, Taken
      <4> QED
        BY <2>1, <2>3, <3>1, <4>1 DEF Position
    <3> QED
      BY <2>1, <3>1, <3>2, <3>3
  <2>6. CASE ~Takes(e) /\ hs'[e] = Advanced(e)
    <3>1. Consumed(e)' = Consumed(e)
      BY <2>3, <2>6
    <3>2. CASE hs'[e] = hs[e]
      BY <2>2, <2>3, <3>1, <3>2 DEF Position, Taken
    <3>3. CASE hs'[e] # hs[e]
      <4>1. hs[e] = "start" /\ e = "U" /\ hs'[e] = "wait"
        BY <2>1, <2>6, <3>3 DEF Advanced
      <4>2. Consumed(e) = 0 /\ AllFlights(e) = 1 /\ Forwarded(Other(e)) = 0
        BY <2>2, <4>1 DEF Position, Taken, AllFlights
      <4> QED
        BY <2>3, <3>1, <4>1, <4>2 DEF Position, Taken
    <3> QED
      BY <3>2, <3>3
  <2> QED
    BY <2>4, <2>5, <2>6, DriveEnd
<1>5. Streams'
  <2>1. ASSUME NEW e \in Ends PROVE Incoming(e)' /\ Outgoing(e)'
    BY <1>1, DriveStreams
  <2>2. (flights["U"] > 0 => hs["U"] # "start")'
    BY <1>1, <1>2, DriveStreams DEF Streams
  <2>3. Forwarded("U")' = Forwarded("U")
    BY <1>1, DriveStreams
  <2> QED
    BY <1>1, <1>2, <1>4, <2>1, <2>2, <2>3 DEF Streams
<1>6. Phases'
  <2>1. ASSUME NEW e \in Ends, dead'[e] PROVE hs'[e] # "done"
    <3>1. hs[e] # "done"
      BY <1>1, <2>1, DriveEnd DEF Takes, AnyDead
    <3>2. CASE Takes(e) /\ hs'[e] = hs[e]
      BY <3>1, <3>2
    <3>3. CASE ~Takes(e) /\ hs'[e] = Advanced(e)
      BY <1>1, <3>1, <3>3 DEF Advanced
    <3> QED
      BY <2>1, <3>2, <3>3, DriveEnd
  <2>2. BothDone' => ~AnyDead'
    BY <2>1 DEF BothDone, AnyDead
  <2>3. ASSUME ~progressed', ~AnyDead', NEW e \in Ends PROVE ~Takes(e)'
    <3>1. hs' = hs
      BY <1>2, <2>3
    <3>2. ~Takes(e)
      <4>1. SUFFICES ASSUME Takes(e) PROVE FALSE
        OBVIOUS
      <4>2. hs'[e] = Advanced(e) /\ hs[e] # "done" /\ hs[e] \in {"start", "wait", "done"}
        BY <1>1, <2>3, <4>1, DriveEnd, Types DEF AnyDead, Takes
      <4> QED
        BY <3>1, <4>1, <4>2 DEF Advanced
    <3> QED
      BY <3>1, <3>2, DriveEnd DEF Takes, HeadIs
  <2> QED
    BY <1>2, <2>2, <2>3 DEF Phases, LastWords
<1> QED
  BY <1>3, <1>5, <1>6 DEF IInv


\* How many records were encrypted for an end whose handshake has begun.
LEMMA ForwardedIs ==
  ASSUME TypeOK, Streams, NEW e \in Ends, hs[e] # "start"
  PROVE  /\ Forwarded(e) = Len(got[e]) + Len(out[e]) - 1 /\ Forwarded(e) \in Nat
         /\ Len(got[e]) # 0 \/ Len(out[e]) # 0
<1>1. Len(got[e]) # 0 \/ Len(out[e]) # 0
  BY DEF Streams, Outgoing
<1>2. Forwarded(e) = Len(got[e]) + Len(out[e]) - 1
  BY DEF Forwarded
<1>3. PICK g \in Nat, o \in Nat : Len(got[e]) = g /\ Len(out[e]) = o
  BY Numbers
<1>4. g + o - 1 \in Nat
  BY <1>1, <1>3
<1> QED
  BY <1>1, <1>2, <1>3, <1>4

\* What read_plain can decrypt of established ends is everything that was received,
\* and it is the next that is to be forwarded.
LEMMA ReadyIs ==
  ASSUME TypeOK, Streams, BothDone, NEW e \in Ends
  PROVE  /\ Ready(e) = DataLen(inb[e]) /\ Forwarded(Other(e)) \in Nat
         /\ \A i \in 1 .. DataLen(inb[e]) : inb[e][i] = Forwarded(Other(e)) + i
<1>1. /\ inb[e] \in Seq(Items) /\ AllFlights(e) \in Nat /\ Other(e) \in Ends
      /\ Total(e) \in Nat /\ DataLen(net[e]) \in Nat
  BY Types, Numbers
<1>2. /\ Len(inb[e]) \in Nat /\ DataLen(inb[e]) \in Nat /\ DataLen(inb[e]) <= Len(inb[e])
      /\ DataLen(inb[e]) < Len(inb[e]) => inb[e][DataLen(inb[e]) + 1] = Eof
  <2>1. /\ Len(inb[e]) \in Nat /\ DataLen(inb[e]) \in Nat
        /\ DataLen(inb[e]) <= Len(inb[e])
        /\ EndsIn(inb[e], Eof) => /\ inb[e][Len(inb[e])] = Eof
                                  /\ DataLen(inb[e]) = Len(inb[e]) - 1
        /\ ~EndsIn(inb[e], Eof) => DataLen(inb[e]) = Len(inb[e])
    BY <1>1, EndFacts
  <2>2. EndsIn(inb[e], Eof) => DataLen(inb[e]) + 1 = Len(inb[e])
    BY <2>1
  <2> QED
    BY <2>1, <2>2
<1>3. Forwarded(Other(e)) \in Nat
  <2>1. hs[Other(e)] # "start"
    BY <1>1 DEF BothDone
  <2> QED
    BY <1>1, <2>1, ForwardedIs
<1>4. ASSUME NEW i \in 1 .. DataLen(inb[e])
      PROVE  inb[e][i] = Forwarded(Other(e)) + i
  <2>1. inb[e][i] = Item(AllFlights(e), Consumed(e) + i)
    BY DEF Streams, Incoming, Feed, Consumed
  <2>2. Consumed(e) = AllFlights(e) + Forwarded(Other(e))
    BY DEF Streams, Position, BothDone
  <2>3. Forwarded(Other(e)) + i \in Nat /\ Forwarded(Other(e)) + i > 0
    BY <1>2, <1>3
  <2>4. Consumed(e) + i = AllFlights(e) + (Forwarded(Other(e)) + i)
    BY <1>1, <1>2, <1>3, <2>2
  <2> QED
    BY <1>1, <2>1, <2>3, <2>4, RecordIs
<1>5. \A i \in 1 .. DataLen(inb[e]) : inb[e][i] > 0
  BY <1>2, <1>3, <1>4
<1>6. Ready(e) = DataLen(inb[e])
  <2> DEFINE Is(k) == /\ \A i \in 1 .. k : inb[e][i] > 0
                      /\ k < Len(inb[e]) => inb[e][k + 1] <= 0
  <2>1. Is(DataLen(inb[e])) /\ DataLen(inb[e]) \in 0 .. Len(inb[e])
    BY <1>2, <1>5
  <2>2. ASSUME NEW k \in 0 .. Len(inb[e]), Is(k) PROVE k = DataLen(inb[e])
    <3>1. ~(k < DataLen(inb[e]))
      <4>1. SUFFICES ASSUME k < DataLen(inb[e]) PROVE FALSE
        OBVIOUS
      <4>2. k + 1 \in 1 .. DataLen(inb[e]) /\ k < Len(inb[e])
        BY <1>2, <4>1
      <4>3. inb[e][k + 1] > 0 /\ inb[e][k + 1] <= 0
        BY <1>5, <2>2, <4>2
      <4>4. inb[e][k + 1] \in Int
        BY <1>3, <1>4, <4>2
      <4> QED
        BY <4>3, <4>4
    <3>2. ~(k > DataLen(inb[e]))
      <4>1. SUFFICES ASSUME k > DataLen(inb[e]) PROVE FALSE
        OBVIOUS
      <4>2. DataLen(inb[e]) + 1 \in 1 .. k /\ DataLen(inb[e]) < Len(inb[e])
        BY <1>2, <4>1
      <4>3. inb[e][DataLen(inb[e]) + 1] = -1 /\ inb[e][DataLen(inb[e]) + 1] > 0
        BY <1>2, <2>2, <4>2
      <4> QED
        BY <4>3
    <3> QED
      BY <1>2, <3>1, <3>2
  <2>3. Ready(e) = CHOOSE k \in 0 .. Len(inb[e]) : Is(k)
    BY DEF Ready
  <2>4. (CHOOSE k \in 0 .. Len(inb[e]) : Is(k)) \in 0 .. Len(inb[e])
        /\ Is(CHOOSE k \in 0 .. Len(inb[e]) : Is(k))
    BY <2>1
  <2> QED
    BY <2>2, <2>3, <2>4
<1> QED
  BY <1>3, <1>4, <1>6

\* No data is nothing, or the end alone.
LEMMA NoData ==
  ASSUME NEW s \in Seq(Items), DataLen(s) = 0
  PROVE  s = <<>> \/ s = <<Eof>>
<1>1. CASE EndsIn(s, Eof)
  <2>1. Len(s) \in Nat /\ 0 = Len(s) - 1 /\ s[Len(s)] = Eof
    BY <1>1, EndFacts
  <2>2. Len(s) = 1
    BY <2>1
  <2> QED
    BY <2>1, <2>2
<1>2. CASE ~EndsIn(s, Eof)
  <2>1. Len(s) = 0
    BY <1>2, EndFacts
  <2> QED
    BY <2>1
<1> QED
  BY <1>1, <1>2

\* What is decrypted of one end is encrypted for the other.
LEMMA PumpEnd ==
  ASSUME TypeOK, Streams, BothDone, NEW n \in [Ends -> Nat], Forward(n), NEW e \in Ends,
         UNCHANGED <<hs, peerVars>>, n[e] <= DataLen(inb[e])
  PROVE  /\ inb'[e] \in Seq(Items) /\ out'[Other(e)] \in Seq(Items)
         /\ Incoming(e)' /\ Outgoing(Other(e))' /\ Consumed(e)' = Consumed(e) + n[e]
         /\ Forwarded(Other(e))' = Forwarded(Other(e)) + n[e]
         /\ DataLen(inb'[e]) = DataLen(inb[e]) - n[e]
         /\ Ended(e)' <=> Ended(e)
<1>1. /\ inb[e] \in Seq(Items) /\ net[e] \in Seq(Items) /\ AllFlights(e) \in Nat
      /\ Other(e) \in Ends /\ Other(Other(e)) = e
      /\ Total(e) \in Nat /\ DataLen(inb[e]) \in Nat /\ DataLen(net[e]) \in Nat
      /\ got[Other(e)] \in Seq(Items) /\ out[Other(e)] \in Seq(Items)
      /\ Len(got[Other(e)]) \in Nat /\ Len(out[Other(e)]) \in Nat
      /\ Len(inb[e]) \in Nat /\ DataLen(inb[e]) <= Len(inb[e])
  <2>1. /\ inb[e] \in Seq(Items) /\ net[e] \in Seq(Items) /\ AllFlights(e) \in Nat
        /\ Other(e) \in Ends /\ Other(Other(e)) = e
    BY Types
  <2>2. got[Other(e)] \in Seq(Items) /\ out[Other(e)] \in Seq(Items)
    BY <2>1, Types
  <2>3. Len(got[Other(e)]) \in Nat /\ Len(out[Other(e)]) \in Nat
    BY <2>1, Numbers
  <2>4. /\ Len(inb[e]) \in Nat /\ DataLen(inb[e]) <= Len(inb[e])
        /\ Total(e) \in Nat /\ DataLen(inb[e]) \in Nat /\ DataLen(net[e]) \in Nat
    BY <2>1, Numbers, EndFacts
  <2> QED
    BY <2>1, <2>2, <2>3, <2>4
<1>2. /\ n[e] \in 0 .. Len(inb[e])
      /\ Feed(AllFlights(e), Total(e), inb[e], net[e])
  BY <1>1 DEF Streams, Incoming
<1>3. /\ UNCHANGED <<hs, net, flights, sent, got>> /\ Total(e)' = Total(e)
      /\ AllFlights(e)' = AllFlights(e) /\ Other(e)' = Other(e)
  BY DEF peerVars, Total, AllFlights, Other
<1>4. PICK t \in Seq(Items) :
        /\ SubSeq(inb[e], n[e] + 1, Len(inb[e])) = t /\ Len(t) = Len(inb[e]) - n[e]
        /\ \A i \in 1 .. Len(inb[e]) - n[e] : t[i] = inb[e][n[e] + i]
  <2>1. inb[e] \in Seq(Items) /\ n[e] \in 0 .. Len(inb[e])
    BY <1>1, <1>2
  <2>2. /\ SubSeq(inb[e], n[e] + 1, Len(inb[e])) \in Seq(Items)
        /\ Len(SubSeq(inb[e], n[e] + 1, Len(inb[e]))) = Len(inb[e]) - n[e]
        /\ \A i \in 1 .. Len(inb[e]) - n[e] :
             SubSeq(inb[e], n[e] + 1, Len(inb[e]))[i] = inb[e][n[e] + i]
    BY ONLY <2>1, CutAt
  <2> QED
    BY ONLY <2>2, Zenon
<1>5. PICK c \in Seq(Items) :
        /\ SubSeq(inb[e], 1, n[e]) = c /\ Len(c) = n[e]
        /\ \A i \in 1 .. n[e] : c[i] = inb[e][i]
  <2>1. inb[e] \in Seq(Items) /\ n[e] \in 0 .. Len(inb[e])
    BY <1>1, <1>2
  <2>2. /\ SubSeq(inb[e], 1, n[e]) \in Seq(Items)
        /\ Len(SubSeq(inb[e], 1, n[e])) = n[e]
        /\ \A i \in 1 .. n[e] : SubSeq(inb[e], 1, n[e])[i] = inb[e][i]
    BY ONLY <2>1, CutAt
  <2> QED
    BY ONLY <2>2, Zenon
<1>6. inb'[e] = t /\ out'[Other(e)] = out[Other(e)] \o c
  BY <1>1, <1>4, <1>5 DEF Forward
<1>7. /\ Feed(AllFlights(e), Total(e), t, net[e]) /\ DataLen(t) = DataLen(inb[e]) - n[e]
      /\ EndsIn(t, Eof) <=> EndsIn(inb[e], Eof)
  <2>1. PICK j \in Nat : n[e] = j
    OBVIOUS
  <2>2. /\ j <= DataLen(inb[e]) /\ Len(t) = Len(inb[e]) - j
        /\ \A i \in 1 .. Len(inb[e]) - j : t[i] = inb[e][j + i]
    BY <1>4, <2>1
  <2>3. /\ Feed(AllFlights(e), Total(e), t, net[e]) /\ DataLen(t) = DataLen(inb[e]) - j
        /\ EndsIn(t, Eof) <=> EndsIn(inb[e], Eof)
    BY <1>1, <1>2, <2>2, FeedCut
  <2> QED
    BY <2>1, <2>3
<1>8. Incoming(e)' /\ Consumed(e)' = Consumed(e) + n[e]
  <2>1. /\ sent[e] > 0 => flights[e] = AllFlights(e)
        /\ flights[e] <= AllFlights(e)
    BY DEF Streams, Incoming
  <2> QED
    BY <1>1, <1>2, <1>3, <1>6, <1>7, <2>1 DEF Incoming, Consumed
<1>9. Laid(got[Other(e)], out[Other(e)] \o c)
  <2>1. \A i \in 1 .. Len(c) : c[i] = Len(got[Other(e)]) + Len(out[Other(e)]) + i - 1
    <3>1. SUFFICES ASSUME NEW i \in 1 .. n[e]
                   PROVE  c[i] = Len(got[Other(e)]) + Len(out[Other(e)]) + i - 1
      BY <1>5
    <3>2. i \in 1 .. DataLen(inb[e]) /\ i \in Int
      BY <1>1, <1>2
    <3>3. c[i] = Forwarded(Other(e)) + i
      BY <1>5, <3>2, ReadyIs
    <3>4. hs[Other(e)] # "start"
      BY <1>1 DEF BothDone
    <3> QED
      BY <1>1, <3>2, <3>3, <3>4 DEF Forwarded
  <2>2. Laid(got[Other(e)], out[Other(e)])
    BY <1>1 DEF Streams, Outgoing
  <2> QED
    BY <1>1, <2>1, <2>2, LaidMore
<1>10. /\ out[Other(e)] \o c \in Seq(Items)
       /\ Len(out[Other(e)] \o c) = Len(out[Other(e)]) + n[e]
  <2>1. out[Other(e)] \in Seq(Items) /\ c \in Seq(Items)
    BY <1>1
  <2>2. /\ out[Other(e)] \o c \in Seq(Items)
        /\ Len(out[Other(e)] \o c) = Len(out[Other(e)]) + Len(c)
    BY ONLY <2>1, Joined
  <2> QED
    BY <1>5, <2>2
<1>11. Outgoing(Other(e))'
  <2>1. hs[Other(e)] # "start"
    BY <1>1 DEF BothDone
  <2>2. Len(got[Other(e)]) # 0 \/ Len(out[Other(e)]) # 0
    BY <1>1, <2>1, ForwardedIs
  <2>3. ~(Len(got[Other(e)]) = 0 /\ Len(out[Other(e)] \o c) = 0)
    <3>1. PICK g \in Nat, o \in Nat : Len(got[Other(e)]) = g /\ Len(out[Other(e)]) = o
      BY <1>1
    <3> QED
      BY <1>10, <2>2, <3>1
  <2>4. UNCHANGED <<got[Other(e)], hs[Other(e)]>>
    BY <1>3
  <2> QED
    BY <1>3, <1>6, <1>9, <2>1, <2>3, <2>4 DEF Outgoing
<1>12. Forwarded(Other(e))' = Forwarded(Other(e)) + n[e]
  <2>1. hs[Other(e)] # "start"
    BY <1>1 DEF BothDone
  <2>2. /\ Forwarded(Other(e)) = Len(got[Other(e)]) + Len(out[Other(e)]) - 1
        /\ n[e] \in Nat
    BY <1>1, <2>1 DEF Forwarded
  <2>3. Forwarded(Other(e))' = Len(got[Other(e)]) + (Len(out[Other(e)]) + n[e]) - 1
    BY <1>3, <1>6, <1>10, <2>1 DEF Forwarded
  <2>4. PICK g \in Nat, o \in Nat : Len(got[Other(e)]) = g /\ Len(out[Other(e)]) = o
    BY <1>1
  <2>5. g + (o + n[e]) - 1 = g + o - 1 + n[e]
    BY <2>2
  <2> QED
    BY <2>2, <2>3, <2>4, <2>5
<1> QED
  BY <1>4, <1>6, <1>7, <1>8, <1>10, <1>11, <1>12 DEF Ended

\* A pass over the data keeps the invariant.
LEMMA PumpStep == ASSUME IInv, Pump PROVE IInv'
<1>1. TypeOK /\ Streams /\ Phases
  BY DEF IInv
<1>2. /\ pc = "pump" /\ pc' = "push" /\ (BothDone => ~AnyDead)
      /\ UNCHANGED <<hs, net, flights, sent, got, full, reset>>
  BY <1>1 DEF Pump, Forward, peerVars, Phases
<1>3. CASE ~BothDone
  <2>1. UNCHANGED <<progressed, quiet, dead, inb, out, seen>>
    BY <1>3 DEF Pump
  <2>2. TypeOK'
    BY <1>1, <1>2, <2>1 DEF TypeOK
  <2>3. Streams'
    BY <1>1, <1>2, <2>1
    DEF Streams, Incoming, Outgoing, Position, Total, Consumed, Taken, Forwarded,
        AnyDead, AllFlights, Other
  <2>4. Phases'
    BY <1>1, <1>2, <1>3, <2>1
    DEF Phases, BothDone, AnyDead, Takes, HeadIs, LastWords
  <2> QED
    BY <2>2, <2>3, <2>4 DEF IInv
<1>4. CASE BothDone
  <2> SUFFICES ASSUME NEW n, n = [e \in Ends |-> IF e = "U" /\ Ended("C") THEN 0
                                                  ELSE Ready(e)],
                      Forward(n), Observe(n["C"]),
                      dead' = [e \in Ends |-> Ended(e) /\ (e = "U" => ~Ended("C"))]
               PROVE  IInv'
    BY <1>2, <1>4 DEF Pump
  <2>1. /\ n \in [Ends -> Nat] /\ \A e \in Ends : n[e] <= DataLen(inb[e])
        /\ n["C"] = DataLen(inb["C"])
        /\ ~Ended("C") => n["U"] = DataLen(inb["U"])
    <3>1. \A e \in Ends : Ready(e) = DataLen(inb[e]) /\ DataLen(inb[e]) \in Nat
      BY <1>1, <1>4, ReadyIs, Numbers
    <3> QED
      BY <3>1
  <2>2. ASSUME NEW e \in Ends
        PROVE  /\ inb'[e] \in Seq(Items) /\ out'[Other(e)] \in Seq(Items)
               /\ Incoming(e)' /\ Outgoing(Other(e))' /\ Consumed(e)' = Consumed(e) + n[e]
               /\ Forwarded(Other(e))' = Forwarded(Other(e)) + n[e]
               /\ DataLen(inb'[e]) = DataLen(inb[e]) - n[e]
               /\ Ended(e)' <=> Ended(e)
    BY <1>1, <1>2, <1>4, <2>1, PumpEnd DEF peerVars
  <2>3. Other("C") = "U" /\ Other("U") = "C"
    BY DEF Other
  <2>4. ASSUME NEW e \in Ends
        PROVE  out'[e] \in Seq(Items) /\ Outgoing(e)' /\ Position(e)'
    <3>1. out'[e] \in Seq(Items) /\ Outgoing(e)'
      BY <2>2, <2>3
    <3>2. hs'[e] = "done" /\ Consumed(e) = AllFlights(e) + Forwarded(Other(e))
      BY <1>1, <1>2, <1>4 DEF BothDone, Streams, Position
    <3>3. /\ AllFlights(e) \in Nat /\ Forwarded(Other(e)) \in Int /\ n[e] \in Nat
          /\ AllFlights(e)' = AllFlights(e) /\ Other(e)' = Other(e)
      BY <1>1, <2>1, Types, Numbers DEF AllFlights, Other
    <3> QED
      BY <2>2, <3>1, <3>2, <3>3 DEF Position
  <2>5. /\ seen' \in Seq(1 .. MaxSent) /\ Len(seen') = Forwarded("U")'
        /\ \A i \in 1 .. Len(seen') : seen'[i] = i
    <3>1. /\ inb["C"] \in Seq(Items) /\ seen \in Seq(1 .. MaxSent) /\ MaxSent \in Nat
          /\ Len(seen) \in Nat /\ n["C"] \in 0 .. Len(inb["C"])
      <4>1. inb["C"] \in Seq(Items) /\ seen \in Seq(1 .. MaxSent)
        BY <1>1 DEF TypeOK
      <4> QED
        BY <2>1, <4>1, EndFacts
    <3>2. PICK c \in Seq(Items) :
            /\ SubSeq(inb["C"], 1, n["C"]) = c /\ Len(c) = n["C"]
            /\ \A i \in 1 .. n["C"] : c[i] = inb["C"][i]
      <4>1. inb["C"] \in Seq(Items) /\ n["C"] \in 0 .. Len(inb["C"])
        BY <3>1
      <4>2. /\ SubSeq(inb["C"], 1, n["C"]) \in Seq(Items)
            /\ Len(SubSeq(inb["C"], 1, n["C"])) = n["C"]
            /\ \A i \in 1 .. n["C"] : SubSeq(inb["C"], 1, n["C"])[i] = inb["C"][i]
        BY ONLY <4>1, CutAt
      <4> QED
        BY ONLY <4>2, Zenon
    <3>3. \A i \in 1 .. Len(c) : c[i] = Len(seen) + i
      BY <1>1, <1>4, <2>1, <2>3, <3>2, ReadyIs DEF Streams
    <3>4. c \in Seq(1 .. MaxSent)
      <4>1. \A i \in 1 .. Len(c) : c[i] \in 1 .. MaxSent
        <5>1. SUFFICES ASSUME NEW i \in 1 .. Len(c) PROVE c[i] \in 1 .. MaxSent
          OBVIOUS
        <5>2. c[i] \in Items
          BY <3>2
        <5> QED
          BY <3>1, <3>2, <3>3, <5>2 DEF Items
      <4> QED
        BY <4>1
    <3>5. seen' = seen \o c
      BY <3>2 DEF Observe
    <3>6. /\ seen \o c \in Seq(1 .. MaxSent) /\ Len(seen \o c) = Len(seen) + Len(c)
          /\ \A i \in 1 .. Len(seen) : (seen \o c)[i] = seen[i]
          /\ \A i \in 1 .. Len(c) : (seen \o c)[Len(seen) + i] = c[i]
      BY <3>1, <3>4, Joined
    <3>7. Len(seen \o c) = Forwarded("U")'
      BY <1>1, <2>2, <2>3, <3>2, <3>6 DEF Streams
    <3>8. ASSUME NEW i \in 1 .. Len(seen) + Len(c) PROVE (seen \o c)[i] = i
      <4>1. CASE i \in 1 .. Len(seen)
        BY <1>1, <3>6, <4>1 DEF Streams
      <4>2. CASE i - Len(seen) \in 1 .. Len(c)
        <5>1. i = Len(seen) + (i - Len(seen))
          BY <3>1
        <5>2. (seen \o c)[i] = c[i - Len(seen)]
          BY <3>6, <4>2, <5>1
        <5> QED
          BY <3>3, <4>2, <5>1, <5>2
      <4> QED
        BY <3>1, <4>1, <4>2
    <3> QED
      BY <3>5, <3>6, <3>7, <3>8
  <2>6. Streams'
    BY <1>1, <1>2, <2>2, <2>4, <2>5 DEF Streams
  <2>7. TypeOK'
    <3>1. inb' \in [Ends -> Seq(Items)] /\ out' \in [Ends -> Seq(Items)]
      <4>1. /\ DOMAIN inb' = Ends /\ DOMAIN out' = Ends
            /\ inb' = [e \in Ends |-> inb'[e]] /\ out' = [e \in Ends |-> out'[e]]
        BY DEF Forward
      <4>2. \A e \in Ends : inb'[e] \in Seq(Items) /\ out'[e] \in Seq(Items)
        BY <2>2, <2>4
      <4> QED
        BY <4>1, <4>2
    <3>2. dead' \in [Ends -> BOOLEAN]
      OBVIOUS
    <3>3. progressed' \in BOOLEAN /\ quiet' \in 0 .. MaxQuiet
      BY <1>1 DEF Forward, TypeOK
    <3> QED
      BY <1>1, <1>2, <2>5, <3>1, <3>2, <3>3 DEF TypeOK
  <2>8. Phases'
    <3>1. Drained("C")' /\ (Ended("C")' \/ Drained("U")')
      <4>1. DataLen(inb'["C"]) = 0 /\ (Ended("C") \/ DataLen(inb'["U"]) = 0)
        <5>1. \A e \in Ends : DataLen(inb[e]) \in Nat
          BY <1>1, Numbers
        <5> QED
          BY <2>1, <2>2, <5>1
      <4> QED
        BY <2>2, <4>1, NoData DEF Drained
    <3>2. \A e \in Ends : Ended(e)' => AnyDead'
      BY <2>2 DEF AnyDead
    <3>3. \A e \in Ends : ~Takes(e)'
      BY <1>2, <1>4 DEF Takes, BothDone
    <3> QED
      BY <1>2, <3>1, <3>2, <3>3 DEF Phases, LastWords
  <2> QED
    BY <2>6, <2>7, <2>8 DEF IInv
<1> QED
  BY <1>3, <1>4

\* What a flush does to one end: what was encrypted for it stays so.
LEMMA FlushEnd ==
  ASSUME TypeOK, Streams, NEW k, NEW e \in Ends, k[e] \in 0 .. Len(out[e]), Flush(k),
         UNCHANGED hs
  PROVE  /\ got'[e] \in Seq(Items) /\ out'[e] \in Seq(Items) /\ full'[e] \in BOOLEAN
         /\ Outgoing(e)' /\ Forwarded(e)' = Forwarded(e)
         /\ Len(out'[e]) = Len(out[e]) - k[e]
         /\ full'[e] <=> full[e] \/ (k[e] > 0 /\ k[e] < Len(out[e]))
<1>1. /\ got[e] \in Seq(Items) /\ out[e] \in Seq(Items) /\ full[e] \in BOOLEAN
      /\ Outgoing(e)
  BY Types DEF Streams
<1>2. PICK g \in Nat, o \in Nat : Len(got[e]) = g /\ Len(out[e]) = o
  BY <1>1
<1>3. PICK j \in 0 .. o : k[e] = j
  BY <1>2
<1>4. /\ got'[e] = got[e] \o SubSeq(out[e], 1, k[e])
      /\ out'[e] = SubSeq(out[e], k[e] + 1, Len(out[e]))
      /\ full'[e] = (full[e] \/ (k[e] > 0 /\ k[e] < Len(out[e])))
  BY DEF Flush
<1>5. /\ SubSeq(out[e], 1, k[e]) \in Seq(Items) /\ Len(SubSeq(out[e], 1, k[e])) = k[e]
      /\ SubSeq(out[e], k[e] + 1, Len(out[e])) \in Seq(Items)
      /\ Len(SubSeq(out[e], k[e] + 1, Len(out[e]))) = Len(out[e]) - k[e]
  BY ONLY <1>1, k[e] \in 0 .. Len(out[e]), CutAt
<1>6. /\ got[e] \o SubSeq(out[e], 1, k[e]) \in Seq(Items)
      /\ Len(got[e] \o SubSeq(out[e], 1, k[e]))
           = Len(got[e]) + Len(SubSeq(out[e], 1, k[e]))
  BY ONLY <1>1, <1>5, Joined
<1>7. Laid(got'[e], out'[e])
  <2>1. Laid(got[e], out[e])
    BY <1>1 DEF Outgoing
  <2> QED
    BY ONLY <1>1, <1>4, <2>1, k[e] \in 0 .. Len(out[e]), LaidFlush
<1>8. Len(got'[e]) = g + j /\ Len(out'[e]) = o - j
  BY <1>2, <1>3, <1>4, <1>5, <1>6
<1>9. Outgoing(e)'
  <2>1. hs[e] = "start" <=> g = 0 /\ o = 0
    BY <1>1, <1>2 DEF Outgoing
  <2>2. g = 0 /\ o = 0 <=> g + j = 0 /\ o - j = 0
    BY <1>2, <1>3
  <2> QED
    BY <1>7, <1>8, <2>1, <2>2 DEF Outgoing
<1>10. Forwarded(e)' = Forwarded(e)
  <2>1. Forwarded(e) = IF hs[e] = "start" THEN 0 ELSE g + o - 1
    BY <1>2 DEF Forwarded
  <2>2. Forwarded(e)' = IF hs[e] = "start" THEN 0 ELSE g + j + (o - j) - 1
    BY <1>8 DEF Forwarded
  <2>3. g + j + (o - j) - 1 = g + o - 1
    BY <1>2, <1>3
  <2> QED
    BY <2>1, <2>2, <2>3
<1> QED
  BY <1>1, <1>4, <1>5, <1>6, <1>9, <1>10

\* The records of a stretch that was forwarded.
LEMMA LaidRecords ==
  ASSUME NEW s \in Seq(Items), \A i \in 1 .. Len(s) : s[i] = i - 1,
         NEW m \in Nat, Len(s) = m + 1 \/ (Len(s) = 0 /\ m = 0)
  PROVE  Records(s) = 1 .. m
<1>1. DOMAIN s = 1 .. Len(s) /\ Len(s) \in Nat
  OBVIOUS
<1>2. ASSUME NEW x \in Records(s) PROVE x \in 1 .. m
  <2>1. PICK i \in 1 .. Len(s) : s[i] = x /\ x # 0
    BY <1>1 DEF Records
  <2>2. x = i - 1 /\ i \in 1 .. m + 1
    BY <2>1
  <2> QED
    BY <2>1, <2>2
<1>3. ASSUME NEW x \in 1 .. m PROVE x \in Records(s)
  <2>1. x + 1 \in 1 .. Len(s) /\ x + 1 - 1 = x
    <3>1. Len(s) = m + 1 /\ x + 1 \in 1 .. m + 1
      OBVIOUS
    <3>2. x + 1 - 1 = x
      OBVIOUS
    <3> QED
      BY <3>1, <3>2
  <2>2. s[x + 1] = x
    BY <2>1
  <2>3. x # 0 /\ x # -1
    OBVIOUS
  <2>4. x \in {s[i] : i \in DOMAIN s}
    BY <1>1, <2>1, <2>2
  <2> QED
    BY <2>3, <2>4 DEF Records
<1> QED
  BY <1>2, <1>3

\* When the bridge closes after a peer ended its stream, all of it was flushed to
\* the other, which the send buffer took.
LEMMA PushLast ==
  ASSUME TypeOK, Streams, Phases, pc = "push", BothDone, NEW e \in Ends,
         Ended(Other(e)), ~(e = "C" /\ Ended("C")),
         got'[e] \in Seq(Items), Len(out'[e]) = 0, Outgoing(e)', UNCHANGED hs,
         Forwarded(e)' = Forwarded(e)
  PROVE  Records(got'[e]) = 1 .. sent[Other(e)]
<1>1. /\ Other(e) \in Ends /\ Other(Other(e)) = e /\ hs[e] # "start"
      /\ inb[Other(e)] \in Seq(Items) /\ net[Other(e)] \in Seq(Items)
  BY Types DEF BothDone
<1>2. /\ flights[Other(e)] \in Nat /\ sent[Other(e)] \in Nat
      /\ AllFlights(Other(e)) \in Nat /\ flights[Other(e)] <= AllFlights(Other(e))
      /\ sent[Other(e)] > 0 => flights[Other(e)] = AllFlights(Other(e))
  BY <1>1, Types DEF Streams, Incoming
<1>3. DataLen(net[Other(e)]) = 0 /\ DataLen(inb[Other(e)]) = 0
  <2>1. Drained("C") /\ (Ended("C") \/ Drained("U"))
    BY DEF Phases
  <2>2. Drained(Other(e))
    BY <1>1, <2>1 DEF Other
  <2>3. net[Other(e)] = <<Eof>>
    BY <1>1 DEF Streams, Incoming, Feed, Ended
  <2>4. DataLen(<<>>) = 0
    BY DEF DataLen, EndsIn
  <2> QED
    BY <2>2, <2>3, <2>4, EndAlone DEF Drained
<1>4. Consumed(Other(e)) = flights[Other(e)] + sent[Other(e)]
  BY <1>2, <1>3 DEF Consumed, Total
<1>5. Consumed(Other(e)) = AllFlights(Other(e)) + Forwarded(e)
  BY <1>1 DEF Streams, Position, BothDone
<1>6. Forwarded(e) = sent[Other(e)]
  <2>1. Forwarded(e) \in Nat
    BY <1>1, ForwardedIs
  <2> QED
    BY <1>2, <1>4, <1>5, <2>1
<1>7. \A i \in 1 .. Len(got'[e]) : got'[e][i] = i - 1
  BY DEF Outgoing, Laid
<1>8. PICK g \in Nat : Len(got'[e]) = g
  OBVIOUS
<1>9. Forwarded(e)' = g + 0 - 1
  BY <1>1, <1>8 DEF Forwarded
<1>10. Len(got'[e]) = sent[Other(e)] + 1
  BY <1>2, <1>6, <1>8, <1>9
<1> QED
  BY <1>2, <1>7, <1>10, LaidRecords

\* A flush at the end of an iteration keeps the invariant.
LEMMA PushStep == ASSUME IInv, Push PROVE IInv'
<1>1. TypeOK /\ Streams /\ Phases
  BY DEF IInv
<1>2. /\ pc = "push" /\ progressed' = FALSE
      /\ UNCHANGED <<quiet, hs, inb, seen, net, flights, sent, reset>>
  BY DEF Push
<1>3. PICK c \in Accepted("C", Ends), u \in Accepted("U", Ends) :
        LET k == [e \in Ends |-> IF e = "C" THEN c ELSE u] IN
          /\ Flush(k)
          /\ dead' = [e \in Ends |-> dead[e] \/ Broken(e)]
          /\ pc' = IF \E e \in Ends : dead'[e] THEN "closed"
                   ELSE IF progressed \/ c > 0 \/ u > 0 THEN "drive"
                   ELSE "select"
  BY DEF Push
<1> DEFINE k == [e \in Ends |-> IF e = "C" THEN c ELSE u]
<1>4. /\ dead' \in [Ends -> BOOLEAN]
      /\ \A e \in Ends : dead[e] => dead'[e]
      /\ pc' \in {"closed", "drive", "select"}
      /\ pc' # "closed" => ~AnyDead'
      /\ pc' = "select" => ~progressed
  <2>1. \A e \in Ends : dead'[e] = (dead[e] \/ Broken(e))
    BY <1>3
  <2> QED
    BY <1>3, <2>1 DEF AnyDead
<1>5. Flush(k) /\ \A e \in Ends : k[e] \in Accepted(e, Ends)
  BY <1>3
<1> HIDE DEF k
<1>6. ASSUME NEW e \in Ends
      PROVE  /\ got'[e] \in Seq(Items) /\ out'[e] \in Seq(Items) /\ full'[e] \in BOOLEAN
             /\ Outgoing(e)' /\ Forwarded(e)' = Forwarded(e)
             /\ ~full'[e] /\ ~reset[e] => Len(out'[e]) = 0
  <2>1. /\ out[e] \in Seq(Items) /\ Len(out[e]) \in Nat /\ full[e] \in BOOLEAN
    BY <1>1, Types
  <2>2. k[e] \in 0 .. Len(out[e])
    BY <1>5, <2>1 DEF Accepted
  <2>3. /\ got'[e] \in Seq(Items) /\ out'[e] \in Seq(Items) /\ full'[e] \in BOOLEAN
        /\ Outgoing(e)' /\ Forwarded(e)' = Forwarded(e)
        /\ Len(out'[e]) = Len(out[e]) - k[e]
        /\ full'[e] <=> full[e] \/ (k[e] > 0 /\ k[e] < Len(out[e]))
    BY <1>1, <1>2, <1>5, <2>2, FlushEnd
  <2>4. ASSUME ~full'[e], ~reset[e] PROVE Len(out'[e]) = 0
    <3>1. out[e] = <<>> \/ k[e] \in 1 .. Len(out[e])
      BY <1>5, <2>1, <2>3, <2>4 DEF Accepted
    <3>2. CASE out[e] = <<>>
      BY <2>1, <2>2, <2>3, <3>2
    <3>3. CASE k[e] \in 1 .. Len(out[e])
      BY <2>1, <2>3, <2>4, <3>3
    <3> QED
      BY <3>1, <3>2, <3>3
  <2> QED
    BY <2>3, <2>4
<1>7. TypeOK'
  <2>1. /\ got' \in [Ends -> Seq(Items)] /\ out' \in [Ends -> Seq(Items)]
        /\ full' \in [Ends -> BOOLEAN]
    <3>1. /\ got' = [e \in Ends |-> got'[e]] /\ out' = [e \in Ends |-> out'[e]]
          /\ full' = [e \in Ends |-> full'[e]]
      BY <1>5 DEF Flush
    <3> QED
      BY <1>6, <3>1
  <2> QED
    BY <1>1, <1>2, <1>4, <2>1 DEF TypeOK
<1>8. Streams'
  <2>1. AnyDead => AnyDead'
    BY <1>4 DEF AnyDead
  <2>2. ASSUME NEW e \in Ends PROVE Incoming(e)' /\ Outgoing(e)' /\ Position(e)'
    <3>1. Incoming(e)' /\ Consumed(e)' = Consumed(e) /\ AllFlights(e)' = AllFlights(e)
      BY <1>1, <1>2 DEF Streams, Incoming, Consumed, Total, AllFlights
    <3>2. Other(e) \in Ends /\ Other(e)' = Other(e)
      BY <1>1, Types DEF Other
    <3>3. Forwarded(Other(e))' = Forwarded(Other(e)) /\ Taken(e)' = Taken(e)
      BY <1>2, <1>6, <3>1, <3>2 DEF Taken
    <3> QED
      BY <1>1, <1>2, <1>6, <2>1, <3>1, <3>2, <3>3 DEF Streams, Position
  <2> QED
    BY <1>1, <1>2, <1>6, <2>2 DEF Streams
<1>9. Phases'
  <2>1. LastWords'
    <3>1. SUFFICES ASSUME NEW e \in Ends, Ended(Other(e)), BothDone, ~full'[e],
                          \A f \in Ends : ~reset[f], ~(e = "C" /\ Ended("C"))
                   PROVE  Records(got'[e]) = 1 .. sent[Other(e)]
      BY <1>2 DEF LastWords, Ended, EndsIn, BothDone, Other
    <3> QED
      BY <1>1, <1>2, <1>6, <3>1, PushLast
  <2>2. CASE pc' = "closed" \/ pc' = "drive"
    BY <1>4, <2>1, <2>2 DEF Phases
  <2>3. CASE pc' = "select"
    <3>1. ~progressed /\ ~AnyDead' /\ ~AnyDead
      BY <1>4, <2>3 DEF AnyDead
    <3>2. \A e \in Ends : ~Takes(e)
      BY <1>1, <1>2, <3>1 DEF Phases
    <3>3. BothDone => /\ Drained("C") /\ (Ended("C") \/ Drained("U"))
                      /\ \A e \in Ends : Ended(e) => AnyDead
      BY <1>1, <1>2 DEF Phases
    <3> QED
      BY <1>2, <2>1, <2>3, <3>1, <3>2, <3>3
      DEF Phases, Takes, HeadIs, BothDone, Drained, Ended, EndsIn
  <2> QED
    BY <1>4, <2>2, <2>3
<1> QED
  BY <1>7, <1>8, <1>9 DEF IInv

\* What one recv can take: everything before an end of the stream, which stays.
LEMMA WithoutEnd ==
  ASSUME NEW s \in Seq(Items),
         NEW c, c = IF EndsIn(s, Eof) THEN Front(s) ELSE s
  PROVE  /\ c \in Seq(Items) /\ Len(c) = DataLen(s)
         /\ \A i \in 1 .. Len(c) : c[i] = s[i]
         /\ SubSeq(s, Len(c) + 1, Len(s)) \in Seq(Items)
         /\ SubSeq(s, Len(c) + 1, Len(s)) \in {<<>>, <<Eof>>}
<1>1. Len(s) \in Nat
  OBVIOUS
<1>2. CASE EndsIn(s, Eof)
  <2>1. Len(s) >= 1 /\ s[Len(s)] = Eof /\ DataLen(s) = Len(s) - 1
    BY <1>2, EndFacts
  <2>2. PICK k \in 0 .. Len(s) : k = Len(s) - 1
    BY <1>1, <2>1
  <2>3. c = SubSeq(s, 1, k)
    BY <1>2, <2>2 DEF Front
  <2>4. /\ SubSeq(s, 1, k) \in Seq(Items) /\ Len(SubSeq(s, 1, k)) = k
        /\ \A i \in 1 .. k : SubSeq(s, 1, k)[i] = s[i]
        /\ SubSeq(s, k + 1, Len(s)) \in Seq(Items)
        /\ Len(SubSeq(s, k + 1, Len(s))) = Len(s) - k
        /\ \A i \in 1 .. Len(s) - k : SubSeq(s, k + 1, Len(s))[i] = s[k + i]
    BY CutAt
  <2>5. SubSeq(s, k + 1, Len(s)) = <<Eof>>
    <3>1. PICK r \in Seq(Items) : SubSeq(s, k + 1, Len(s)) = r
      BY <2>4
    <3>2. Len(s) - k = 1 /\ 1 \in 1 .. Len(s) - k /\ k + 1 = Len(s)
      BY <1>1, <2>2
    <3>3. Len(r) = 1 /\ r[1] = Eof
      BY <2>1, <2>4, <3>1, <3>2
    <3>4. r = <<Eof>>
      BY <3>3
    <3> QED
      BY <3>1, <3>4
  <2> QED
    BY <2>1, <2>2, <2>3, <2>4, <2>5
<1>3. CASE ~EndsIn(s, Eof)
  <2>1. c = s /\ DataLen(s) = Len(s)
    BY <1>3, EndFacts
  <2>2. SubSeq(s, Len(s) + 1, Len(s)) = <<>> /\ <<>> \in Seq(Items)
    BY <1>1
  <2>3. SubSeq(s, Len(c) + 1, Len(s)) = <<>>
    BY <2>1, <2>2
  <2>4. c \in Seq(Items) /\ Len(c) = DataLen(s) /\ \A i \in 1 .. Len(c) : c[i] = s[i]
    BY <2>1
  <2> QED
    BY <2>2, <2>3, <2>4
<1> QED
  BY <1>2, <1>3

\* The end of the stream is seen.
LEMMA FeedSeen ==
  ASSUME NEW a \in Nat, NEW k \in Nat, NEW b \in Seq(Items),
         Feed(a, k, b, <<Eof>>), ~EndsIn(b, Eof)
  PROVE  /\ b \o <<Eof>> \in Seq(Items) /\ Feed(a, k, b \o <<Eof>>, <<Eof>>)
         /\ DataLen(b \o <<Eof>>) = DataLen(b)
<1>1. <<Eof>> \in Seq(Items) /\ Len(<<Eof>>) = 1 /\ <<Eof>>[1] = Eof
  BY EndAlone
<1>2. /\ b \o <<Eof>> \in Seq(Items) /\ Len(b \o <<Eof>>) = Len(b) + Len(<<Eof>>)
      /\ \A i \in 1 .. Len(b) : (b \o <<Eof>>)[i] = b[i]
      /\ \A i \in 1 .. Len(<<Eof>>) : (b \o <<Eof>>)[Len(b) + i] = <<Eof>>[i]
  BY ONLY <1>1, b \in Seq(Items), Joined
<1> SUFFICES ASSUME NEW t \in Seq(Items), Len(t) = Len(b) + 1, t[Len(b) + 1] = Eof,
                    \A i \in 1 .. Len(b) : t[i] = b[i]
             PROVE  Feed(a, k, t, <<Eof>>) /\ DataLen(t) = DataLen(b)
  <2>1. /\ Len(b \o <<Eof>>) = Len(b) + 1
        /\ (b \o <<Eof>>)[Len(b) + 1] = Eof
    BY <1>1, <1>2
  <2> QED
    BY <1>2, <2>1, Zenon
<1>3. DataLen(b) = Len(b) /\ Len(b) \in Nat
  BY EndFacts
<1>4. EndsIn(t, Eof) /\ DataLen(t) = DataLen(b)
  <2>1. Len(t) >= 1 /\ t[Len(t)] = Eof
    BY <1>3
  <2>2. EndsIn(t, Eof)
    BY <2>1, EndSeen
  <2>3. DataLen(t) = Len(t) - 1
    BY <2>2, EndFacts
  <2> QED
    BY <1>3, <2>2, <2>3
<1>5. Feed(a, k, t, <<Eof>>)
  BY <1>3, <1>4 DEF Feed
<1> QED
  BY <1>4, <1>5

\* What one recv does to an end's stream.
LEMMA WakeEnd ==
  ASSUME TypeOK, Streams, NEW e \in Ends, UNCHANGED <<flights, sent>>,
         \/ inb'[e] = inb[e] /\ net'[e] = net[e]
         \/ /\ inb'[e] = inb[e] \o Received(e)
            /\ net'[e] = SubSeq(net[e], Len(Coming(e)) + 1, Len(net[e]))
  PROVE  /\ inb'[e] \in Seq(Items) /\ net'[e] \in Seq(Items)
         /\ Incoming(e)' /\ Consumed(e)' = Consumed(e)
<1>1. /\ inb[e] \in Seq(Items) /\ net[e] \in Seq(Items) /\ AllFlights(e) \in Nat
      /\ Total(e) \in Nat /\ DataLen(inb[e]) \in Nat /\ DataLen(net[e]) \in Nat
  BY Types, Numbers
<1>2. /\ Feed(AllFlights(e), Total(e), inb[e], net[e])
      /\ flights[e] <= AllFlights(e) /\ (sent[e] > 0 => flights[e] = AllFlights(e))
  BY DEF Streams, Incoming
<1>3. Total(e)' = Total(e) /\ AllFlights(e)' = AllFlights(e)
  BY DEF Total, AllFlights
<1>4. CASE inb'[e] = inb[e] /\ net'[e] = net[e]
  BY <1>1, <1>2, <1>3, <1>4 DEF Incoming, Consumed
<1>5. CASE /\ inb'[e] = inb[e] \o Received(e)
           /\ net'[e] = SubSeq(net[e], Len(Coming(e)) + 1, Len(net[e]))
  <2>1. /\ Coming(e) \in Seq(Items) /\ Len(Coming(e)) = DataLen(net[e])
        /\ \A i \in 1 .. Len(Coming(e)) : Coming(e)[i] = net[e][i]
        /\ net'[e] \in Seq(Items) /\ net'[e] \in {<<>>, <<Eof>>}
    <3>1. PICK s \in Seq(Items), c \in {Coming(e)} : net[e] = s /\ Coming(e) = c
      BY <1>1
    <3>2. c = IF EndsIn(s, Eof) THEN Front(s) ELSE s
      BY <3>1 DEF Coming
    <3>3. /\ c \in Seq(Items) /\ Len(c) = DataLen(s)
          /\ \A i \in 1 .. Len(c) : c[i] = s[i]
          /\ SubSeq(s, Len(c) + 1, Len(s)) \in Seq(Items)
          /\ SubSeq(s, Len(c) + 1, Len(s)) \in {<<>>, <<Eof>>}
      BY ONLY <3>2, s \in Seq(Items), WithoutEnd
    <3> QED
      BY <1>5, <3>1, <3>3
  <2>2. CASE net[e] # <<Eof>>
    <3>1. ~EndsIn(inb[e], Eof) /\ Received(e) = Coming(e)
      BY <1>2, <2>2 DEF Feed, Received
    <3>2. /\ Feed(AllFlights(e), Total(e), inb[e] \o Coming(e), net'[e])
          /\ DataLen(inb[e] \o Coming(e)) = DataLen(inb[e]) + DataLen(net[e])
          /\ DataLen(net'[e]) = 0
      <4>1. PICK c \in Seq(Items), r \in Seq(Items) : Coming(e) = c /\ net'[e] = r
        BY <2>1
      <4>2. /\ Len(c) = DataLen(net[e]) /\ \A i \in 1 .. Len(c) : c[i] = net[e][i]
            /\ r = <<>> \/ r = <<Eof>>
        BY <2>1, <4>1
      <4>3. PICK b \in Seq(Items), n \in Seq(Items) : inb[e] = b /\ net[e] = n
        BY <1>1
      <4>4. PICK a \in Nat, t \in Nat : AllFlights(e) = a /\ Total(e) = t
        BY <1>1
      <4>5. /\ Feed(a, t, b, n) /\ ~EndsIn(b, Eof) /\ Len(c) = DataLen(n)
            /\ \A i \in 1 .. Len(c) : c[i] = n[i]
        BY <1>2, <3>1, <4>2, <4>3, <4>4
      <4>6. /\ Feed(a, t, b \o c, r) /\ DataLen(b \o c) = DataLen(b) + DataLen(n)
            /\ DataLen(r) = 0
        BY ONLY <4>2, <4>5, FeedJoin, SMTT(30)
      <4> QED
        BY <4>1, <4>3, <4>4, <4>6
    <3>3. inb[e] \o Coming(e) \in Seq(Items)
      BY ONLY <1>1, <2>1, Joined
    <3>4. inb'[e] = inb[e] \o Coming(e)
      BY <1>5, <3>1
    <3>5. Consumed(e)' = Consumed(e)
      BY <1>1, <1>3, <3>2, <3>4 DEF Consumed
    <3> QED
      BY <1>2, <1>3, <2>1, <3>2, <3>3, <3>4, <3>5 DEF Incoming
  <2>3. CASE net[e] = <<Eof>>
    <3>1. DataLen(net[e]) = 0 /\ net'[e] = net[e]
      <4>1. DataLen(net[e]) = 0
        BY <2>3, EndAlone
      <4>2. net'[e] = SubSeq(<<Eof>>, 0 + 1, Len(<<Eof>>))
        BY <1>5, <2>1, <2>3, <4>1
      <4>3. SubSeq(<<Eof>>, 0 + 1, Len(<<Eof>>)) = <<Eof>>
        <5>1. \A s \in Seq(Items) : SubSeq(s, 0 + 1, Len(s)) = s
          OBVIOUS
        <5> QED
          BY <5>1, EndAlone
      <4> QED
        BY <2>3, <4>1, <4>2, <4>3
    <3>2. CASE Ended(e)
      <4>1. inb[e] \o <<>> = inb[e]
        BY <1>1
      <4>2. inb'[e] = inb[e]
        BY <1>5, <2>3, <3>2, <4>1 DEF Received
      <4> QED
        BY <1>1, <1>2, <1>3, <3>1, <4>2 DEF Incoming, Consumed
    <3>3. CASE ~Ended(e)
      <4>1. inb'[e] = inb[e] \o <<Eof>>
        BY <1>5, <2>3, <3>3 DEF Received
      <4>2. /\ inb[e] \o <<Eof>> \in Seq(Items)
            /\ Feed(AllFlights(e), Total(e), inb[e] \o <<Eof>>, <<Eof>>)
            /\ DataLen(inb[e] \o <<Eof>>) = DataLen(inb[e])
        BY <1>1, <1>2, <2>3, <3>3, FeedSeen DEF Ended
      <4> QED
        BY <1>1, <1>2, <1>3, <2>3, <3>1, <4>1, <4>2 DEF Incoming, Consumed
    <3> QED
      BY <3>2, <3>3
  <2> QED
    BY <2>2, <2>3
<1> QED
  BY <1>4, <1>5

\* What the selector reports keeps the invariant.
LEMMA WakeStep == ASSUME IInv, Wake PROVE IInv'
<1>1. TypeOK /\ Streams /\ Phases
  BY DEF IInv
<1>2. /\ pc = "select" /\ pc' = "drive" /\ ~AnyDead
      /\ UNCHANGED <<progressed, quiet, hs, seen, flights, sent, reset>>
  BY <1>1 DEF Wake, Phases
<1>3. PICK W \in SUBSET Ends : \E c \in Accepted("C", W), u \in Accepted("U", W) :
        Flush([e \in Ends |-> IF e = "C" THEN c ELSE u])
  <2>1. {e \in Ends : Writable(e)} \in SUBSET Ends
    OBVIOUS
  <2> QED
    BY <2>1 DEF Wake
<1>4. PICK c \in Accepted("C", W), u \in Accepted("U", W) :
        Flush([e \in Ends |-> IF e = "C" THEN c ELSE u])
  BY <1>3
<1> DEFINE k == [e \in Ends |-> IF e = "C" THEN c ELSE u]
<1>5. Flush(k) /\ \A e \in Ends : k[e] \in Accepted(e, W)
  BY <1>4
<1> HIDE DEF k
<1>6. ASSUME NEW e \in Ends
      PROVE  /\ got'[e] \in Seq(Items) /\ out'[e] \in Seq(Items) /\ full'[e] \in BOOLEAN
             /\ Outgoing(e)' /\ Forwarded(e)' = Forwarded(e)
             /\ inb'[e] \in Seq(Items) /\ net'[e] \in Seq(Items)
             /\ Incoming(e)' /\ Consumed(e)' = Consumed(e)
  <2>1. out[e] \in Seq(Items) /\ Len(out[e]) \in Nat
    BY <1>1, Types
  <2>2. k[e] \in 0 .. Len(out[e])
    BY <1>5, <2>1 DEF Accepted
  <2>3. \/ inb'[e] = inb[e] /\ net'[e] = net[e]
        \/ /\ inb'[e] = inb[e] \o Received(e)
           /\ net'[e] = SubSeq(net[e], Len(Coming(e)) + 1, Len(net[e]))
    BY DEF Wake
  <2> QED
    BY <1>1, <1>2, <1>5, <2>2, <2>3, FlushEnd, WakeEnd
<1>7. dead' = [e \in Ends |-> dead[e] \/ reset[e]]
  BY DEF Wake
<1>8. TypeOK'
  <2>1. /\ got' \in [Ends -> Seq(Items)] /\ out' \in [Ends -> Seq(Items)]
        /\ inb' \in [Ends -> Seq(Items)] /\ net' \in [Ends -> Seq(Items)]
        /\ full' \in [Ends -> BOOLEAN]
    <3>1. /\ got' = [e \in Ends |-> got'[e]] /\ out' = [e \in Ends |-> out'[e]]
          /\ full' = [e \in Ends |-> full'[e]]
      BY <1>5 DEF Flush
    <3>2. inb' = [e \in Ends |-> inb'[e]] /\ net' = [e \in Ends |-> net'[e]]
      BY DEF Wake
    <3> QED
      BY <1>6, <3>1, <3>2
  <2>2. dead' \in [Ends -> BOOLEAN]
    BY <1>7
  <2> QED
    BY <1>1, <1>2, <2>1, <2>2 DEF TypeOK
<1>9. Streams'
  <2>1. AnyDead => AnyDead'
    BY <1>7 DEF AnyDead
  <2>2. ASSUME NEW e \in Ends PROVE Position(e)'
    <3>1. Other(e) \in Ends /\ Other(e)' = Other(e) /\ AllFlights(e)' = AllFlights(e)
      BY <1>1, Types DEF Other, AllFlights
    <3>2. /\ Forwarded(Other(e))' = Forwarded(Other(e)) /\ Taken(e)' = Taken(e)
          /\ Consumed(e)' = Consumed(e)
      BY <1>2, <1>6, <3>1 DEF Taken
    <3> QED
      BY <1>1, <1>2, <2>1, <3>1, <3>2 DEF Streams, Position
  <2> QED
    BY <1>1, <1>2, <1>6, <2>2 DEF Streams
<1>10. Phases'
  BY <1>2, <1>7 DEF Phases, AnyDead, LastWords
<1> QED
  BY <1>8, <1>9, <1>10 DEF IInv

-----------------------------------------------------------------------------
(* The invariant of the specification. *)

LEMMA StepHolds == ASSUME IInv, [Next]_vars PROVE IInv'
<1>1. CASE Stop \/ Timeout
  BY <1>1, StopStep
<1>2. CASE Drive
  BY <1>2, DriveStep
<1>3. CASE Pump
  BY <1>3, PumpStep
<1>4. CASE Push
  BY <1>4, PushStep
<1>5. CASE Wake
  BY <1>5, WakeStep
<1>6. ASSUME NEW e \in Ends, Peer(e) PROVE IInv'
  BY <1>6, PeerStep
<1>7. CASE UNCHANGED vars
  <2>1. UNCHANGED <<pc, progressed, quiet, hs, dead, inb, out, seen, net, flights,
                    sent, got, full, reset>>
    BY <1>7 DEF vars, loopVars, endVars, peerVars
  <2>2. TypeOK'
    BY <2>1 DEF IInv, TypeOK
  <2>3. Streams'
    BY <2>1
    DEF IInv, Streams, Incoming, Outgoing, Position, Total, Consumed, Taken, Forwarded,
        AnyDead, AllFlights, Other
  <2>4. Phases'
    BY <2>1
    DEF IInv, Phases, BothDone, AnyDead, Takes, HeadIs, LastWords, Drained, Ended,
        EndsIn, Other
  <2> QED
    BY <2>2, <2>3, <2>4 DEF IInv
<1> QED
  BY <1>1, <1>2, <1>3, <1>4, <1>5, <1>6, <1>7 DEF Next, Loop

\* The invariant holds throughout.
THEOREM Invariance == Spec => []IInv
<1>1. Init => IInv
  BY InitHolds
<1>2. IInv /\ [Next]_vars => IInv'
  BY StepHolds
<1> QED
  BY <1>1, <1>2, PTL DEF Spec

\* The bridge keeps values of its types: the handshakes, the flags and the streams
\* of wm_bridge.End and the loop's locals.
THEOREM TypeCorrect == Spec => []TypeOK
<1>1. IInv => TypeOK
  BY DEF IInv
<1> QED
  BY <1>1, Invariance, PTL

\* When a peer of run_bridge ends its stream, all of it was flushed to the other one
\* before the bridge closes.
THEOREM LastWordsHold == Spec => []LastWords
<1>1. IInv => LastWords
  BY DEF IInv, Phases
<1> QED
  BY <1>1, Invariance, PTL

-----------------------------------------------------------------------------
(* Nothing is altered. *)

\* p is a flight and f records, or nothing; q is the d things from the c-th on of a
\* peer that sends a flights and then s records, which is all, and perhaps the end;
\* and unless its flights are not yet taken, f of its records come before those.
Path(p, q, f, a, c, d, s) ==
  /\ Len(p) = f + 1 \/ (Len(p) = 0 /\ f = 0)
  /\ \A i \in 1 .. Len(p) : p[i] = i - 1
  /\ d <= Len(q)
  /\ \A i \in 1 .. d : q[i] = Item(a, c + i)
  /\ \A i \in d + 1 .. Len(q) : q[i] = Eof
  /\ c = a + f \/ (f = 0 /\ c <= a)
  /\ c + d = a + s \/ (s = 0 /\ c + d <= a)

LEMMA PathIs ==
  ASSUME NEW p \in Seq(Items), NEW q \in Seq(Items), NEW f \in Nat, NEW a \in Nat,
         NEW c \in Nat, NEW d \in Nat, NEW s \in Nat, Path(p, q, f, a, c, d, s)
  PROVE  InOrder(p \o q) /\ Records(p \o q) = 1 .. s
<1>1. /\ p \o q \in Seq(Items) /\ Len(p \o q) = Len(p) + Len(q)
      /\ \A i \in 1 .. Len(p) : (p \o q)[i] = p[i]
      /\ \A i \in 1 .. Len(q) : (p \o q)[Len(p) + i] = q[i]
  BY ONLY p \in Seq(Items), q \in Seq(Items), Joined
<1>2. PICK l \in Nat, h \in Nat : Len(p) = l /\ Len(q) = h
  BY ONLY p \in Seq(Items), q \in Seq(Items)
<1>3. /\ l = f + 1 \/ (l = 0 /\ f = 0)
      /\ \A i \in 1 .. l : p[i] = i - 1
      /\ d <= h
      /\ \A i \in 1 .. d : q[i] = Item(a, c + i)
      /\ \A i \in d + 1 .. h : q[i] = Eof
      /\ c = a + f \/ (f = 0 /\ c <= a)
      /\ c + d = a + s \/ (s = 0 /\ c + d <= a)
  BY <1>2 DEF Path
<1> SUFFICES ASSUME NEW w \in Seq(Items), p \o q = w
             PROVE  InOrder(w) /\ Records(w) = 1 .. s
  BY <1>1
<1>4. /\ w \in Seq(Items) /\ Len(w) = l + h
      /\ \A i \in 1 .. l : w[i] = p[i]
      /\ \A i \in 1 .. h : w[l + i] = q[i]
  BY <1>1, <1>2
<1>5. DOMAIN w = 1 .. l + h
  BY ONLY <1>4
<1>6. ASSUME NEW i \in 1 .. l + h, w[i] # Flight, w[i] # Eof
      PROVE  \/ i <= l /\ w[i] = i - 1 /\ w[i] \in 1 .. f
             \/ i > l /\ w[i] = c + (i - l) - a /\ i - l <= d /\ w[i] > f
  <2>1. CASE i \in 1 .. l
    BY <1>4, <1>6, <1>3, <2>1
  <2>2. CASE i - l \in 1 .. h
    <3>1. w[i] = q[i - l]
      <4>1. i = l + (i - l)
        OBVIOUS
      <4> QED
        BY <1>4, <2>2, <4>1
    <3>2. i - l \in 1 .. d
      BY <1>6, <1>3, <2>2, <3>1
    <3>3. w[i] = Item(a, c + (i - l))
      BY <1>3, <3>1, <3>2
    <3>4. w[i] = c + (i - l) - a /\ c + (i - l) > a
      BY <1>6, <3>2, <3>3 DEF Item
    <3> QED
      BY <1>3, <2>2, <3>2, <3>4
  <2> QED
    BY <2>1, <2>2
<1>7. InOrder(w)
  <2>1. SUFFICES ASSUME NEW i \in 1 .. l + h, NEW j \in 1 .. l + h, i < j,
                        w[i] > 0, w[j] > 0
                 PROVE  w[i] < w[j]
    BY <1>5 DEF InOrder
  <2>2. w[i] \in Int /\ w[j] \in Int
    <3>1. \A k \in 1 .. l + h : w[k] \in Items
      BY <1>4, <1>5
    <3>2. \A z \in Items : z \in Int
      BY DEF Items
    <3> QED
      BY <3>1, <3>2
  <2>3. w[i] # Flight /\ w[i] # Eof /\ w[j] # Flight /\ w[j] # Eof
    BY <2>1, <2>2
  <2>4. /\ \/ i <= l /\ w[i] = i - 1 /\ w[i] \in 1 .. f
           \/ i > l /\ w[i] = c + (i - l) - a /\ w[i] > f
        /\ \/ j <= l /\ w[j] = j - 1 /\ w[j] \in 1 .. f
           \/ j > l /\ w[j] = c + (j - l) - a /\ w[j] > f
    BY <1>6, <2>3
  <2>5. CASE i <= l /\ w[i] = i - 1 /\ j <= l /\ w[j] = j - 1
    BY <2>1, <2>5
  <2>6. CASE w[i] \in 1 .. f /\ w[j] > f
    BY <2>2, <2>6
  <2>7. CASE w[i] = c + (i - l) - a /\ w[j] = c + (j - l) - a
    BY <2>1, <2>7
  <2> QED
    BY <2>1, <2>4, <2>5, <2>6, <2>7
<1>8. ASSUME NEW x \in Records(w) PROVE x \in 1 .. s
  <2>1. PICK i \in 1 .. l + h : w[i] = x /\ x # Flight /\ x # Eof
    BY <1>5 DEF Records
  <2>2. \/ x \in 1 .. f
        \/ i > l /\ x = c + (i - l) - a /\ i - l <= d /\ x > f
    BY <1>6, <2>1
  <2>3. CASE x \in 1 .. f
    BY <1>3, <2>3
  <2>4. CASE i > l /\ x = c + (i - l) - a /\ i - l <= d /\ x > f
    BY <1>3, <2>4
  <2> QED
    BY <2>2, <2>3, <2>4
<1>9. ASSUME NEW x \in 1 .. s PROVE x \in Records(w)
  <2>1. x # Flight /\ x # Eof
    OBVIOUS
  <2>2. \E i \in 1 .. l + h : w[i] = x
    <3>1. CASE x <= f
      <4>1. x + 1 \in 1 .. l /\ x + 1 - 1 = x
        BY <1>3, <3>1
      <4>2. w[x + 1] = x /\ x + 1 \in 1 .. l + h
        BY <1>4, <1>3, <4>1
      <4> QED
        BY <4>2
    <3>2. CASE x > f
      <4>1. PICK i \in 1 .. d : i = x + a - c
        BY <1>3, <3>2
      <4>2. c + i = a + x /\ x \in Nat /\ x > 0 /\ i \in 1 .. h
        BY <1>3, <4>1
      <4>3. q[i] = Item(a, a + x)
        BY <1>3, <4>2
      <4>4. Item(a, a + x) = x
        BY <4>2, RecordIs
      <4>5. w[l + i] = q[i] /\ l + i \in 1 .. l + h
        BY <1>4, <4>2
      <4> QED
        BY <4>3, <4>4, <4>5
    <3> QED
      BY <3>1, <3>2
  <2> QED
    BY <1>5, <2>1, <2>2 DEF Records
<1> QED
  BY <1>7, <1>8, <1>9

\* What was forwarded to an end, sent on or not.
LEMMA ForwardedPath ==
  ASSUME TypeOK, Streams, NEW e \in Ends
  PROVE  /\ got[e] \o out[e] \in Seq(Items)
         /\ \A i \in 1 .. Len(got[e] \o out[e]) : (got[e] \o out[e])[i] = i - 1
         /\ Forwarded(e) \in Nat
         /\ \/ Len(got[e] \o out[e]) = Forwarded(e) + 1
            \/ Len(got[e] \o out[e]) = 0 /\ Forwarded(e) = 0
<1>1. PICK g \in Seq(Items), o \in Seq(Items) : got[e] = g /\ out[e] = o
  BY Types
<1>2. Laid(g, o) /\ (hs[e] = "start" <=> Len(g) = 0 /\ Len(o) = 0)
  BY <1>1 DEF Streams, Outgoing
<1>3. g \o <<>> = g /\ <<>> \in Seq(Items) /\ Len(<<>>) = 0
  OBVIOUS
<1>4. /\ g \o o \in Seq(Items) /\ Len(g \o o) = Len(g) + Len(o)
      /\ \A i \in 1 .. Len(g) : (g \o o)[i] = g[i]
      /\ \A i \in 1 .. Len(o) : (g \o o)[Len(g) + i] = o[i]
      /\ Len(g) \in Nat /\ Len(o) \in Nat
  BY Joined
<1>5. ASSUME NEW i \in 1 .. Len(g) + Len(o) PROVE (g \o o)[i] = i - 1
  <2>1. CASE i \in 1 .. Len(g)
    BY <1>2, <1>4, <2>1 DEF Laid
  <2>2. CASE i - Len(g) \in 1 .. Len(o)
    <3>1. i = Len(g) + (i - Len(g))
      BY <1>4
    <3>2. (g \o o)[i] = o[i - Len(g)]
      BY <1>4, <2>2, <3>1
    <3>3. o[i - Len(g)] = Len(g) + (i - Len(g)) - 1
      BY <1>2, <2>2 DEF Laid
    <3> QED
      BY <1>4, <3>1, <3>2, <3>3
  <2> QED
    BY <1>4, <2>1, <2>2
<1>6. Forwarded(e) = IF hs[e] = "start" THEN 0 ELSE Len(g) + Len(o) - 1
  BY <1>1 DEF Forwarded
<1>7. /\ Forwarded(e) \in Nat
      /\ \/ Len(g) + Len(o) = Forwarded(e) + 1
         \/ Len(g) + Len(o) = 0 /\ Forwarded(e) = 0
  BY <1>2, <1>4, <1>6
<1> QED
  BY <1>1, <1>4, <1>5, <1>7

\* What is still to be read of an end's peer.
LEMMA ComingPath ==
  ASSUME TypeOK, Streams, NEW e \in Ends
  PROVE  LET d == DataLen(inb[e]) + DataLen(net[e])
         IN  /\ inb[e] \o net[e] \in Seq(Items)
             /\ d \in Nat /\ d <= Len(inb[e] \o net[e])
             /\ Consumed(e) \in Nat /\ Consumed(e) + d = Total(e)
             /\ \A i \in 1 .. d :
                  (inb[e] \o net[e])[i] = Item(AllFlights(e), Consumed(e) + i)
             /\ \A i \in d + 1 .. Len(inb[e] \o net[e]) : (inb[e] \o net[e])[i] = Eof
<1>1. PICK b \in Seq(Items), n \in Seq(Items) : inb[e] = b /\ net[e] = n
  BY Types
<1>2. PICK a \in Nat, t \in Nat : AllFlights(e) = a /\ Total(e) = t
  BY Types, Numbers
<1>3. Feed(a, t, b, n)
  BY <1>1, <1>2 DEF Streams, Incoming
<1>4. /\ Len(b) \in Nat /\ DataLen(b) \in Nat /\ DataLen(b) <= Len(b)
      /\ Len(n) \in Nat /\ DataLen(n) \in Nat /\ DataLen(n) <= Len(n)
  BY EndFacts
<1>5. PICK c \in Nat : c = t - DataLen(n) - DataLen(b) /\ Consumed(e) = c
  <2>1. Consumed(e) = t - DataLen(n) - DataLen(b)
    BY <1>1, <1>2 DEF Consumed
  <2>2. t - DataLen(n) - DataLen(b) \in Nat
    BY <1>3, <1>4 DEF Feed
  <2> QED
    BY <2>1, <2>2
<1>6. /\ b \o n \in Seq(Items) /\ Len(b \o n) = Len(b) + Len(n)
      /\ \A i \in 1 .. Len(b) : (b \o n)[i] = b[i]
      /\ \A i \in 1 .. Len(n) : (b \o n)[Len(b) + i] = n[i]
  BY Joined
<1>7. ASSUME NEW i \in 1 .. DataLen(b) + DataLen(n)
      PROVE  (b \o n)[i] = Item(a, c + i)
  <2>1. CASE i \in 1 .. DataLen(b)
    <3>1. (b \o n)[i] = b[i] /\ b[i] = Item(a, t - DataLen(n) - DataLen(b) + i)
      BY <1>3, <1>4, <1>6, <2>1 DEF Feed
    <3> QED
      BY <1>5, <3>1
  <2>2. CASE i - DataLen(b) \in 1 .. DataLen(n)
    <3>1. ~EndsIn(b, Eof)
      BY <1>3, <2>2, EndAlone DEF Feed
    <3>2. DataLen(b) = Len(b)
      BY <3>1, EndFacts
    <3>3. i = Len(b) + (i - Len(b)) /\ i - Len(b) \in 1 .. Len(n)
      BY <1>4, <2>2, <3>2
    <3>4. (b \o n)[i] = n[i - Len(b)]
      BY <1>6, <3>3
    <3>5. n[i - Len(b)] = Item(a, t - DataLen(n) + (i - Len(b)))
      BY <1>3, <2>2, <3>2 DEF Feed
    <3>6. t - DataLen(n) + (i - Len(b)) = c + i
      BY <1>4, <1>5, <3>2
    <3> QED
      BY <3>4, <3>5, <3>6
  <2> QED
    BY <1>4, <2>1, <2>2
<1>8. ASSUME NEW i \in DataLen(b) + DataLen(n) + 1 .. Len(b) + Len(n)
      PROVE  (b \o n)[i] = Eof
  <2>1. CASE EndsIn(b, Eof)
    <3>1. n = <<Eof>> /\ b[Len(b)] = Eof /\ DataLen(b) = Len(b) - 1
      BY <1>3, <2>1, EndFacts DEF Feed
    <3>2. Len(n) = 1 /\ n[1] = Eof /\ DataLen(n) = 0
      BY <3>1, EndAlone
    <3>3. i = Len(b) \/ i = Len(b) + 1
      BY <1>4, <3>1, <3>2
    <3>4. Len(b) >= 1 => Len(b) \in 1 .. Len(b)
      BY <1>4
    <3> QED
      BY <1>4, <1>6, <3>1, <3>2, <3>3, <3>4
  <2>2. CASE ~EndsIn(b, Eof)
    <3>1. DataLen(b) = Len(b)
      BY <2>2, EndFacts
    <3>2. EndsIn(n, Eof)
      <4>1. DataLen(n) # Len(n)
        BY <1>4, <3>1
      <4> QED
        BY <4>1, EndFacts
    <3>3. n[Len(n)] = Eof /\ DataLen(n) = Len(n) - 1
      BY <3>2, EndFacts
    <3>4. i = Len(b) + Len(n) /\ Len(n) \in 1 .. Len(n)
      BY <1>4, <3>1, <3>3
    <3> QED
      BY <1>6, <3>3, <3>4
  <2> QED
    BY <2>1, <2>2
<1>9. DataLen(b) + DataLen(n) \in Nat /\ DataLen(b) + DataLen(n) <= Len(b) + Len(n)
      /\ c + (DataLen(b) + DataLen(n)) = t
  BY <1>4, <1>5
<1> QED
  BY <1>1, <1>2, <1>5, <1>6, <1>7, <1>8, <1>9

\* run_bridge forwards every record once, in its order and unaltered, and drops none:
\* read_plain, write_plain, flush_out and feed_socket together.
THEOREM NothingLostHolds == Spec => []NothingLost
<1>1. ASSUME IInv, NEW e \in Ends
      PROVE  LET path == (got[Other(e)] \o out[Other(e)]) \o (inb[e] \o net[e])
             IN  InOrder(path) /\ Records(path) = 1 .. sent[e]
  <2>1. TypeOK /\ Streams /\ Other(e) \in Ends
    BY <1>1, Types DEF IInv
  <2>2. PICK p \in Seq(Items), q \in Seq(Items) :
          got[Other(e)] \o out[Other(e)] = p /\ inb[e] \o net[e] = q
    BY <2>1, ForwardedPath, ComingPath
  <2>3. PICK f \in Nat : Forwarded(Other(e)) = f
    BY <2>1, ForwardedPath
  <2>4. PICK c \in Nat, d \in Nat :
          Consumed(e) = c /\ DataLen(inb[e]) + DataLen(net[e]) = d
    BY <2>1, ComingPath
  <2>5. PICK a \in Nat, s \in Nat, t \in Nat :
          AllFlights(e) = a /\ sent[e] = s /\ flights[e] = t
    BY <2>1, Types
  <2>6. PICK l \in Nat, h \in Nat : Len(p) = l /\ Len(q) = h
    BY ONLY p \in Seq(Items), q \in Seq(Items)
  <2>7. /\ \A i \in 1 .. l : p[i] = i - 1
        /\ l = f + 1 \/ (l = 0 /\ f = 0)
    BY <2>1, <2>2, <2>3, <2>6, ForwardedPath
  <2>8. /\ d <= h /\ c + d = t + s
        /\ \A i \in 1 .. d : q[i] = Item(a, c + i)
        /\ \A i \in d + 1 .. h : q[i] = Eof
    BY <2>1, <2>2, <2>4, <2>5, <2>6, ComingPath DEF Total
  <2>9. t <= a /\ (s > 0 => t = a)
    BY <2>1, <2>5 DEF Streams, Incoming
  <2>10. c = a + f \/ (f = 0 /\ c <= a)
    BY <2>1, <2>3, <2>4, <2>5 DEF Streams, Position
  <2>11. c + d = a + s \/ (s = 0 /\ c + d <= a)
    BY <2>8, <2>9
  <2>12. Path(p, q, f, a, c, d, s)
    BY <2>6, <2>7, <2>8, <2>10, <2>11 DEF Path
  <2>13. InOrder(p \o q) /\ Records(p \o q) = 1 .. s
    BY <2>12, PathIs
  <2> QED
    BY <2>2, <2>5, <2>13
<1>2. IInv => NothingLost
  BY <1>1 DEF NothingLost
<1> QED
  BY <1>2, Invariance, PTL

\* on_client_data is called with every record that write_plain is given for LG's edge,
\* and with nothing else.
THEOREM ObserverCompleteHolds == Spec => []ObserverComplete
<1>1. ASSUME IInv PROVE ObserverComplete
  <2>1. TypeOK /\ Streams
    BY <1>1 DEF IInv
  <2>2. /\ seen \in Seq(1 .. MaxSent) /\ Len(seen) = Forwarded("U")
        /\ \A i \in 1 .. Len(seen) : seen[i] = i
    BY <2>1 DEF TypeOK, Streams
  <2>3. seen = [i \in 1 .. Len(seen) |-> i]
    BY <2>2
  <2>4. Records(got["U"] \o out["U"]) = 1 .. Forwarded("U")
    BY <2>1, ForwardedPath, LaidRecords
  <2> QED
    BY <2>2, <2>3, <2>4 DEF ObserverComplete
<1> QED
  BY <1>1, Invariance, PTL

-----------------------------------------------------------------------------
(* The selector. *)

\* run_bridge blocks in select only when no end could do anything: the loop's
\* `progressed` is true whenever a step left work for another.
THEOREM BlocksOnlyParkedHolds == Spec => BlocksOnlyParked
<1>1. ASSUME IInv, IInv', Next, pc' = "select", pc # "select" PROVE Parked'
  <2>1. Push
    BY <1>1 DEF Next, Loop, Stop, Drive, Pump, Forward, Wake, Timeout, Peer, PeerFlight,
                PeerSend, PeerClose, PeerReset, PeerReads, loopVars
  <2>2. TypeOK /\ Streams /\ Phases /\ Phases'
    BY <1>1 DEF IInv
  <2>3. PICK c \in Accepted("C", Ends), u \in Accepted("U", Ends) :
          LET k == [e \in Ends |-> IF e = "C" THEN c ELSE u] IN
            /\ Flush(k)
            /\ dead' = [e \in Ends |-> dead[e] \/ Broken(e)]
            /\ pc' = IF \E e \in Ends : dead'[e] THEN "closed"
                     ELSE IF progressed \/ c > 0 \/ u > 0 THEN "drive"
                     ELSE "select"
    BY <2>1 DEF Push
  <2>4. ~(c > 0) /\ ~(u > 0) /\ \A e \in Ends : ~dead'[e]
    BY <1>1, <2>3
  <2>5. UNCHANGED <<inb, hs, reset>> /\ ~AnyDead' /\ ~progressed' /\ pc = "push"
    BY <1>1, <2>1, <2>2 DEF Push, Phases
  <2>6. ASSUME NEW e \in Ends, out'[e] # <<>> PROVE full'[e]
    <3>1. PICK o \in Seq(Items) : out[e] = o
      BY <2>2, Types
    <3>2. PICK j \in Accepted(e, Ends) :
            /\ ~(j > 0) /\ out'[e] = SubSeq(out[e], j + 1, Len(out[e]))
            /\ full[e] => full'[e]
      BY <2>3, <2>4 DEF Flush
    <3>3. j = 0 /\ (o = <<>> \/ full[e] \/ reset[e])
      <4>1. ~(j \in 1 .. Len(o))
        BY <3>2
      <4> QED
        BY <3>1, <3>2, <4>1 DEF Accepted
    <3>4. out'[e] = o
      BY <3>1, <3>2, <3>3
    <3>5. ~Broken(e)
      BY <2>3, <2>4
    <3> QED
      BY <2>6, <3>1, <3>2, <3>3, <3>4, <3>5 DEF Broken
  <2>7. ASSUME NEW e \in Ends PROVE ~Takes(e)'
    BY <1>1, <2>2, <2>5 DEF Phases
  <2>8. ASSUME BothDone, NEW e \in Ends PROVE Ready(e) = 0 /\ ~Ended(e)
    <3>1. \A f \in Ends : ~Ended(f)
      BY <1>1, <2>2, <2>5, <2>8 DEF Phases, BothDone, Ended, EndsIn
    <3>2. Drained("C") /\ Drained("U")
      BY <2>2, <2>5, <2>8, <3>1 DEF Phases
    <3>3. inb[e] = <<>>
      BY <3>1, <3>2, EndAlone DEF Drained, Ended
    <3>4. DataLen(<<>>) = 0
      BY DEF DataLen, EndsIn
    <3> QED
      BY <2>2, <2>8, <3>1, <3>3, <3>4, ReadyIs
  <2> QED
    BY <2>5, <2>6, <2>7, <2>8 DEF Parked, BothDone, Ready, Ended, EndsIn
<1>2. IInv /\ IInv' /\ [Next]_vars => [pc' = "select" /\ pc # "select" => Parked']_vars
  BY <1>1
<1> QED
  BY <1>2, Invariance, PTL DEF Spec, BlocksOnlyParked
====
