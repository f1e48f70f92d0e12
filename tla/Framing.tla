------------------------------ MODULE Framing ------------------------------
(***************************************************************************)
(* The framing of port 47878 (server/control_channel.py): the encoders and  *)
(* decoders of both families, applied by a handler to a stream that arrives *)
(* in pieces of any size.  The raw family (fridge) puts JSON into a msgpack *)
(* string, the TLS family (washer, dryer) puts four bytes of length before  *)
(* it.                                                                     *)
(*                                                                         *)
(* Bytes are numbers.  JSON is reduced to its outermost layer: an object is *)
(* what begins and ends with a brace, whatever stands between; a single     *)
(* digit is JSON but no object; anything else is not JSON.                 *)
(***************************************************************************)
EXTENDS Naturals, Sequences, SequencesExt

CONSTANTS MaxFrame,     \* _LEN4_MAX_FRAME (2^20)
          SanityLimit,  \* _MSGBUF_SANITY_LIMIT (2^16)
          MaxChunk,     \* what one recv returns at most (4096)
          Sizes,        \* lengths of the messages the appliance may send
          MaxItems      \* bound: things the appliance sends

MaxSize == 65535 \* bound: the appliance sends no longer message

ASSUME FramingAssumption ==
         /\ MaxFrame \in Nat /\ MaxSize <= MaxFrame /\ MaxFrame < 2^24
         /\ SanityLimit \in Nat
         /\ MaxChunk \in Nat \ {0} /\ MaxItems \in Nat
         /\ Sizes \subseteq 3 .. MaxSize

Open == 123      \* {
Close == 125     \* }
Digits == 48 .. 57

IsObject(s) == Len(s) >= 2 /\ s[1] = Open /\ Last(s) = Close

\* What json.loads makes of s is a dict.
IsMessage(s) == IsObject(s)

-----------------------------------------------------------------------------
(* Encoders. *)

\* _mp_str: fixstr, str8 or str16.
EncodeRaw(s) ==
  LET n == Len(s) IN
  CASE n < 32              -> <<160 + n>> \o s
    [] n >= 32 /\ n < 256  -> <<217, n>> \o s
    [] n >= 256            -> <<218, n \div 256, n % 256>> \o s

\* The two high bytes are zero up to 64 KiB, and no message is longer.
EncodeTls(s) == <<0, 0, Len(s) \div 256, Len(s) % 256>> \o s

-----------------------------------------------------------------------------
(* decode_messages_len4 *)

\* The declared length at p; a first byte other than zero is beyond MaxFrame.
Declared(b, p) ==
  IF b[p] > 0 THEN MaxFrame + 1 ELSE b[p+1] * 65536 + b[p+2] * 256 + b[p+3]

\* Faulty variant: an insane length drops everything there is.
ResumeAtEnd(b, p) == Len(b) + 1

\* After an insane length the stream is scanned byte by byte.
Resume(b, p) == p + 1

\* What the frame at p holds.
Body(b, p) == SubSeq(b, p + 4, p + 3 + Declared(b, p))

\* What a frame adds to what is decoded behind it.
Before(body, later) ==
  IF IsMessage(body) THEN [later EXCEPT !.msgs = <<body>> \o @] ELSE later

\* The messages that are complete in b, and what is left of b.  A cut-off frame is
\* kept, a complete frame that is no message is dropped.
DecodeTls(b) ==
  LET N == Len(b)
      Stop(p) == [msgs |-> <<>>, rest |-> SubSeq(b, p, N)]
      from[p \in 1 .. N + 1] ==
        IF p + 3 > N THEN Stop(p)
        ELSE LET q == p + 4 + Declared(b, p)
             IN  CASE Declared(b, p) > MaxFrame -> from[Resume(b, p)]
                   [] Declared(b, p) <= MaxFrame /\ q - 1 > N -> Stop(p)
                   [] Declared(b, p) <= MaxFrame /\ q - 1 <= N ->
                        Before(Body(b, p), from[q])
  IN  from[1]

-----------------------------------------------------------------------------
(* MsgpackReader and decode_messages *)

Raises == 0      \* ValueError or IndexError; stands where a position would

\* _read_str: a string ends within the data.
Need(b, q) == IF q - 1 > Len(b) THEN Raises ELSE q

\* Two bytes of a header.
Word(b, p) == b[p] * 256 + b[p+1]

\* reader.read() at p: where the value ends; items[q][n] is where n values end that
\* are read one after the other from q on.
ValueEnd(b, items, p) ==
  LET N == Len(b)
      x == b[p]
  IN  CASE x \in 128 .. 143               -> items[p + 1][2 * (x - 128)]
        [] x \in 160 .. 191               -> Need(b, p + 1 + x - 160)
        [] x = 217 /\ p + 1 <= N          -> Need(b, p + 2 + b[p+1])
        [] x = 218 /\ p + 2 <= N          -> Need(b, p + 3 + Word(b, p + 1))
        [] x = 222 /\ p + 2 <= N          -> items[p + 3][2 * Word(b, p + 1)]
        [] x < 128 \/ x \in {194, 195}    -> p + 1
        [] x = 204 /\ p + 1 <= N          -> p + 2
        [] OTHER                          -> Raises

\* At the end of the data the reader reads None and stays; a map takes such a None
\* for a key or a value.
ReadAt(b) ==
  LET N == Len(b)
      items[p \in 1 .. N + 1] ==
        [n \in Nat |->
           IF n = 0 \/ p > N THEN p
           ELSE LET q == ValueEnd(b, items, p)
                IN  IF q = Raises THEN Raises ELSE items[q][n - 1]]
  IN  [p \in 1 .. N + 1 |-> items[p][1]]

HeadLen(x) == CASE x \in 160 .. 191 -> 1 [] x = 217 -> 2 [] x = 218 -> 3
IsMap(x) == x \in 128 .. 143 \/ x = 222
IsStr(x) == x \in 160 .. 191 \/ x \in {217, 218}

\* decode_messages without its last part: a map is a message, a string is one if
\* it holds an object; at anything else the reader goes back to where that began.
Messages(b) ==
  LET N     == Len(b)
      value == ReadAt(b)
      from[p \in 1 .. N + 1] ==
        LET q    == value[p]
            body == SubSeq(b, p + HeadLen(b[p]), q - 1)
            Take(m) == [from[q] EXCEPT !.msgs = <<m>> \o @]
        IN  CASE p <= N /\ q # Raises /\ IsMap(b[p]) -> Take(SubSeq(b, p, q - 1))
              [] p <= N /\ q # Raises /\ IsStr(b[p]) /\ IsMessage(body) -> Take(body)
              [] OTHER -> [msgs |-> <<>>, rest |-> SubSeq(b, p, N)]
  IN  from[1]

\* Faulty variant: garbage is kept for ever.
DecodeRawParks(b) == Messages(b)

\* The guard against a stream that never yields a message.
DecodeRaw(b) ==
  LET d == Messages(b) IN
  IF d.msgs = <<>> /\ Len(d.rest) > SanityLimit
    THEN [msgs |-> <<>>, rest |-> <<>>] ELSE d

-----------------------------------------------------------------------------
(* A connection: the appliance sends, the network cuts, the handler decodes. *)

VARIABLES
  family,  \* told by the first byte; the handler decodes accordingly
  sent,    \* history: what the appliance has sent
  wire,    \* bytes that have not arrived yet
  buf,     \* the handler's remainder
  got      \* the messages it has decoded

vars == <<family, sent, wire, buf, got>>

\* A message of a given length; or a complete frame that is no message: text that
\* is not JSON, or a number; or a frame that is longer than it declares; or a stray
\* byte; or a zero byte; or an empty object that declares 99 MiB; or a msgpack map,
\* which no appliance was seen to send.  The k-th message carries k inside, so that
\* messages differ.
Things == [what : {"message"}, size : Sizes]
            \cup [what : {"text", "number", "overlong", "stray", "zero", "insane", "map"},
                  size : {3}]

\* Garbage that leaves zero bytes outside of any frame: they can be taken for the
\* beginning of a length.
Loose(x) == x.what \in {"zero", "insane"}

Payload(k, n) == [i \in 1 .. n |-> CASE i = 1 -> Open [] i = n -> Close
                                     [] OTHER -> 64 + k]

Encode(s) == IF family = "raw" THEN EncodeRaw(s) ELSE EncodeTls(s)

Bytes(k, x) ==
  CASE x.what = "message"  -> Encode(Payload(k, x.size))
    [] x.what = "text"     -> Encode(<<Open, Open>>)
    [] x.what = "number"   -> Encode(<<49>>)
    [] x.what = "overlong" -> Encode(<<Open, Open>>) \o <<Close>>
    [] x.what = "stray"    -> IF family = "raw" THEN <<192>> ELSE <<255>>
    [] x.what = "zero"     -> <<0>>
    [] x.what = "insane"   -> <<6, 48, 0, 0, Open, Close>>
    [] x.what = "map"      -> <<130, 161, 64 + k, 195, 161, 64 + k, 204, 200>>

TypeOK ==
  /\ family \in {"raw", "tls"}
  /\ sent \in Seq(Things) /\ Len(sent) <= MaxItems
  /\ wire \in Seq(0 .. 255) /\ buf \in Seq(0 .. 255)
  /\ \A i \in DOMAIN got : IsObject(got[i]) \/ IsMap(got[i][1])

Init ==
  /\ family \in {"raw", "tls"}
  /\ sent = <<>> /\ wire = <<>> /\ buf = <<>> /\ got = <<>>

Send(x) ==
  /\ Len(sent) < MaxItems
  /\ x.what = "map" => family = "raw"
  /\ sent' = Append(sent, x)
  /\ wire' = wire \o Bytes(Len(sent'), x)
  /\ UNCHANGED <<family, buf, got>>

\* Faulty variant: the messages of a piece that leaves a remainder are decoded
\* again with the next piece.
ReceiveKeeps(n) ==
  /\ n <= Len(wire)
  /\ LET all == buf \o SubSeq(wire, 1, n)
         d == IF family = "raw" THEN DecodeRaw(all) ELSE DecodeTls(all)
     IN  /\ got' = got \o d.msgs
         /\ buf' = IF d.rest = <<>> THEN <<>> ELSE all
  /\ wire' = SubSeq(wire, n + 1, Len(wire))
  /\ UNCHANGED <<family, sent>>

\* One recv of n bytes: they are put after the remainder and decoded.
Receive(n) ==
  /\ n <= Len(wire)
  /\ LET all == buf \o SubSeq(wire, 1, n)
         d == IF family = "raw" THEN DecodeRaw(all) ELSE DecodeTls(all)
     IN  got' = got \o d.msgs /\ buf' = d.rest
  /\ wire' = SubSeq(wire, n + 1, Len(wire))
  /\ UNCHANGED <<family, sent>>

Next == \/ \E x \in Things : Send(x)
        \/ \E n \in 1 .. MaxChunk : Receive(n)

Spec == Init /\ [][Next]_vars

-----------------------------------------------------------------------------
(* Properties. *)

\* The number of bytes that were sent after the k-th thing.
Behind(k) == Len(FlattenSeq([i \in 1 .. Len(sent) - k |-> Bytes(k + i, sent[k + i])]))

\* The k-th thing sent has arrived to its last byte.
Arrived(k) == Len(wire) <= Behind(k)

\* However the stream is cut, a message that has arrived has been decoded.  In the
\* TLS family a complete frame that is no message does not prevent that, nor do bytes
\* behind or between the frames, unless there are zeros among them: the reader that
\* slides over such bytes may take them for a length and swallow what follows.  In
\* the raw family any frame that is no message may park what follows (until
\* SanityLimit).
NothingMissed ==
  \A k \in DOMAIN sent :
    sent[k].what = "message" /\ Arrived(k) =>
      \/ \E i \in DOMAIN got : got[i] = Payload(k, sent[k].size)
      \/ family = "raw" /\ \E j \in 1 .. k - 1 : sent[j].what # "message"
      \/ family = "tls" /\ \E j \in 1 .. k - 1 : Loose(sent[j])

\* Only what was sent is decoded, each message once, in the order of sending.  Maps
\* are left out: the end of the data reads as None, so a map that is cut between
\* two of its items becomes a message that nobody sent.
NothingInvented ==
  LET texts == {i \in DOMAIN got : IsObject(got[i])} IN
  \E k \in [texts -> DOMAIN sent] :
    /\ \A i \in texts : /\ sent[k[i]].what = "message" /\ Arrived(k[i])
                        /\ got[i] = Payload(k[i], sent[k[i]].size)
    /\ \A i, j \in texts : i < j => k[i] < k[j]

\* Garbage is not buffered for ever: a mute raw stream is dropped when it exceeds
\* the limit, and what a message leaves came with its last piece.
BufferBounded == family = "raw" => Len(buf) <= SanityLimit \/ Len(buf) < MaxChunk
=============================================================================
