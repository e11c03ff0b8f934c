--------------------------- MODULE SessionProofs ----------------------------
(***************************************************************************)
(* A connection, for every PIPE_BUF and PARSE_BUF_MAX, every sequence of   *)
(* documents and every way to cut it: parse_callback() first, then         *)
(* parse(), which is parse_callback() still, so that what is proved of the *)
(* buffer holds while directives are executed.                             *)
(***************************************************************************)
EXTENDS Session, Induction

(* What a client sends is characters.                                       *)
LEMMA StreamsAreText == \A s \in Script : s \in Seq(Seq(Char)) /\ FlattenSeq(s) \in Seq(Char)
BY ScriptsAreDocuments, FlattenType

(* One more is not nothing.                                                  *)
LEMMA AppendNotEmpty ==
  ASSUME NEW S, NEW s \in Seq(S), NEW x \in S
  PROVE  Append(s, x) # <<>>
<1>1. Len(Append(s, x)) = Len(s) + 1 /\ Len(s) \in Nat
  BY AppendProperties, LenProperties
<1>2. Len(<<>>) = 0
  OBVIOUS
<1>. QED
  BY <1>1, <1>2

(* The buffer grows to exactly PARSE_BUF_MAX (NLC_ASSERT parse_buf_max_check). *)
LEMMA OneMore ==
  ASSUME NEW a \in Sizes, a < MaxBuf
  PROVE  a + PipeBuf \in Sizes /\ a + PipeBuf <= MaxBuf
<1>1. PICK i \in 0..MaxBuf : a = i * PipeBuf
  BY DEF Sizes
<1>2. PICK j \in 0..MaxBuf : MaxBuf = j * PipeBuf
  BY SizesAgree DEF Sizes
<1>3. PipeBuf \in Nat \ {0} /\ MaxBuf \in Nat /\ i \in Nat /\ j \in Nat
  BY SizesAgree
<1>4. i < j
  BY <1>1, <1>2, <1>3
<1>5. (i + 1) * PipeBuf <= j * PipeBuf /\ a + PipeBuf = (i + 1) * PipeBuf
  BY <1>1, <1>3, <1>4
<1>6. i + 1 \in 0..MaxBuf
  BY <1>3, <1>4
<1> QED
  BY <1>2, <1>5, <1>6 DEF Sizes

(* Every read is given PIPE_BUF bytes of room and takes no more. *)
LEMMA ChunkTyped ==
  ASSUME wire \in Seq(Char)
  PROVE  /\ Chunk \in Seq(Char)
         /\ Len(Chunk) \in Nat /\ Len(Chunk) <= PipeBuf
         /\ SubSeq(wire, Len(Chunk) + 1, Len(wire)) \in Seq(Char)
<1> DEFINE n == IF Len(wire) < PipeBuf THEN Len(wire) ELSE PipeBuf
<1>1. Len(wire) \in Nat /\ n \in Nat /\ n <= Len(wire) /\ n <= PipeBuf
  BY SizesAgree
<1>2. \A i \in 1..n : i \in 1..Len(wire)
  BY <1>1
<1>3. Chunk \in Seq(Char) /\ Len(Chunk) = n
  BY <1>1, <1>2, SubSeqProperties DEF Chunk
<1>4. SubSeq(wire, n + 1, Len(wire)) \in Seq(Char)
  BY <1>1, SubSeqProperties
<1> QED
  BY <1>1, <1>3, <1>4

ParseInv == ParseTypeOK /\ BufferHolds /\ OnlyLongTextsDropped

LEMMA ParseInitInv == Init => ParseInv
<1> SUFFICES ASSUME Init PROVE ParseInv
  OBVIOUS
<1>1. Stream \in Seq(Char) /\ Len(Stream) \in Nat
  BY StreamsAreText DEF Init, Stream
<1>2. 0 \in Sizes /\ 0 <= MaxBuf
  <2>1. 0 * PipeBuf = 0 /\ 0 \in 0..MaxBuf
    BY SizesAgree
  <2> QED
    BY <2>1, SizesAgree DEF Sizes
<1>3. <<>> \in Seq(Char) /\ <<>> \in Seq(Seq(Char)) /\ 0 \in 0..Len(Stream)
  BY <1>1
<1>4. docs \in Script
  BY DEF Init
<1>5. ParseTypeOK
  BY <1>2, <1>3, <1>4 DEF Init, ParseTypeOK
<1> QED
  BY <1>5 DEF Init, ParseInv, BufferHolds, OnlyLongTextsDropped

LEMMA SizesAreNat == Sizes \subseteq Nat
  BY SizesAgree DEF Sizes

LEMMA ParseNextInv == ParseInv /\ [Next]_vars => ParseInv'
<1> SUFFICES ASSUME ParseInv, [Next]_vars PROVE ParseInv'
  OBVIOUS
<1> USE DEF client
<1>0. PipeBuf \in Nat \ {0} /\ MaxBuf \in Nat
  BY SizesAgree
<1>1. Stream \in Seq(Char) /\ Len(Stream) \in Nat
  BY StreamsAreText DEF ParseInv, ParseTypeOK, Stream
<1>2. /\ wire \in Seq(Char) /\ buf \in Seq(Char)
      /\ Len(buf) \in Nat /\ buf_len \in Nat /\ buf_len <= MaxBuf /\ buf_len \in Sizes
      /\ sent \in 0..Len(Stream)
      /\ parsed \in Seq(Seq(Char)) /\ dropped \in Seq(Seq(Char))
  BY SizesAreNat DEF ParseInv, ParseTypeOK
<1>3. ASSUME NEW n \in 1..Len(Stream), Send(n) PROVE ParseInv'
  <2>1. sent + n <= Len(Stream) /\ sent + n \in Nat /\ sent' = sent + n
    BY <1>1, <1>2, <1>3 DEF Send
  <2>2. SubSeq(Stream, sent + 1, sent + n) \in Seq(Char)
    BY <1>1, <1>2, <2>1, SubSeqProperties
  <2>3. wire' \in Seq(Char)
    BY <1>2, <1>3, <2>2, ConcatProperties DEF Send
  <2>4. Stream' = Stream
    BY <1>3 DEF Send, Stream
  <2>5. ParseTypeOK'
    BY <1>1, <1>3, <2>1, <2>3, <2>4 DEF Send, ParseInv, ParseTypeOK
  <2> QED
    BY <1>3, <2>5 DEF Send, ParseInv, BufferHolds, OnlyLongTextsDropped
<1>4. CASE Hangup
  BY <1>4 DEF Hangup, ParseInv, ParseTypeOK, BufferHolds, OnlyLongTextsDropped, Stream
<1>5. CASE Callback
  BY <1>5 DEF Callback, ParseInv, ParseTypeOK, BufferHolds, OnlyLongTextsDropped, Stream
<1>6. CASE Extend
  <2>1. buf_len' \in Sizes /\ buf_len' <= MaxBuf /\ Len(buf) + PipeBuf <= buf_len'
    <3>1. CASE NeedsRoom
      <4>1. Len(buf) <= buf_len /\ buf_len' = buf_len + PipeBuf
        BY <1>6, <3>1 DEF Extend, ParseInv, BufferHolds
      <4> QED
        BY <1>0, <1>2, <1>6, <3>1, <4>1, OneMore DEF Extend
    <3>2. CASE ~ NeedsRoom
      BY <1>0, <1>2, <1>6, <3>2 DEF Extend, NeedsRoom
    <3> QED
      BY <3>1, <3>2
  <2>2. ParseTypeOK'
    BY <1>6, <2>1 DEF Extend, ParseInv, ParseTypeOK, Stream
  <2>3. BufferHolds'
    BY <1>0, <1>2, <1>6, <2>1, SizesAreNat DEF Extend, BufferHolds
  <2> QED
    BY <1>6, <2>2, <2>3 DEF Extend, ParseInv, OnlyLongTextsDropped
<1>7. CASE Exceeds
  <2>1. Len(buf) > MaxBuf - PipeBuf
    BY <1>0, <1>2, <1>7 DEF Exceeds, NeedsRoom
  <2>2. dropped' \in Seq(Seq(Char)) /\ dropped' = Append(dropped, buf)
    BY <1>2, <1>7 DEF Exceeds
  <2>3. \A j \in DOMAIN dropped' : dropped'[j] = buf \/ (j \in DOMAIN dropped /\ dropped'[j] = dropped[j])
    BY <1>2, <2>2
  <2>4. OnlyLongTextsDropped'
    BY <2>1, <2>3 DEF ParseInv, OnlyLongTextsDropped
  <2>5. ParseTypeOK'
    BY <1>7, <2>2 DEF Exceeds, ParseInv, ParseTypeOK, Stream
  <2>6. BufferHolds'
    BY <1>2, <1>7 DEF Exceeds, BufferHolds
  <2> QED
    BY <2>4, <2>5, <2>6 DEF ParseInv
<1>8. CASE Read
  <2>1. /\ Chunk \in Seq(Char) /\ Len(Chunk) \in Nat /\ Len(Chunk) <= PipeBuf
        /\ wire' \in Seq(Char)
    BY <1>2, <1>8, ChunkTyped DEF Read
  <2>2. buf' \in Seq(Char) /\ Len(buf') = Len(buf) + Len(Chunk)
    BY <1>2, <1>8, <2>1, ConcatProperties DEF Read
  <2>3. Len(buf) + PipeBuf <= buf_len
    BY <1>8 DEF Read, ParseInv, BufferHolds
  <2>4. BufferHolds'
    BY <1>0, <1>2, <1>8, <2>1, <2>2, <2>3 DEF Read, BufferHolds
  <2>5. ParseTypeOK'
    BY <1>8, <2>1, <2>2 DEF Read, ParseInv, ParseTypeOK, Stream
  <2> QED
    BY <1>8, <2>4, <2>5 DEF Read, ParseInv, OnlyLongTextsDropped
<1>9. CASE ReadNothing
  <2>1. Len(buf) < buf_len
    BY <1>0, <1>2, <1>9 DEF ReadNothing, ParseInv, BufferHolds
  <2> QED
    BY <1>9, <2>1 DEF ReadNothing, ParseInv, ParseTypeOK, BufferHolds, OnlyLongTextsDropped, Stream
<1>10. CASE ReadEnd
  BY <1>10 DEF ReadEnd, ParseInv, ParseTypeOK, BufferHolds, OnlyLongTextsDropped, Stream
<1>11. CASE Incomplete
  BY <1>11 DEF Incomplete, ParseInv, ParseTypeOK, BufferHolds, OnlyLongTextsDropped, Stream
<1>12. CASE Parse
  <2>1. parsed' \in Seq(Seq(Char)) /\ buf' = <<>>
    BY <1>2, <1>12 DEF Parse
  <2>2. ParseTypeOK'
    BY <1>12, <2>1 DEF Parse, ParseInv, ParseTypeOK, Stream
  <2>3. BufferHolds'
    BY <1>2, <1>12 DEF Parse, BufferHolds
  <2> QED
    BY <1>12, <2>2, <2>3 DEF Parse, ParseInv, OnlyLongTextsDropped
<1>13. CASE UNCHANGED vars
  BY <1>13 DEF vars, ParseInv, ParseTypeOK, BufferHolds, OnlyLongTextsDropped, Stream
<1> QED
  BY <1>3, <1>4, <1>5, <1>6, <1>7, <1>8, <1>9, <1>10, <1>11, <1>12, <1>13 DEF Next, Serve

(* parse_callback() from Init through every action: types, room for each    *)
(* read, and what the limit may discard.                                    *)
THEOREM ParseSafe == Spec => []ParseInv
<1>1. Init => ParseInv
  BY ParseInitInv
<1>2. ParseInv /\ [Next]_vars => ParseInv'
  BY ParseNextInv
<1> QED
  BY <1>1, <1>2, PTL DEF Spec

(* A connection's state is well typed; its buffer never outgrows PARSE_BUF_MAX. *)
THEOREM ParseTypes == Spec => []ParseTypeOK
<1>1. ParseInv => ParseTypeOK
  BY DEF ParseInv
<1> QED
  BY <1>1, ParseSafe, PTL

(* read() and the terminating zero of parse_callback() stay in the buffer.  *)
THEOREM BufferAlwaysHolds == Spec => []BufferHolds
<1>1. ParseInv => BufferHolds
  BY DEF ParseInv
<1> QED
  BY <1>1, ParseSafe, PTL

(* The limit discards only what came within one read of it.                 *)
THEOREM ShortTextsKept == Spec => []OnlyLongTextsDropped
<1>1. ParseInv => OnlyLongTextsDropped
  BY DEF ParseInv
<1> QED
  BY <1>1, ParseSafe, PTL
-----------------------------------------------------------------------------
(* StreamConserved. *)

(* What is taken from the front and what is left are what there was.         *)
LEMMA CutInTwo ==
  ASSUME NEW S, NEW w \in Seq(S), NEW n \in 0..Len(w)
  PROVE  /\ w = SubSeq(w, 1, n) \o SubSeq(w, n + 1, Len(w))
         /\ SubSeq(w, 1, n) \in Seq(S) /\ Len(SubSeq(w, 1, n)) = n
         /\ SubSeq(w, n + 1, Len(w)) \in Seq(S) /\ Len(SubSeq(w, n + 1, Len(w))) = Len(w) - n
<1>1. Len(w) \in Nat
  OBVIOUS
<1>2. \A i \in 1..Len(w) : w[i] \in S
  BY ElementOfSeq
<1>3. SubSeq(w, 1, n) \in Seq(S) /\ Len(SubSeq(w, 1, n)) = n
  BY <1>1, <1>2, SubSeqProperties
<1>4. SubSeq(w, n + 1, Len(w)) \in Seq(S) /\ Len(SubSeq(w, n + 1, Len(w))) = Len(w) - n
  BY <1>1, <1>2, SubSeqProperties
<1>5. SubSeq(w, 1, n) \o SubSeq(w, n + 1, Len(w)) = SubSeq(w, 1, Len(w))
  <2>1. 1 \in 1..Len(w)+1 /\ n \in 1-1..Len(w) /\ Len(w) \in n..Len(w)
    BY <1>1
  <2>. QED
    BY <2>1, ConcatAdjacentSubSeq, Zenon
<1>6. SubSeq(w, 1, Len(w)) = w
  BY SubSeqFull
<1>. QED
  BY <1>3, <1>4, <1>5, <1>6

(* Joining text is associative.                                              *)
LEMMA TextJoins ==
  \A a, b, c \in Seq(Char) : a \o b \in Seq(Char) /\ a \o b \o c = a \o (b \o c)
BY ConcatAssociative, ConcatProperties

(* read() takes from the wire what it puts into the buffer.                  *)
LEMMA ReadMoves ==
  ASSUME ParseInv, Read
  PROVE  /\ Len(buf') + Len(wire') = Len(buf) + Len(wire)
         /\ \A f \in Seq(Char) : f \o buf' \o wire' = f \o buf \o wire
<1>1. wire \in Seq(Char) /\ buf \in Seq(Char)
  BY DEF ParseInv, ParseTypeOK
<1>2. PICK w \in Seq(Char), b \in Seq(Char) : w = wire /\ b = buf
  BY <1>1
<1>3. PICK n \in 0..Len(w) : Chunk = SubSeq(w, 1, n)
  BY <1>2, SizesAgree DEF Chunk
<1>4. PICK c \in Seq(Char), r \in Seq(Char) :
         c = SubSeq(w, 1, n) /\ r = SubSeq(w, n + 1, Len(w))
  BY CutInTwo
<1>5. w = c \o r /\ Len(c) = n /\ Len(r) = Len(w) - n
  BY <1>4, CutInTwo
<1>6. buf' = b \o c /\ wire' = r
  BY <1>2, <1>3, <1>4, <1>5 DEF Read
<1>7. Len(b \o c) = Len(b) + n
  BY <1>5, ConcatProperties
<1>8. ASSUME NEW f \in Seq(Char)
      PROVE  f \o (b \o c) \o r = f \o b \o (c \o r)
  <2>1. f \o b \o c \o r = f \o b \o (c \o r)
    <3>1. f \o b \in Seq(Char)
      BY TextJoins, Zenon
    <3>. QED
      BY <3>1, TextJoins, Zenon
  <2>2. f \o b \o c = f \o (b \o c)
    BY TextJoins, Zenon
  <2>. QED
    BY <2>1, <2>2
<1>9. Len(b) + n + (Len(w) - n) = Len(b) + Len(w)
  <2>1. Len(b) \in Nat /\ Len(w) \in Nat
    OBVIOUS
  <2>. QED
    BY <2>1
<1>10. Len(buf') + Len(wire') = Len(buf) + Len(wire)
  BY <1>2, <1>5, <1>6, <1>7, <1>9
<1>. QED
  BY <1>2, <1>5, <1>6, <1>8, <1>10

(* Every step of the client and of parse_callback() keeps what was sent      *)
(* together.                                                                 *)
LEMMA StreamConservedStep ==
  ASSUME ParseInv, StreamConserved, [Next]_vars
  PROVE  StreamConserved'
<1> USE DEF client
<1>0. /\ Stream \in Seq(Char) /\ Len(Stream) \in Nat /\ sent \in 0..Len(Stream)
      /\ wire \in Seq(Char) /\ buf \in Seq(Char) /\ Len(wire) \in Nat /\ Len(buf) \in Nat
      /\ parsed \in Seq(Seq(Char)) /\ dropped \in Seq(Seq(Char))
  BY StreamsAreText DEF ParseInv, ParseTypeOK, Stream
<1>1. PICK p \in Seq(Char), d \in Seq(Char) : p = FlattenSeq(parsed) /\ d = FlattenSeq(dropped)
  BY <1>0, FlattenType
<1>2. /\ Len(p) \in Nat /\ Len(d) \in Nat
      /\ Len(p) + Len(d) + Len(buf) + Len(wire) = sent
      /\ dropped = <<>> => p \o buf \o wire = SubSeq(Stream, 1, sent)
  BY <1>1 DEF StreamConserved
<1>3. ASSUME NEW n \in 1..Len(Stream), Send(n)
      PROVE  StreamConserved'
  <2>1. PICK more : more = SubSeq(Stream, sent + 1, sent + n)
    OBVIOUS
  <2>2. /\ sent' = sent + n /\ sent + n <= Len(Stream) /\ wire' = wire \o more
        /\ UNCHANGED <<docs, buf, parsed, dropped>> /\ Stream' = Stream
    BY <1>3, <2>1 DEF Send, Stream
  <2>3. more \in Seq(Char) /\ Len(more) = n
    <3>1. \A i \in 1..Len(Stream) : Stream[i] \in Char
      BY <1>0, ElementOfSeq
    <3>2. \A i \in sent + 1 .. sent + n : Stream[i] \in Char
      BY <1>0, <2>2, <3>1
    <3>3. sent + 1 \in Int /\ sent + n \in Int /\ sent + 1 <= sent + n /\ sent + n - (sent + 1) + 1 = n
      BY <1>0
    <3>4. PICK x \in Int, y \in Int : x = sent + 1 /\ y = sent + n
      BY <3>3
    <3>5. SubSeq(Stream, x, y) \in Seq(Char) /\ Len(SubSeq(Stream, x, y)) = IF x <= y THEN y - x + 1 ELSE 0
      BY <3>2, <3>4, SubSeqProperties
    <3>6. SubSeq(Stream, x, y) = more
      BY <2>1, <3>4, Zenon
    <3>7. x <= y /\ y - x + 1 = n
      BY <1>0, <3>3, <3>4
    <3>. QED
      BY <3>5, <3>6, <3>7, Zenon
  <2>4. Len(wire') = Len(wire) + n
    BY <1>0, <2>2, <2>3, ConcatProperties
  <2>5. SubSeq(Stream, 1, sent) \o more = SubSeq(Stream, 1, sent + n)
    <3>1. 1 \in 1..Len(Stream)+1 /\ sent \in 1-1..Len(Stream) /\ sent + n \in sent..Len(Stream)
      BY <1>0, <2>2
    <3>. QED
      BY <1>0, <2>1, <3>1, ConcatAdjacentSubSeq, Zenon
  <2>6. p \o buf \o wire \o more = p \o buf \o (wire \o more)
    <3>1. p \o buf \in Seq(Char)
      BY <1>0, TextJoins, Zenon
    <3>. QED
      BY <1>0, <2>3, <3>1, TextJoins, Zenon
  <2>7. Len(p) + Len(d) + Len(buf) + Len(wire') = sent'
    <3>1. n \in Nat /\ sent \in Nat
      BY <1>0
    <3>2. sent' = sent + n /\ Len(p) + Len(d) + Len(buf) + Len(wire) = sent
      BY <1>2, <2>2
    <3>3. PICK x \in Nat, y \in Nat : x = Len(p) + Len(d) + Len(buf) /\ y = Len(wire)
      BY <1>0, <1>2
    <3>4. x + y = sent /\ Len(wire') = y + n
      BY <2>4, <3>2, <3>3
    <3>5. x + (y + n) = sent + n
      BY <3>1, <3>3, <3>4
    <3>. QED
      BY <3>2, <3>3, <3>4, <3>5
  <2>8. dropped = <<>> => p \o buf \o wire' = SubSeq(Stream, 1, sent')
    BY <1>2, <2>2, <2>5, <2>6
  <2>. QED
    BY <1>1, <2>2, <2>7, <2>8 DEF StreamConserved
<1>4. CASE Exceeds
  <2>1. /\ dropped' = Append(dropped, buf) /\ buf' = <<>>
        /\ UNCHANGED <<docs, sent, wire, parsed>>
    BY <1>4 DEF Exceeds
  <2>2. FlattenSeq(dropped') = d \o buf
    BY <1>0, <1>1, <2>1, FlattenAppend
  <2>3. Len(d \o buf) = Len(d) + Len(buf) /\ Len(<<>>) = 0
    BY <1>0, ConcatProperties
  <2>4. dropped' # <<>>
    BY <1>0, <2>1, AppendNotEmpty, Zenon
  <2>5. FlattenSeq(parsed') = p /\ wire' = wire /\ sent' = sent
    BY <1>1, <2>1
  <2>6. Len(p) + (Len(d) + Len(buf)) + 0 + Len(wire) = sent
    BY <1>0, <1>2
  <2>. QED
    BY <2>1, <2>2, <2>3, <2>4, <2>5, <2>6 DEF StreamConserved
<1>5. CASE Read
  <2>1. UNCHANGED <<docs, sent, parsed, dropped>> /\ Stream' = Stream
    BY <1>5 DEF Read, Stream
  <2>2. Len(buf') + Len(wire') = Len(buf) + Len(wire) /\ p \o buf' \o wire' = p \o buf \o wire
    BY <1>5, ReadMoves
  <2>3. Len(buf') \in Nat /\ Len(wire') \in Nat
    <3>1. ParseInv'
      BY ParseNextInv
    <3>2. buf' \in Seq(Char) /\ wire' \in Seq(Char)
      BY <3>1 DEF ParseInv, ParseTypeOK
    <3>. QED
      BY <3>2
  <2>4. Len(p) + Len(d) + Len(buf') + Len(wire') = sent
    BY <1>0, <1>2, <2>2, <2>3
  <2>. QED
    BY <1>1, <1>2, <2>1, <2>2, <2>4 DEF StreamConserved
<1>6. CASE Parse
  <2>1. /\ parsed' = Append(parsed, buf) /\ buf' = <<>> /\ Stream' = Stream
        /\ UNCHANGED <<docs, sent, wire, dropped>>
    BY <1>6 DEF Parse, Stream
  <2>2. FlattenSeq(parsed') = p \o buf
    BY <1>0, <1>1, <2>1, FlattenAppend
  <2>3. Len(p \o buf) = Len(p) + Len(buf) /\ (p \o buf) \o <<>> = p \o buf /\ Len(<<>>) = 0
    BY <1>0, ConcatProperties, ConcatEmptySeq
  <2>4. FlattenSeq(dropped') = d /\ wire' = wire /\ sent' = sent /\ dropped' = dropped
    BY <1>1, <2>1
  <2>5. (Len(p) + Len(buf)) + Len(d) + 0 + Len(wire) = sent
    BY <1>0, <1>2
  <2>6. Len(FlattenSeq(parsed')) + Len(FlattenSeq(dropped')) + Len(buf') + Len(wire') = sent'
    BY <2>1, <2>2, <2>3, <2>4, <2>5
  <2>7. dropped = <<>> => FlattenSeq(parsed') \o buf' \o wire' = SubSeq(Stream', 1, sent')
    BY <1>2, <2>1, <2>2, <2>3, <2>4
  <2>. QED
    BY <2>4, <2>6, <2>7 DEF StreamConserved
<1>7. CASE Hangup \/ Callback \/ Extend \/ ReadNothing \/ ReadEnd \/ Incomplete \/ UNCHANGED vars
  <2>1. UNCHANGED <<docs, sent, wire, buf, parsed, dropped>>
    BY <1>7 DEF Hangup, Callback, Extend, ReadNothing, ReadEnd, Incomplete, vars
  <2>. QED
    BY <2>1 DEF StreamConserved, Stream
<1>. QED
  BY <1>3, <1>4, <1>5, <1>6, <1>7 DEF Next, Serve

(* A connection starts with nothing sent.                                    *)
LEMMA StreamConservedStart == Init => StreamConserved
<1> SUFFICES ASSUME Init PROVE StreamConserved
  OBVIOUS
<1>1. /\ sent = 0 /\ parsed = <<>> /\ dropped = <<>> /\ buf = <<>> /\ wire = <<>>
  BY DEF Init
<1>2. SubSeq(Stream, 1, 0) = <<>> /\ <<>> \o <<>> \o <<>> = <<>> /\ Len(<<>>) = 0
  BY SubSeqEmpty
<1>3. Len(<<>>) + Len(<<>>) + Len(<<>>) + Len(<<>>) = 0
  BY <1>2
<1>. QED
  BY <1>1, <1>2, <1>3, FlattenEmpty, Zenon DEF StreamConserved

(* Every character that is sent is where it was or was handed on, in order,  *)
(* whatever parse_callback() does: with the types, an invariant.             *)
THEOREM StreamAlwaysConserved == Spec => []StreamConserved
<1>1. Init => ParseInv /\ StreamConserved
  BY ParseInitInv, StreamConservedStart
<1>2. (ParseInv /\ StreamConserved) /\ [Next]_vars => (ParseInv /\ StreamConserved)'
  BY ParseNextInv, StreamConservedStep
<1>. QED
  BY <1>1, <1>2, PTL DEF Spec
-----------------------------------------------------------------------------
(* Where documents end. *)

(* The stream from the end of one document to the end of the next is that    *)
(* document.                                                                 *)
LEMMA NextDocument ==
  ASSUME NEW d \in Seq(Seq(Char)), NEW k \in 0..Len(d) - 1
  PROVE  /\ Ends(d, k) \in Nat
         /\ Ends(d, k + 1) = Ends(d, k) + Len(d[k + 1])
         /\ Ends(d, k + 1) <= Len(FlattenSeq(d))
         /\ \A i \in 1..Len(d[k + 1]) : FlattenSeq(d)[Ends(d, k) + i] = d[k + 1][i]
<1>1. Len(d) \in Nat /\ k + 1 \in 1..Len(d) /\ k \in 0..Len(d) /\ k + 1 \in 0..Len(d)
  OBVIOUS
<1>2. PICK a \in Seq(Seq(Char)), b \in Seq(Seq(Char)), x \in Seq(Char) :
         a = SubSeq(d, 1, k) /\ b = SubSeq(d, k + 1 + 1, Len(d)) /\ x = d[k + 1]
  BY <1>1, CutInTwo, ElementOfSeq
<1>3. SubSeq(d, 1, k + 1) = Append(a, x)
  <2>1. k + 1 \in 1..Len(d) /\ 1 \in 1..Len(d) /\ k + 1 \in 1..Len(d) /\ k + 1 - 1 = k
    BY <1>1
  <2>2. SubSeq(d, 1, k + 1) = SubSeq(d, 1, k + 1 - 1) \o <<d[k + 1]>>
    BY <2>1, SubSeqRecursiveSecond
  <2>. QED
    BY <1>2, <2>1, <2>2
<1>4. d = Append(a, x) \o b
  <2>1. d = SubSeq(d, 1, k + 1) \o SubSeq(d, k + 1 + 1, Len(d))
    BY <1>1, CutInTwo, Zenon
  <2>. QED
    BY <1>2, <1>3, <2>1
<1>5. PICK fa \in Seq(Char), fb \in Seq(Char) : fa = FlattenSeq(a) /\ fb = FlattenSeq(b)
  BY FlattenType
<1>6. FlattenSeq(Append(a, x)) = fa \o x
  BY <1>5, FlattenAppend
<1>7. Append(a, x) \in Seq(Seq(Char))
  BY AppendProperties
<1>8. FlattenSeq(d) = fa \o x \o fb
  BY <1>4, <1>5, <1>6, <1>7, FlattenConcat
<1>9. Ends(d, k) = Len(fa) /\ Ends(d, k + 1) = Len(fa \o x) /\ x = d[k + 1]
  BY <1>2, <1>3, <1>5, <1>6 DEF Ends
<1>10. /\ Len(fa) \in Nat /\ Len(x) \in Nat /\ Len(fb) \in Nat
       /\ Len(fa \o x) = Len(fa) + Len(x)
       /\ Len(fa \o x \o fb) = Len(fa) + Len(x) + Len(fb)
       /\ \A i \in 1..Len(x) : (fa \o x \o fb)[Len(fa) + i] = x[i]
  OBVIOUS
<1>11. /\ Ends(d, k) \in Nat
       /\ Ends(d, k + 1) = Ends(d, k) + Len(d[k + 1])
       /\ Ends(d, k + 1) <= Len(FlattenSeq(d))
  <2>1. Len(fa) + Len(x) <= Len(fa) + Len(x) + Len(fb)
    BY <1>10
  <2>. QED
    BY <1>8, <1>9, <1>10, <2>1
<1>12. \A i \in 1..Len(d[k + 1]) : FlattenSeq(d)[Ends(d, k) + i] = d[k + 1][i]
  BY <1>8, <1>9, <1>10, Zenon
<1>. QED
  BY <1>11, <1>12

(* No document ends where nothing is sent.                                   *)
LEMMA NoDocument == \A d : Ends(d, 0) = 0
<1> SUFFICES ASSUME NEW d PROVE Ends(d, 0) = 0
  OBVIOUS
<1>1. SubSeq(d, 1, 0) = <<>>
  BY SubSeqEmpty
<1>2. Len(<<>>) = 0
  OBVIOUS
<1>. QED
  BY <1>1, <1>2, FlattenEmpty, Zenon DEF Ends

(* Every character of the stream is in a document.                           *)
LEMMA InSomeDocument ==
  ASSUME NEW d \in Seq(Seq(Char)), NEW m \in 1..Len(FlattenSeq(d))
  PROVE  \E k \in 0..Len(d) - 1 : Ends(d, k) < m /\ m <= Ends(d, k + 1)
<1> DEFINE T == {k \in 0..Len(d) : m <= Ends(d, k)}
<1>1. Len(d) \in Nat /\ FlattenSeq(d) \in Seq(Char) /\ Len(FlattenSeq(d)) \in Nat
  BY FlattenType
<1>2. Len(d) \in T
  <2>1. Ends(d, Len(d)) = Len(FlattenSeq(d))
    BY SubSeqFull DEF Ends
  <2>. QED
    BY <1>1, <2>1
<1>3. PICK k \in T : \A j \in T : k <= j
  <2>1. T \subseteq Nat
    OBVIOUS
  <2> HIDE DEF T
  <2>. QED
    BY <1>2, <2>1, LeastNumber
<1>4. k # 0
  <2>1. Ends(d, 0) = 0
    BY NoDocument
  <2>. QED
    BY <1>3, <2>1
<1>5. k - 1 \in 0..Len(d) - 1 /\ k - 1 \in 0..Len(d) /\ k - 1 + 1 = k /\ ~ (k <= k - 1)
  BY <1>1, <1>3, <1>4
<1>6. k - 1 \notin T
  BY <1>3, <1>5
<1>7. Ends(d, k - 1) \in Nat
  BY <1>5, NextDocument
<1>8. Ends(d, k - 1) < m
  BY <1>5, <1>6, <1>7
<1>. QED
  BY <1>3, <1>5, <1>8

(* The last characters, counted from either end.                             *)
LEMMA SuffixAt ==
  ASSUME NEW S, NEW t \in Seq(S), NEW u \in Seq(S)
  PROVE  IsSuffix(t, u) <=> /\ Len(t) <= Len(u)
                            /\ \A i \in 1..Len(t) : t[i] = u[Len(u) - Len(t) + i]
<1>1. Len(t) \in Nat /\ Len(u) \in Nat
  OBVIOUS
<1>2. ASSUME NEW s \in Seq(S)
      PROVE  /\ Reverse(s) \in Seq(S) /\ Len(Reverse(s)) = Len(s)
             /\ \A i \in 1..Len(s) : Reverse(s)[i] = s[Len(s) - i + 1]
  <2>1. \A i \in 1..Len(s) : Len(s) - i + 1 \in 1..Len(s)
    OBVIOUS
  <2>2. \A i \in 1..Len(s) : s[Len(s) - i + 1] \in S
    BY <2>1, ElementOfSeq
  <2>. QED
    BY <2>2 DEF Reverse
<1>3. PICK rt \in Seq(S), ru \in Seq(S) : rt = Reverse(t) /\ ru = Reverse(u)
  BY <1>2
<1>4. /\ Len(rt) = Len(t) /\ Len(ru) = Len(u)
      /\ \A i \in 1..Len(t) : rt[i] = t[Len(t) - i + 1]
      /\ \A i \in 1..Len(u) : ru[i] = u[Len(u) - i + 1]
  BY <1>2, <1>3
<1>5. IsSuffix(t, u) <=> Len(t) <= Len(u) /\ SubSeq(rt, 1, Len(t)) = SubSeq(ru, 1, Len(t))
  BY <1>3, <1>4 DEF IsSuffix, IsPrefix
<1>6. ASSUME Len(t) <= Len(u)
      PROVE  SubSeq(rt, 1, Len(t)) = SubSeq(ru, 1, Len(t))
               <=> \A i \in 1..Len(t) : rt[i] = ru[i]
  <2>1. Len(t) \in 0..Len(rt) /\ Len(t) \in 0..Len(ru)
    BY <1>1, <1>4, <1>6
  <2>2. PICK a \in Seq(S), b \in Seq(S) : a = SubSeq(rt, 1, Len(t)) /\ b = SubSeq(ru, 1, Len(t))
    BY <2>1, CutInTwo
  <2>3. /\ Len(a) = Len(t) /\ Len(b) = Len(t)
        /\ \A i \in 1..Len(t) : a[i] = rt[i] /\ b[i] = ru[i]
    BY <1>1, <1>4, <1>6, <2>2, SubSeqProperties
  <2>4. a = b <=> \A i \in 1..Len(t) : a[i] = b[i]
    BY <2>3, SeqEqual
  <2>. QED
    BY <2>2, <2>3, <2>4
<1>7. ASSUME Len(t) <= Len(u)
      PROVE  (\A i \in 1..Len(t) : rt[i] = ru[i])
               <=> \A i \in 1..Len(t) : t[i] = u[Len(u) - Len(t) + i]
  <2>1. \A i \in 1..Len(t) : /\ Len(t) - i + 1 \in 1..Len(t) /\ i \in 1..Len(u)
                             /\ Len(u) - i + 1 = Len(u) - Len(t) + (Len(t) - i + 1)
                             /\ Len(t) - (Len(t) - i + 1) + 1 = i
    BY <1>1, <1>7
  <2>2. ASSUME \A i \in 1..Len(t) : t[i] = u[Len(u) - Len(t) + i], NEW i \in 1..Len(t)
        PROVE  rt[i] = ru[i]
    <3>1. t[Len(t) - i + 1] = u[Len(u) - Len(t) + (Len(t) - i + 1)]
      BY <2>1, <2>2
    <3>. QED
      BY <1>4, <2>1, <3>1
  <2>3. ASSUME \A i \in 1..Len(t) : rt[i] = ru[i], NEW i \in 1..Len(t)
        PROVE  t[i] = u[Len(u) - Len(t) + i]
    <3>1. PICK j \in 1..Len(t) : j = Len(t) - i + 1
      BY <2>1
    <3>2. rt[j] = ru[j] /\ rt[j] = t[Len(t) - j + 1] /\ ru[j] = u[Len(u) - j + 1]
      BY <1>4, <2>1, <2>3, <3>1
    <3>3. Len(t) - j + 1 = i /\ Len(u) - j + 1 = Len(u) - Len(t) + i
      BY <1>1, <3>1
    <3>. QED
      BY <3>2, <3>3
  <2>. QED
    BY <2>2, <2>3
<1>. QED
  BY <1>5, <1>6, <1>7

(* parse_cmptail(), character by character from the end.                     *)
LEMMA CompleteAt ==
  ASSUME NEW u \in Seq(Char)
  PROVE  Complete(u) <=> \E t \in Tails : /\ Len(t) <= Len(u)
                                          /\ \A i \in 1..Len(t) : t[i] = u[Len(u) - Len(t) + i]
<1> DEFINE S == Char \cup {"n", "r", "e"}
<1>1. u \in Seq(S)
  BY SeqMonotonic
<1>2. \A t \in Tails : t \in Seq(S)
  <2>1. "n" \in S /\ "r" \in S /\ "e" \in S
    OBVIOUS
  <2> HIDE DEF S
  <2>2. /\ <<"n", "n">> \in Seq(S) /\ <<"r", "n", "r", "n">> \in Seq(S)
        /\ <<"e", "n">> \in Seq(S) /\ <<"e", "r", "n">> \in Seq(S)
    BY <2>1
  <2>. QED
    BY <2>2, Zenon DEF Tails
<1> HIDE DEF S
<1>3. \A t \in Tails : IsSuffix(t, u) <=> /\ Len(t) <= Len(u)
                                          /\ \A i \in 1..Len(t) : t[i] = u[Len(u) - Len(t) + i]
  BY <1>1, <1>2, SuffixAt
<1>. QED
  BY <1>3, Zenon DEF Complete

(* A text that is complete is not empty.                                     *)
LEMMA CompleteNotEmpty ==
  ASSUME NEW u \in Seq(Char), Complete(u)
  PROVE  Len(u) \in Nat /\ Len(u) >= 2
<1>1. PICK t \in Tails : Len(t) <= Len(u)
  BY CompleteAt
<1>2. Len(t) \in Nat /\ Len(t) >= 2
  <2>1. ASSUME NEW x, x = <<"n", "n">> \/ x = <<"e", "n">> PROVE Len(x) = 2
    BY <2>1
  <2>2. ASSUME NEW x, x = <<"r", "n", "r", "n">> PROVE Len(x) = 4
    BY <2>2
  <2>3. ASSUME NEW x, x = <<"e", "r", "n">> PROVE Len(x) = 3
    BY <2>3
  <2>. QED
    <3>1. t = <<"n", "n">> \/ t = <<"r", "n", "r", "n">> \/ t = <<"e", "n">> \/ t = <<"e", "r", "n">>
      BY DEF Tails
    <3>2. Len(t) \in {2, 3, 4}
      BY <2>1, <2>2, <2>3, <3>1
    <3>. QED
      BY <3>2
<1>. QED
  BY <1>1, <1>2
-----------------------------------------------------------------------------
(* WholeDocuments. *)

(* parse() is given the next characters of the stream, if none were          *)
(* discarded.                                                                *)
LEMMA BufferInStream ==
  ASSUME ParseInv, StreamConserved, dropped = <<>>
  PROVE  /\ Len(FlattenSeq(parsed)) + Len(buf) <= Len(Stream)
         /\ Len(FlattenSeq(parsed)) \in Nat
         /\ \A i \in 1..Len(buf) : buf[i] = Stream[Len(FlattenSeq(parsed)) + i]
<1>0. /\ Stream \in Seq(Char) /\ Len(Stream) \in Nat /\ sent \in 0..Len(Stream)
      /\ wire \in Seq(Char) /\ buf \in Seq(Char) /\ parsed \in Seq(Seq(Char))
  BY StreamsAreText DEF ParseInv, ParseTypeOK, Stream
<1>1. PICK p \in Seq(Char) : p = FlattenSeq(parsed)
  BY <1>0, FlattenType
<1>2. PICK b \in Seq(Char), w \in Seq(Char), F \in Seq(Char) : b = buf /\ w = wire /\ F = Stream
  BY <1>0
<1>3. p \o b \o w = SubSeq(F, 1, sent)
  BY <1>1, <1>2 DEF StreamConserved
<1>4. Len(p \o b \o w) = Len(p) + Len(b) + Len(w) /\ Len(p) \in Nat /\ Len(b) \in Nat /\ Len(w) \in Nat
      /\ \A i \in 1..Len(b) : (p \o b \o w)[Len(p) + i] = b[i]
  OBVIOUS
<1>5. Len(SubSeq(F, 1, sent)) = sent /\ \A i \in 1..sent : SubSeq(F, 1, sent)[i] = F[i]
  <2>1. sent \in Nat /\ sent <= Len(F)
    BY <1>0, <1>2
  <2>. QED
    BY <1>2, <2>1, SubSeqProperties
<1>6. Len(p) + Len(b) <= sent /\ sent <= Len(F) /\ sent \in Nat
  BY <1>0, <1>2, <1>3, <1>4, <1>5
<1>7. ASSUME NEW i \in 1..Len(b)
      PROVE  b[i] = F[Len(p) + i]
  <2>1. Len(p) + i \in 1..sent
    BY <1>4, <1>6
  <2>. QED
    BY <1>3, <1>4, <1>5, <2>1
<1>8. Len(p) + Len(b) <= Len(F)
  BY <1>0, <1>2, <1>4, <1>6
<1>. QED
  BY <1>1, <1>2, <1>4, <1>7, <1>8

(* The first of a sequence are the same after one is appended.               *)
LEMMA FirstOfAppended ==
  ASSUME NEW S, NEW s \in Seq(S), NEW x \in S, NEW j \in 0..Len(s)
  PROVE  SubSeq(Append(s, x), 1, j) = SubSeq(s, 1, j)
<1>1. PICK t \in Seq(S) : t = Append(s, x)
  BY AppendProperties
<1>2. Len(t) = Len(s) + 1 /\ Len(s) \in Nat /\ \A i \in 1..Len(s) : t[i] = s[i]
  BY <1>1, AppendProperties
<1>3. j \in 0..Len(t) /\ j \in Nat
  BY <1>2
<1>4. SubSeq(t, 1, j) \in Seq(S) /\ Len(SubSeq(t, 1, j)) = j
  BY <1>3, CutInTwo, Zenon
<1>5. SubSeq(s, 1, j) \in Seq(S) /\ Len(SubSeq(s, 1, j)) = j
  BY CutInTwo, Zenon
<1>6. \A i \in 1..j : SubSeq(t, 1, j)[i] = t[i] /\ SubSeq(s, 1, j)[i] = s[i]
  BY <1>2, <1>3, SubSeqProperties
<1>7. \A i \in 1..j : SubSeq(t, 1, j)[i] = SubSeq(s, 1, j)[i]
  BY <1>2, <1>3, <1>6
<1>8. SubSeq(t, 1, j) = SubSeq(s, 1, j)
  BY <1>4, <1>5, <1>7, SeqEqual
<1>. QED
  BY <1>1, <1>8

\* Where the texts end does not change when one more is handed on.
LEMMA OldTexts ==
  ASSUME NEW s \in Seq(Seq(Char)), NEW x \in Seq(Char)
  PROVE  /\ \A j \in 1..Len(s) : Ends(Append(s, x), j) = Ends(s, j)
         /\ Ends(Append(s, x), Len(s) + 1) = Len(FlattenSeq(Append(s, x)))
<1>1. ASSUME NEW j \in 1..Len(s) PROVE Ends(Append(s, x), j) = Ends(s, j)
  <2>1. j \in 0..Len(s)
    OBVIOUS
  <2>2. SubSeq(Append(s, x), 1, j) = SubSeq(s, 1, j)
    BY <2>1, FirstOfAppended
  <2>. QED
    BY <2>2 DEF Ends
<1>2. PICK t \in Seq(Seq(Char)) : t = Append(s, x) /\ Len(t) = Len(s) + 1
  BY AppendProperties
<1>3. SubSeq(t, 1, Len(t)) = t
  BY SubSeqFull
<1>. QED
  BY <1>1, <1>2, <1>3 DEF Ends

(* Up to the end of a text that is given to parse(), the stream looks ended: *)
(* the last characters of the buffer are the last of the stream so far.      *)
LEMMA TextLooksEnded ==
  ASSUME ParseInv, StreamConserved, dropped = <<>>, Parse
  PROVE  /\ Len(FlattenSeq(parsed')) \in 1..Len(Stream)
         /\ Complete(SubSeq(Stream, 1, Len(FlattenSeq(parsed'))))
<1>0. docs \in Script /\ buf \in Seq(Char) /\ parsed \in Seq(Seq(Char)) /\ Complete(buf)
      /\ parsed' = Append(parsed, buf)
  BY DEF ParseInv, ParseTypeOK, Parse
<1>1. PICK p \in Seq(Char), b \in Seq(Char), F \in Seq(Char) :
        p = FlattenSeq(parsed) /\ b = buf /\ F = Stream
  BY <1>0, FlattenType, StreamsAreText DEF Stream
<1>2. PICK m \in Nat : m = Len(p) + Len(b) /\ m = Len(FlattenSeq(parsed'))
  <2>1. FlattenSeq(parsed') = p \o b
    BY <1>0, <1>1, FlattenAppend
  <2>. QED
    BY <2>1, ConcatProperties
<1>3. /\ Len(p) \in Nat /\ Len(b) \in Nat /\ m <= Len(F)
      /\ \A i \in 1..Len(b) : b[i] = F[Len(p) + i]
  BY <1>1, <1>2, BufferInStream
<1>4. Len(b) >= 2 /\ Complete(b)
  BY <1>0, <1>1, CompleteNotEmpty
<1>5. m \in 1..Len(F) /\ m \in 0..Len(F)
  BY <1>2, <1>3, <1>4
<1>6. PICK u \in Seq(Char) : u = SubSeq(F, 1, m) /\ Len(u) = m /\ \A i \in 1..m : u[i] = F[i]
  <2>1. SubSeq(F, 1, m) \in Seq(Char) /\ Len(SubSeq(F, 1, m)) = m
    BY <1>5, CutInTwo, Zenon
  <2>2. \A i \in 1..m : SubSeq(F, 1, m)[i] = F[i]
    BY <1>3, <1>5, SubSeqProperties
  <2>. QED
    BY <2>1, <2>2
<1>7. PICK t \in Tails : /\ Len(t) <= Len(b)
                         /\ \A i \in 1..Len(t) : t[i] = b[Len(b) - Len(t) + i]
  BY <1>4, CompleteAt
<1>8. Len(t) \in Nat
  <2>1. t = <<"n", "n">> \/ t = <<"r", "n", "r", "n">> \/ t = <<"e", "n">> \/ t = <<"e", "r", "n">>
    BY DEF Tails
  <2>. QED
    BY <2>1
<1>9. ASSUME NEW i \in 1..Len(t)
      PROVE  t[i] = u[m - Len(t) + i]
  <2>1. /\ Len(b) - Len(t) + i \in 1..Len(b) /\ m - Len(t) + i \in 1..m
        /\ Len(p) + (Len(b) - Len(t) + i) = m - Len(t) + i
    BY <1>2, <1>3, <1>7, <1>8
  <2>2. b[Len(b) - Len(t) + i] = F[Len(p) + (Len(b) - Len(t) + i)]
    BY <1>3, <2>1, Zenon
  <2>3. u[m - Len(t) + i] = F[m - Len(t) + i]
    BY <1>6, <2>1
  <2>. QED
    BY <1>7, <2>1, <2>2, <2>3
<1>10. Len(t) <= Len(u)
  BY <1>2, <1>3, <1>6, <1>7, <1>8
<1>11. Complete(u)
  BY <1>6, <1>9, <1>10, CompleteAt
<1>. QED
  BY <1>1, <1>2, <1>5, <1>6, <1>11

(* Nothing has cut a document without inner ends, and the text that parse()  *)
(* is given next does not.                                                   *)
LEMMA WholeDocumentsStep ==
  ASSUME ParseInv, StreamConserved, WholeDocuments, [Next]_vars
  PROVE  WholeDocuments'
<1> USE DEF client
<1>0. docs \in Script /\ docs \in Seq(Seq(Char)) /\ buf \in Seq(Char) /\ parsed \in Seq(Seq(Char))
      /\ dropped \in Seq(Seq(Char))
  BY ScriptsAreDocuments DEF ParseInv, ParseTypeOK
<1>1. CASE Parse
  <2>1. parsed' = Append(parsed, buf) /\ UNCHANGED <<docs, dropped>>
    BY <1>1 DEF Parse
  <2> SUFFICES ASSUME dropped = <<>>, NEW k \in Unbroken[docs], NEW j \in DOMAIN (parsed')
               PROVE  Ends(parsed', j) \notin Within(docs, k)
    BY <2>1 DEF WholeDocuments, Intact
  <2>2. Len(parsed) \in Nat /\ DOMAIN parsed = 1..Len(parsed) /\ DOMAIN (parsed') = 1..Len(parsed) + 1
    BY <1>0, <2>1
  <2>3. CASE j \in 1..Len(parsed)
    <3>1. Ends(parsed', j) = Ends(parsed, j)
      BY <1>0, <2>1, <2>3, OldTexts
    <3>. QED
      BY <2>2, <2>3, <3>1 DEF WholeDocuments, Intact
  <2>4. CASE j = Len(parsed) + 1
    <3>1. Ends(parsed', j) = Len(FlattenSeq(parsed'))
      BY <1>0, <2>1, <2>4, OldTexts
    <3>2. Complete(SubSeq(FlattenSeq(docs), 1, Len(FlattenSeq(parsed'))))
      BY <1>1, TextLooksEnded DEF Stream
    <3>3. \A n \in Within(docs, k) : ~ Complete(SubSeq(FlattenSeq(docs), 1, n))
      BY <1>0 DEF Unbroken
    <3>. QED
      BY <3>1, <3>2, <3>3, Zenon
  <2>. QED
    BY <2>2, <2>3, <2>4
<1>2. CASE Exceeds
  <2>1. dropped' = Append(dropped, buf)
    BY <1>2 DEF Exceeds
  <2>2. dropped' # <<>>
    BY <1>0, <2>1, AppendNotEmpty, Zenon
  <2>. QED
    BY <2>2 DEF WholeDocuments
<1>3. ASSUME UNCHANGED <<docs, parsed, dropped>>
      PROVE  WholeDocuments'
  BY <1>3 DEF WholeDocuments, Intact
<1>4. ASSUME NEW n, Send(n)
      PROVE  UNCHANGED <<docs, parsed, dropped>>
  BY <1>4 DEF Send
<1>5. CASE Hangup \/ Callback \/ Extend \/ Read \/ ReadNothing \/ ReadEnd \/ Incomplete \/ UNCHANGED vars
  BY <1>3, <1>5 DEF Hangup, Callback, Extend, Read, ReadNothing, ReadEnd, Incomplete, vars
<1>. QED
  BY <1>1, <1>2, <1>3, <1>4, <1>5 DEF Next, Serve

(* What is lost or torn stays so.                                            *)
LEMMA KeptBefore ==
  ASSUME ParseInv, [Next]_vars, Kept'
  PROVE  Kept
<1> USE DEF client
<1>0. buf \in Seq(Char) /\ parsed \in Seq(Seq(Char)) /\ dropped \in Seq(Seq(Char))
      /\ Len(parsed) \in Nat
  BY DEF ParseInv, ParseTypeOK
<1>1. CASE Parse
  <2>1. parsed' = Append(parsed, buf) /\ UNCHANGED <<docs, dropped>>
    BY <1>1 DEF Parse
  <2>2. ASSUME NEW j \in DOMAIN parsed
        PROVE  j \in DOMAIN (parsed') /\ Ends(parsed', j) = Ends(parsed, j)
    <3>1. j \in 1..Len(parsed) /\ j \in 1..Len(parsed) + 1 /\ DOMAIN (parsed') = 1..Len(parsed) + 1
      BY <1>0, <2>1
    <3>. QED
      BY <1>0, <2>1, <3>1, OldTexts
  <2>3. ASSUME NEW k \in DOMAIN docs \ Unbroken[docs]
        PROVE  Intact(k)
    <3>1. \A j \in DOMAIN (parsed') : Ends(parsed', j) \notin Within(docs, k)
      BY <2>1, <2>3 DEF Kept, Intact
    <3>. QED
      BY <2>2, <3>1 DEF Intact
  <2>. QED
    BY <2>1, <2>3 DEF Kept
<1>2. CASE Exceeds
  <2>1. dropped' = Append(dropped, buf)
    BY <1>2 DEF Exceeds
  <2>2. dropped' # <<>>
    BY <1>0, <2>1, AppendNotEmpty, Zenon
  <2>. QED
    BY <2>2 DEF Kept
<1>3. ASSUME UNCHANGED <<docs, parsed, dropped>>
      PROVE  Kept
  BY <1>3 DEF Kept, Intact
<1>4. ASSUME NEW n, Send(n)
      PROVE  UNCHANGED <<docs, parsed, dropped>>
  BY <1>4 DEF Send
<1>5. CASE Hangup \/ Callback \/ Extend \/ Read \/ ReadNothing \/ ReadEnd \/ Incomplete \/ UNCHANGED vars
  BY <1>3, <1>5 DEF Hangup, Callback, Extend, Read, ReadNothing, ReadEnd, Incomplete, vars
<1>. QED
  BY <1>1, <1>2, <1>3, <1>4, <1>5 DEF Next, Serve

(* A text given to parse() ends where a document ends, if none is torn.      *)
LEMMA ParseEndsDocument ==
  ASSUME ParseInv, StreamConserved, WholeDocuments', Kept', Parse
  PROVE  \E k \in 1..Len(docs) : Len(FlattenSeq(parsed')) = Ends(docs, k)
<1>0. docs \in Script /\ docs \in Seq(Seq(Char)) /\ DOMAIN docs = 1..Len(docs) /\ Len(docs) \in Nat
      /\ buf \in Seq(Char) /\ parsed \in Seq(Seq(Char)) /\ Len(parsed) \in Nat
  BY ScriptsAreDocuments DEF ParseInv, ParseTypeOK
<1>1. parsed' = Append(parsed, buf) /\ docs' = docs /\ dropped' = dropped /\ dropped = <<>>
  BY DEF Parse, client, Kept
<1>2. PICK m \in 1..Len(FlattenSeq(docs)) : m = Len(FlattenSeq(parsed'))
  BY <1>1, TextLooksEnded DEF Stream
<1>3. PICK q \in 0..Len(docs) - 1 : Ends(docs, q) < m /\ m <= Ends(docs, q + 1)
  BY <1>0, InSomeDocument
<1>4. q + 1 \in DOMAIN docs /\ q + 1 \in 1..Len(docs) /\ q + 1 - 1 = q
  BY <1>0
<1>5. Intact(q + 1)'
  <2>1. q + 1 \in Unbroken[docs] \/ q + 1 \in DOMAIN docs \ Unbroken[docs]
    BY <1>4
  <2>. QED
    BY <1>1, <2>1 DEF Kept, WholeDocuments
<1>6. m \notin Within(docs, q + 1)
  <2>1. Len(parsed) + 1 \in DOMAIN (parsed') /\ Ends(parsed', Len(parsed) + 1) = m
    BY <1>0, <1>1, <1>2, OldTexts
  <2>. QED
    BY <1>1, <1>5, <2>1 DEF Intact
<1>7. m \notin Ends(docs, q) + 1..Ends(docs, q + 1) - 1
  BY <1>4, <1>6 DEF Within
<1>8. PICK e \in Nat, g \in Nat : e = Ends(docs, q) /\ g = Ends(docs, q + 1)
  <2>1. Ends(docs, q) \in Nat /\ Ends(docs, q + 1) = Ends(docs, q) + Len(docs[q + 1])
    BY <1>0, NextDocument
  <2>2. docs[q + 1] \in Seq(Char)
    BY <1>0, <1>4, ElementOfSeq
  <2>. QED
    BY <2>1, <2>2
<1>9. m \in Nat
  <2>1. FlattenSeq(docs) \in Seq(Char)
    BY <1>0, FlattenType
  <2>. QED
    BY <2>1
<1>10. m = g
  BY <1>3, <1>7, <1>8, <1>9
<1>. QED
  BY <1>2, <1>4, <1>8, <1>10

\* What makes WholeDocuments inductive.
StreamInv == ParseInv /\ StreamConserved /\ WholeDocuments

LEMMA StreamInitInv == Init => StreamInv
<1> SUFFICES ASSUME Init PROVE StreamInv
  OBVIOUS
<1>1. WholeDocuments
  BY DEF Init, WholeDocuments, Intact
<1>. QED
  BY <1>1, ParseInitInv, StreamConservedStart DEF StreamInv

LEMMA StreamNextInv == StreamInv /\ [Next]_vars => StreamInv'
BY ParseNextInv, StreamConservedStep, WholeDocumentsStep DEF StreamInv

LEMMA StreamAlwaysInv == Spec => []StreamInv
<1>1. Init => StreamInv
  BY StreamInitInv
<1>2. StreamInv /\ [Next]_vars => StreamInv'
  BY StreamNextInv
<1>. QED
  BY <1>1, <1>2, PTL DEF Spec

(* parse() is never given a part of a document that has no empty line within *)
(* it, however the stream is cut and whatever is next to it: the last four   *)
(* characters, which is all that parse_cmptail() looks at, are those of the  *)
(* stream so far, and no such document looks ended before its end.           *)
THEOREM OnlyWholeDocuments == Spec => []WholeDocuments
<1>1. StreamInv => WholeDocuments
  BY DEF StreamInv
<1>. QED
  BY <1>1, StreamAlwaysInv, PTL
-----------------------------------------------------------------------------
(* Every step of a session is a step of parse_callback() or of the client,
   or leaves the buffer alone. *)
THEOREM SessionIsParseBuffer == SessionSpec => Spec
<1>1. SessionInit => Init
  BY DEF SessionInit
<1>2. [SessionNext]_allVars => [Next]_vars
  <2> SUFFICES ASSUME [SessionNext]_allVars PROVE Next \/ UNCHANGED vars
    OBVIOUS
  <2>1. ASSUME NEW n \in 1..Len(Stream), Writes(n) PROVE Next
    BY <2>1 DEF Writes, Next
  <2>2. CASE Leaves
    BY <2>2 DEF Leaves, Next
  <2>3. CASE Buffers \/ Load \/ LoadRest
    BY <2>3 DEF Buffers, Load, LoadRest, Next, Serve
  <2>4. CASE NotSequence \/ NotMode \/ EnterList \/ ItemRefused \/ Execute
    BY <2>4 DEF NotSequence, NotMode, EnterList, ItemRefused, Execute, AtPair, AtItem
  <2>5. CASE ListDone \/ MappingDone \/ Answer \/ AnswerLost
    BY <2>5 DEF ListDone, MappingDone, Answer, AnswerLost
  <2>6. CASE UNCHANGED allVars
    BY <2>6 DEF allVars
  <2> QED
    BY <2>1, <2>2, <2>3, <2>4, <2>5, <2>6 DEF SessionNext, Thread
<1> QED
  BY <1>1, <1>2, PTL DEF SessionSpec, Spec

(* BufferHolds, of a connection whose texts are executed and answered: reads
   and the terminating zero stay inside the buffer of parse_callback(). *)
THEOREM SessionBufferHolds == SessionSpec => []BufferHolds
BY SessionIsParseBuffer, BufferAlwaysHolds, PTL

(* ... and what the client sends is handed on in order and once, documents   *)
(* without empty lines in them whole, while directives are executed and      *)
(* answers written.                                                          *)
THEOREM SessionStreamHolds == SessionSpec => [](StreamConserved /\ WholeDocuments)
BY SessionIsParseBuffer, StreamAlwaysConserved, OnlyWholeDocuments, PTL
-----------------------------------------------------------------------------
(* AnswerTruthful. *)

Item == Subsystem \cup {"unknown", "scalar"}
Directive == Mode \X (Subsystem \cup {"all"})
Executed == Mode \X (Subsystem \cup {"all"}) \X (0..1)
Told(list) == [k \in DOMAIN list |-> <<list[k][1], list[k][2]>>]

(* One more from the rest to what is done.                                   *)
LEMMA MoveOne ==
  ASSUME NEW S, NEW a \in Seq(S), NEW b \in Seq(S), b # <<>>
  PROVE  /\ b[1] \in S /\ Tail(b) \in Seq(S) /\ Append(a, b[1]) \in Seq(S)
         /\ a \o b = Append(a, b[1]) \o Tail(b)
<1>1. Len(b) \in Nat /\ Len(b) # 0 /\ Len(a) \in Nat
  BY EmptySeq
<1>2. 1 \in 1..Len(b)
  BY <1>1
<1>3. b[1] \in S
  BY <1>2, ElementOfSeq
<1>4. Tail(b) \in Seq(S) /\ Len(Tail(b)) = Len(b) - 1 /\ \A i \in 1..Len(b) - 1 : Tail(b)[i] = b[i + 1]
  BY <1>1
<1>5. PICK c \in Seq(S), t \in Seq(S) : c = Append(a, b[1]) /\ t = Tail(b)
  BY <1>3, <1>4, AppendProperties
<1>6. Len(c) = Len(a) + 1 /\ c[Len(a) + 1] = b[1] /\ \A i \in 1..Len(a) : c[i] = a[i]
  BY <1>3, <1>5, AppendProperties
<1>7. a \o b \in Seq(S) /\ c \o t \in Seq(S) /\ Len(a \o b) = Len(a) + Len(b) /\ Len(c \o t) = Len(a) + Len(b)
  BY <1>1, <1>4, <1>5, <1>6, ConcatProperties
<1>8. ASSUME NEW i \in 1..Len(a) + Len(b)
      PROVE  (a \o b)[i] = (c \o t)[i]
  <2>1. CASE i \in 1..Len(a)
    BY <1>1, <1>6, <2>1
  <2>2. CASE i = Len(a) + 1
    BY <1>1, <1>6, <2>2
  <2>3. CASE i \in Len(a) + 2 .. Len(a) + Len(b)
    <3>1. (a \o b)[i] = b[i - Len(a)]
      BY <1>1, <2>3
    <3>2. (c \o t)[i] = t[i - (Len(a) + 1)]
      BY <1>1, <1>4, <1>5, <1>6, <2>3
    <3>3. i - (Len(a) + 1) \in 1..Len(b) - 1 /\ i - (Len(a) + 1) + 1 = i - Len(a)
      BY <1>1, <2>3
    <3>4. t[i - (Len(a) + 1)] = b[i - Len(a)]
      BY <1>4, <1>5, <3>3
    <3>. QED
      BY <3>1, <3>2, <3>4
  <2>4. PICK x \in Nat, y \in Nat : x = Len(a) /\ y = Len(b)
    BY <1>1
  <2>5. i \in 1..x + y
    BY <2>4
  <2>6. i \in 1..x \/ i = x + 1 \/ i \in x + 2 .. x + y
    BY <2>5
  <2>. QED
    BY <2>1, <2>2, <2>3, <2>4, <2>6
<1>9. a \o b = c \o t
  BY <1>7, <1>8, SeqEqual
<1>. QED
  BY <1>3, <1>4, <1>5, <1>9

(* A function of every member.                                               *)
LEMMA MapType ==
  ASSUME NEW S, NEW R, NEW h \in [S -> R], NEW s \in Seq(S)
  PROVE  [k \in DOMAIN s |-> h[s[k]]] \in Seq(R)
<1>1. Len(s) \in Nat /\ DOMAIN s = 1..Len(s) /\ \A k \in 1..Len(s) : s[k] \in S
  BY ElementOfSeq
<1>. QED
  BY <1>1

(* ... and one member more.                                                  *)
LEMMA MapAppend ==
  ASSUME NEW S, NEW R, NEW h \in [S -> R], NEW s \in Seq(S), NEW x \in S
  PROVE  [k \in DOMAIN Append(s, x) |-> h[Append(s, x)[k]]] = Append([k \in DOMAIN s |-> h[s[k]]], h[x])
<1>1. Len(s) \in Nat /\ DOMAIN s = 1..Len(s) /\ \A k \in 1..Len(s) : s[k] \in S
  BY ElementOfSeq
<1>2. PICK t \in Seq(S) : t = Append(s, x)
  BY AppendProperties
<1>3. /\ DOMAIN t = 1..Len(s) + 1 /\ t[Len(s) + 1] = x /\ \A k \in 1..Len(s) : t[k] = s[k]
  BY <1>1, <1>2, AppendProperties
<1> DEFINE f == [k \in DOMAIN s |-> h[s[k]]]
           g == [k \in DOMAIN t |-> h[t[k]]]
<1>4. f \in Seq(R) /\ Len(f) = Len(s) /\ \A k \in 1..Len(s) : f[k] = h[s[k]]
  BY <1>1
<1>5. \A k \in 1..Len(s) + 1 : t[k] \in S /\ g[k] = h[t[k]]
  BY <1>1, <1>3
<1>6. g \in Seq(R) /\ Len(g) = Len(s) + 1
  BY <1>1, <1>3, <1>5
<1>7. h[x] \in R
  OBVIOUS
<1> HIDE DEF f, g
<1>8. PICK c \in Seq(R) : /\ c = Append(f, h[x]) /\ Len(c) = Len(s) + 1 /\ c[Len(s) + 1] = h[x]
                          /\ \A k \in 1..Len(s) : c[k] = f[k]
  <2>1. PICK u \in Seq(R), y \in R : u = f /\ y = h[x] /\ Len(u) = Len(s)
    BY <1>4, <1>7
  <2>2. Append(u, y) \in Seq(R) /\ Len(Append(u, y)) = Len(u) + 1 /\ Append(u, y)[Len(u) + 1] = y
        /\ \A k \in 1..Len(u) : Append(u, y)[k] = u[k]
    BY AppendProperties
  <2>. QED
    BY <2>1, <2>2
<1>9. \A k \in 1..Len(s) + 1 : g[k] = c[k]
  BY <1>1, <1>3, <1>4, <1>5, <1>8
<1>10. g = c
  BY <1>6, <1>8, <1>9, SeqEqual
<1>. QED
  BY <1>2, <1>4, <1>8, <1>10 DEF f, g

(* What a list asks for, and one item more.                                  *)
LEMMA ListedAppend ==
  ASSUME NEW m \in Mode, NEW list \in Seq(Item), NEW i \in Item
  PROVE  /\ Listed(m, list) \in Seq(Directive)
         /\ Listed(m, Append(list, i)) =
              Listed(m, list) \o (IF i \in Subsystem THEN <<<<m, i>>>> ELSE <<>>)
<1> DEFINE h == [j \in Item |-> IF j \in Subsystem THEN <<<<m, j>>>> ELSE <<>>]
<1>1. h \in [Item -> Seq(Directive)]
  <2>1. \A j \in Subsystem : <<m, j>> \in Directive
    BY DEF Directive
  <2>. QED
    BY <2>1
<1>2. \A l \in Seq(Item) : Listed(m, l) = FlattenSeq([k \in DOMAIN l |-> h[l[k]]])
  <2>1. \A l \in Seq(Item) : \A k \in DOMAIN l : l[k] \in Item
    BY ElementOfSeq
  <2>2. \A l \in Seq(Item) : [k \in DOMAIN l |-> h[l[k]]] =
          [k \in DOMAIN l |-> IF l[k] \in Subsystem THEN <<<<m, l[k]>>>> ELSE <<>>]
    BY <2>1
  <2>. QED
    BY <2>2, Zenon DEF Listed
<1>3. h[i] = IF i \in Subsystem THEN <<<<m, i>>>> ELSE <<>>
  OBVIOUS
<1> HIDE DEF h
<1>4. PICK f \in Seq(Seq(Directive)) : f = [k \in DOMAIN list |-> h[list[k]]]
  <2>1. [k \in DOMAIN list |-> h[list[k]]] \in Seq(Seq(Directive))
    BY <1>1, MapType
  <2>. QED
    BY <2>1, Zenon
<1>5. [k \in DOMAIN Append(list, i) |-> h[Append(list, i)[k]]] = Append(f, h[i])
  BY <1>1, <1>4, MapAppend
<1>6. h[i] \in Seq(Directive) /\ Append(list, i) \in Seq(Item)
  BY <1>1, AppendProperties
<1>7. FlattenSeq(Append(f, h[i])) = FlattenSeq(f) \o h[i]
  BY <1>6, FlattenAppend
<1>8. Listed(m, Append(list, i)) = FlattenSeq(Append(f, h[i])) /\ Listed(m, list) = FlattenSeq(f)
  BY <1>2, <1>4, <1>5, <1>6
<1>. QED
  BY <1>3, <1>7, <1>8, FlattenType

(* What a pair asks for.                                                     *)
LEMMA WantedType == \A p \in Pair : Wanted(p) \in Seq(Directive)
<1> SUFFICES ASSUME NEW p \in Pair PROVE Wanted(p) \in Seq(Directive)
  OBVIOUS
<1>1. p.items # NULL => p.items \in Seq(Item)
  BY DEF Pair, Item
<1>2. CASE p.items = NULL \/ p.mode \notin Mode
  BY <1>2 DEF Wanted
<1>3. CASE p.items # NULL /\ p.mode \in Mode /\ p.mode = "PARSE_PRN" /\ p.items = <<>>
  <2>1. <<p.mode, "all">> \in Directive
    BY <1>3 DEF Directive
  <2>2. Wanted(p) = <<<<p.mode, "all">>>>
    BY <1>3 DEF Wanted
  <2>. QED
    BY <2>1, <2>2
<1>4. CASE p.items # NULL /\ p.mode \in Mode /\ ~ (p.mode = "PARSE_PRN" /\ p.items = <<>>)
  <2>1. Wanted(p) = Listed(p.mode, p.items)
    BY <1>4 DEF Wanted
  <2>2. PICK m \in Mode, l \in Seq(Item) : m = p.mode /\ l = p.items
    BY <1>1, <1>4
  <2>3. "scalar" \in Item
    BY DEF Item
  <2>4. Listed(m, l) \in Seq(Directive)
    BY <2>3, ListedAppend
  <2>. QED
    BY <2>1, <2>2, <2>4
<1>. QED
  BY <1>2, <1>3, <1>4

(* What a mapping asks for, and one pair more.                               *)
LEMMA AllWantedAppend ==
  ASSUME NEW list \in Seq(Pair), NEW p \in Pair
  PROVE  /\ AllWanted(list) \in Seq(Directive)
         /\ AllWanted(Append(list, p)) = AllWanted(list) \o Wanted(p)
<1> DEFINE h == [q \in Pair |-> Wanted(q)]
<1>1. h \in [Pair -> Seq(Directive)]
  BY WantedType
<1>2. \A l \in Seq(Pair) : AllWanted(l) = FlattenSeq([k \in DOMAIN l |-> h[l[k]]])
  <2>1. \A l \in Seq(Pair) : \A k \in DOMAIN l : l[k] \in Pair
    BY ElementOfSeq
  <2>2. \A l \in Seq(Pair) : [k \in DOMAIN l |-> h[l[k]]] = [k \in DOMAIN l |-> Wanted(l[k])]
    BY <2>1
  <2>. QED
    BY <2>2, Zenon DEF AllWanted
<1>3. h[p] = Wanted(p)
  OBVIOUS
<1> HIDE DEF h
<1>4. PICK f \in Seq(Seq(Directive)) : f = [k \in DOMAIN list |-> h[list[k]]]
  <2>1. [k \in DOMAIN list |-> h[list[k]]] \in Seq(Seq(Directive))
    BY <1>1, MapType
  <2>. QED
    BY <2>1, Zenon
<1>5. [k \in DOMAIN Append(list, p) |-> h[Append(list, p)[k]]] = Append(f, h[p])
  BY <1>1, <1>4, MapAppend
<1>6. h[p] \in Seq(Directive) /\ Append(list, p) \in Seq(Pair)
  BY <1>1, AppendProperties
<1>7. FlattenSeq(Append(f, h[p])) = FlattenSeq(f) \o h[p]
  BY <1>6, FlattenAppend
<1>8. AllWanted(Append(list, p)) = FlattenSeq(Append(f, h[p])) /\ AllWanted(list) = FlattenSeq(f)
  BY <1>2, <1>4, <1>5, <1>6
<1>. QED
  BY <1>3, <1>7, <1>8, FlattenType

(* Nothing is asked for by nothing.                                          *)
LEMMA NothingWanted == AllWanted(<<>>) = <<>> /\ \A m : Listed(m, <<>>) = <<>>
<1>1. [k \in DOMAIN <<>> |-> Wanted(<<>>[k])] = <<>>
  OBVIOUS
<1>2. \A m : [k \in DOMAIN <<>> |-> IF <<>>[k] \in Subsystem THEN <<<<m, <<>>[k]>>>> ELSE <<>>] = <<>>
  OBVIOUS
<1>. QED
  BY <1>1, <1>2, FlattenEmpty, Zenon DEF AllWanted, Listed

(* What was tried, and one directive more.                                   *)
LEMMA ToldAppend ==
  ASSUME NEW list \in Seq(Executed), NEW m \in Mode, NEW x \in Subsystem \cup {"all"}, NEW e \in 0..1
  PROVE  /\ Told(list) \in Seq(Directive)
         /\ Append(list, <<m, x, e>>) \in Seq(Executed)
         /\ Told(Append(list, <<m, x, e>>)) = Told(list) \o <<<<m, x>>>>
         /\ (\A k \in DOMAIN Append(list, <<m, x, e>>) : Append(list, <<m, x, e>>)[k][3] = 0)
              <=> e = 0 /\ \A k \in DOMAIN list : list[k][3] = 0
<1> DEFINE h == [d \in Executed |-> <<d[1], d[2]>>]
<1>1. h \in [Executed -> Directive]
  BY DEF Executed, Directive
<1>2. PICK y \in Executed : y = <<m, x, e>>
  BY DEF Executed
<1>3. h[y] = <<m, x>> /\ y[3] = e
  BY <1>2
<1>4. \A l \in Seq(Executed) : Told(l) = [k \in DOMAIN l |-> h[l[k]]]
  <2>1. \A l \in Seq(Executed) : \A k \in DOMAIN l : l[k] \in Executed
    BY ElementOfSeq
  <2>. QED
    BY <2>1 DEF Told
<1> HIDE DEF h
<1>5. PICK f \in Seq(Directive) : f = [k \in DOMAIN list |-> h[list[k]]]
  <2>1. [k \in DOMAIN list |-> h[list[k]]] \in Seq(Directive)
    BY <1>1, MapType
  <2>. QED
    BY <2>1, Zenon
<1>6. [k \in DOMAIN Append(list, y) |-> h[Append(list, y)[k]]] = Append(f, h[y])
  BY <1>1, <1>5, MapAppend
<1>7. Append(list, y) \in Seq(Executed) /\ h[y] \in Directive
  BY <1>1, AppendProperties
<1>8. Append(f, h[y]) = f \o <<h[y]>>
  BY <1>7
<1>9. Told(list) = f /\ Told(Append(list, y)) = f \o <<h[y]>>
  BY <1>4, <1>5, <1>6, <1>7, <1>8
<1>10. (\A k \in DOMAIN Append(list, y) : Append(list, y)[k][3] = 0)
         <=> y[3] = 0 /\ \A k \in DOMAIN list : list[k][3] = 0
  <2>1. Len(list) \in Nat /\ DOMAIN list = 1..Len(list) /\ DOMAIN Append(list, y) = 1..Len(list) + 1
    BY AppendProperties
  <2>2. Append(list, y)[Len(list) + 1] = y /\ \A k \in 1..Len(list) : Append(list, y)[k] = list[k]
    BY AppendProperties
  <2>. QED
    BY <2>1, <2>2
<1>. QED
  BY <1>2, <1>3, <1>7, <1>9, <1>10

(* A sequence with one more at the end.                                      *)
LEMMA AppendAt ==
  ASSUME NEW S, NEW s \in Seq(S), NEW x \in S
  PROVE  /\ DOMAIN Append(s, x) = DOMAIN s \cup {Len(s) + 1}
         /\ Append(s, x)[Len(s) + 1] = x
         /\ \A k \in DOMAIN s : Append(s, x)[k] = s[k]
<1>1. Len(s) \in Nat /\ DOMAIN s = 1..Len(s) /\ DOMAIN Append(s, x) = 1..Len(s) + 1
  BY AppendProperties
<1>2. Append(s, x)[Len(s) + 1] = x /\ \A k \in 1..Len(s) : Append(s, x)[k] = s[k]
  BY AppendProperties
<1>3. 1..Len(s) + 1 = 1..Len(s) \cup {Len(s) + 1}
  BY <1>1
<1>. QED
  BY <1>1, <1>2, <1>3

SessionTypeOK ==
  /\ step \in {"none", "pairs", "items", "emit", "killed"}
  /\ tree.pairs \in Seq(Pair) /\ pairs \in Seq(Pair) /\ items \in Seq(Item)
  /\ err_cnt \in Nat
  /\ did \in Seq(Executed)
  /\ step \in {"pairs", "items"} => tree.root = "mapping"

\* The errors so far: of directives, of the pairs that are done, and of the items.
ErrorsOf(done, before) ==
  err_cnt = 0 <=> /\ \A k \in DOMAIN did : did[k][3] = 0
                  /\ \A k \in DOMAIN done : InOrder(done[k])
                  /\ \A k \in DOMAIN before : before[k] \in Subsystem

\* parse_mapping() between two pairs, or at its end.
PairsTold ==
  step \in {"pairs", "emit"} /\ tree.root = "mapping" =>
    \E done \in Seq(Pair) :
      /\ tree.pairs = done \o pairs /\ (step = "emit" => pairs = <<>>)
      /\ Told(did) = AllWanted(done)
      /\ ErrorsOf(done, <<>>)

\* What the items that are done of a pair's list ask for.
ListDid(p, before) ==
  IF p.mode = "PARSE_PRN" /\ p.items = <<>> THEN <<<<"PARSE_PRN", "all">>>> ELSE Listed(p.mode, before)

\* The list of a pair, of which some items are done.
ItemsTold ==
  step = "items" =>
    \E done \in Seq(Pair), before \in Seq(Item) :
      /\ tree.pairs = done \o pairs /\ pairs # <<>>
      /\ pairs[1].items # NULL /\ pairs[1].mode \in Mode /\ pairs[1].items = before \o items
      /\ Told(did) = AllWanted(done) \o ListDid(pairs[1], before)
      /\ ErrorsOf(done, before)

ToldInv == SessionTypeOK /\ PairsTold /\ ItemsTold

(* What is loaded is one of the documents, or several as one.                *)
LEMMA LoadedTyped ==
  ASSUME docs \in Script, NEW text, NEW n, NEW s \in Loads(text, n)
  PROVE  Merged(s).pairs \in Seq(Pair) /\ Merged(s).root \in {"mapping", "other", "invalid"}
<1>1. docs \in Seq(Seq(Char)) /\ Len(docs) \in Nat /\ DOMAIN docs = 1..Len(docs)
  BY ScriptsAreDocuments
<1>2. PICK a \in DOMAIN docs, b \in DOMAIN docs : s = SubSeq(docs, a, b) /\ s # <<>>
  BY DEF Loads
<1>3. \A k \in a..b : docs[k] \in DOMAIN Tree /\ docs[k] \in Seq(Char)
  <2>1. \A k \in a..b : k \in DOMAIN docs
    BY <1>1, <1>2
  <2>2. \A k \in DOMAIN docs : docs[k] \in DOMAIN Tree
    BY ScriptsHaveTrees DEF Range
  <2>. QED
    BY <1>1, <2>1, <2>2, ElementOfSeq
<1>4. s \in Seq(DOMAIN Tree)
  BY <1>1, <1>2, <1>3, SubSeqProperties
<1>5. \A k \in DOMAIN s : /\ Tree[s[k]].pairs \in Seq(Pair)
                          /\ Tree[s[k]].root \in {"mapping", "other", "invalid"}
  <2>1. \A k \in DOMAIN s : s[k] \in DOMAIN Tree
    BY <1>4, ElementOfSeq
  <2>2. \A x \in DOMAIN Tree : Tree[x] \in Range(Tree)
    BY DEF Range
  <2>. QED
    BY <2>1, <2>2, TreesOfDocuments
<1>6. CASE Len(s) = 1
  <2>1. 1 \in DOMAIN s
    BY <1>4, <1>6
  <2>. QED
    BY <1>5, <1>6, <2>1 DEF Merged
<1>7. CASE Len(s) # 1 /\ \A k \in DOMAIN s : Tree[s[k]].root = "mapping"
  <2>1. DOMAIN s = 1..Len(s) /\ Len(s) \in Nat
    BY <1>4
  <2>2. [k \in DOMAIN s |-> Tree[s[k]].pairs] \in Seq(Seq(Pair))
    BY <1>5, <2>1
  <2>3. FlattenSeq([k \in DOMAIN s |-> Tree[s[k]].pairs]) \in Seq(Pair)
    BY <2>2, FlattenType, Zenon
  <2>4. Merged(s) = [root |-> "mapping", pairs |-> FlattenSeq([k \in DOMAIN s |-> Tree[s[k]].pairs])]
    BY <1>7, Zenon DEF Merged
  <2> HIDE DEF Merged
  <2>. QED
    BY <2>3, <2>4
<1>8. CASE Len(s) # 1 /\ ~ \A k \in DOMAIN s : Tree[s[k]].root = "mapping"
  <2>1. Merged(s) = Invalid
    BY <1>8, Zenon DEF Merged
  <2>. QED
    BY <2>1 DEF Invalid
<1>. QED
  BY <1>6, <1>7, <1>8

(* A text that is loaded has nothing done.                                   *)
LEMMA BeginTold ==
  ASSUME NEW t, t.pairs \in Seq(Pair), t.root \in {"mapping", "other", "invalid"}, Begin(t)
  PROVE  ToldInv'
<1>1. /\ tree' = t /\ pairs' = t.pairs /\ items' = <<>> /\ did' = <<>>
      /\ err_cnt' = (IF t.root = "invalid" THEN 1 ELSE 0)
      /\ step' = IF t.root = "mapping" THEN "pairs" ELSE IF t.root = "invalid" THEN "emit" ELSE "none"
  BY DEF Begin
<1>2. <<>> \in Seq(Executed) /\ <<>> \in Seq(Item) /\ <<>> \in Seq(Pair)
  OBVIOUS
<1>3. SessionTypeOK'
  BY <1>1, <1>2 DEF SessionTypeOK
<1>4. ItemsTold'
  BY <1>1 DEF ItemsTold
<1>5. PairsTold'
  <2>1. CASE t.root = "mapping"
    <3>1. t.pairs = <<>> \o t.pairs
      BY ConcatEmptySeq
    <3>2. Told(<<>>) = AllWanted(<<>>)
      BY NothingWanted DEF Told
    <3>3. err_cnt' = 0 /\ step' = "pairs"
      BY <1>1, <2>1
    <3>4. ErrorsOf(<<>>, <<>>)'
      BY <1>1, <3>3 DEF ErrorsOf
    <3>5. Told(did)' = AllWanted(<<>>)
      BY <1>1, <3>2
    <3>6. tree'.pairs = <<>> \o pairs'
      BY <1>1, <3>1
    <3>. QED
      BY <1>2, <3>3, <3>4, <3>5, <3>6 DEF PairsTold
  <2>2. CASE t.root # "mapping"
    BY <1>1, <2>2 DEF PairsTold
  <2>. QED
    BY <2>1, <2>2
<1>. QED
  BY <1>3, <1>4, <1>5 DEF ToldInv

(* Directives, errors and what remains stay as they are.                     *)
LEMMA LocalsKept ==
  ASSUME ToldInv, UNCHANGED <<step, locals>>
  PROVE  ToldInv'
BY DEF locals, ToldInv, SessionTypeOK, PairsTold, ItemsTold, ErrorsOf

(* A pair that is refused counts as an error and asks for nothing.           *)
LEMMA PairRefused ==
  ASSUME ToldInv, NotSequence \/ NotMode
  PROVE  ToldInv'
<1>1. /\ step = "pairs" /\ pairs # <<>> /\ err_cnt' = err_cnt + 1 /\ pairs' = Tail(pairs)
      /\ pairs[1].items = NULL \/ pairs[1].mode \notin Mode
      /\ UNCHANGED <<step, tree, items, did>>
  BY DEF NotSequence, NotMode, AtPair, Errs, NextPair
<1>2. /\ tree.pairs \in Seq(Pair) /\ pairs \in Seq(Pair) /\ err_cnt \in Nat /\ tree.root = "mapping"
      /\ step' = "pairs"
  BY <1>1 DEF ToldInv, SessionTypeOK
<1>3. PICK d \in Seq(Pair) : /\ tree.pairs = d \o pairs /\ Told(did) = AllWanted(d)
                             /\ ErrorsOf(d, <<>>)
  BY <1>1, <1>2 DEF ToldInv, PairsTold
<1>4. PICK p \in Pair, e \in Seq(Pair) : p = pairs[1] /\ e = Append(d, pairs[1])
  BY <1>1, <1>2, MoveOne
<1>5. tree.pairs = e \o Tail(pairs) /\ Tail(pairs) \in Seq(Pair)
  BY <1>1, <1>2, <1>3, <1>4, MoveOne
<1>6. Told(did) = AllWanted(e)
  <2>1. Wanted(p) = <<>>
    BY <1>1, <1>4 DEF Wanted
  <2>2. AllWanted(e) = AllWanted(d) \o <<>> /\ AllWanted(d) \in Seq(Directive)
    BY <1>4, <2>1, AllWantedAppend
  <2>3. AllWanted(d) \o <<>> = AllWanted(d)
    BY <2>2, ConcatEmptySeq
  <2>. QED
    BY <1>3, <2>2, <2>3
<1>7. ErrorsOf(e, <<>>)'
  <2>1. err_cnt' # 0
    BY <1>1, <1>2
  <2>2. ~ InOrder(p)
    BY <1>1, <1>4 DEF InOrder
  <2>3. Len(d) + 1 \in DOMAIN e /\ e[Len(d) + 1] = p
    BY <1>4, AppendAt
  <2>4. ~ \A k \in DOMAIN e : InOrder(e[k])
    BY <2>2, <2>3
  <2>. QED
    BY <2>1, <2>4 DEF ErrorsOf
<1>8. SessionTypeOK'
  BY <1>1, <1>2, <1>5 DEF ToldInv, SessionTypeOK
<1>9. ItemsTold'
  BY <1>2 DEF ItemsTold
<1>10. PairsTold'
  BY <1>1, <1>2, <1>5, <1>6, <1>7 DEF PairsTold
<1>. QED
  BY <1>8, <1>9, <1>10 DEF ToldInv

(* A list that is entered has nothing done, but for an empty one to print.   *)
LEMMA EnterTold ==
  ASSUME ToldInv, EnterList
  PROVE  ToldInv'
<1>1. /\ step = "pairs" /\ pairs # <<>> /\ pairs[1].items # NULL /\ pairs[1].mode \in Mode
      /\ items' = pairs[1].items /\ step' = "items"
      /\ did' = (IF EmitsAll THEN Append(did, <<"PARSE_PRN", "all", 0>>) ELSE did)
      /\ UNCHANGED <<tree, pairs, err_cnt>>
  BY DEF EnterList, AtPair
<1>2. /\ tree.pairs \in Seq(Pair) /\ pairs \in Seq(Pair) /\ err_cnt \in Nat /\ tree.root = "mapping"
      /\ did \in Seq(Executed)
  BY <1>1 DEF ToldInv, SessionTypeOK
<1>3. PICK d \in Seq(Pair) : /\ tree.pairs = d \o pairs /\ Told(did) = AllWanted(d)
                             /\ ErrorsOf(d, <<>>)
  BY <1>1, <1>2 DEF ToldInv, PairsTold
<1>4. PICK p \in Pair : p = pairs[1]
  BY <1>1, <1>2, MoveOne
<1>5. p.items \in Seq(Item) /\ p.items = <<>> \o p.items
  BY <1>1, <1>4, ConcatEmptySeq DEF Pair, Item
<1>6. /\ did' \in Seq(Executed)
      /\ Told(did') = AllWanted(d) \o ListDid(p, <<>>)
      /\ (\A k \in DOMAIN (did') : did'[k][3] = 0) <=> (\A k \in DOMAIN did : did[k][3] = 0)
  <2>1. CASE EmitsAll
    <3>1. p.mode = "PARSE_PRN" /\ p.items = <<>> /\ did' = Append(did, <<"PARSE_PRN", "all", 0>>)
      BY <1>1, <1>4, <2>1 DEF EmitsAll
    <3>2. "PARSE_PRN" \in Mode /\ "all" \in Subsystem \cup {"all"} /\ 0 \in 0..1
      BY DEF Mode
    <3>3. PICK l \in Seq(Executed) : l = did
      BY <1>2
    <3>4. PICK m \in Mode, x \in Subsystem \cup {"all"}, z \in 0..1 : m = "PARSE_PRN" /\ x = "all" /\ z = 0
      BY <3>2
    <3>5. /\ Append(l, <<m, x, z>>) \in Seq(Executed)
          /\ Told(Append(l, <<m, x, z>>)) = Told(l) \o <<<<m, x>>>>
          /\ (\A k \in DOMAIN Append(l, <<m, x, z>>) : Append(l, <<m, x, z>>)[k][3] = 0)
               <=> z = 0 /\ \A k \in DOMAIN l : l[k][3] = 0
      BY ToldAppend
    <3>6. ListDid(p, <<>>) = <<<<"PARSE_PRN", "all">>>>
      BY <3>1 DEF ListDid
    <3>. QED
      BY <1>3, <3>1, <3>3, <3>4, <3>5, <3>6
  <2>2. CASE ~ EmitsAll
    <3>1. ListDid(p, <<>>) = <<>>
      BY <1>4, <2>2, NothingWanted DEF ListDid, EmitsAll
    <3>2. AllWanted(d) \o <<>> = AllWanted(d)
      BY <1>4, AllWantedAppend, ConcatEmptySeq
    <3>. QED
      BY <1>1, <1>2, <1>3, <2>2, <3>1, <3>2
  <2>. QED
    BY <2>1, <2>2
<1>7. ErrorsOf(d, <<>>)'
  BY <1>1, <1>3, <1>6 DEF ErrorsOf
<1>8. SessionTypeOK'
  BY <1>1, <1>2, <1>4, <1>5, <1>6 DEF SessionTypeOK
<1>9. PairsTold'
  BY <1>1 DEF PairsTold
<1>10. ItemsTold'
  <2>1. <<>> \in Seq(Item)
    OBVIOUS
  <2>2. Told(did)' = AllWanted(d) \o ListDid(pairs[1], <<>>)'
    BY <1>1, <1>4, <1>6 DEF ListDid
  <2>. QED
    BY <1>1, <1>3, <1>4, <1>5, <1>7, <2>1, <2>2 DEF ItemsTold, ListDid
<1>. QED
  BY <1>8, <1>9, <1>10 DEF ToldInv

(* An item that is tried is a directive done, one that is refused an error.  *)
LEMMA ItemTold ==
  ASSUME ToldInv, ItemRefused \/ Execute
  PROVE  ToldInv'
<1>1. /\ step = "items" /\ items # <<>> /\ items' = Tail(items)
      /\ UNCHANGED <<step, tree, pairs>>
  BY DEF ItemRefused, Execute, AtItem
<1>2. /\ tree.pairs \in Seq(Pair) /\ pairs \in Seq(Pair) /\ err_cnt \in Nat /\ tree.root = "mapping"
      /\ did \in Seq(Executed) /\ items \in Seq(Item)
  BY <1>1 DEF ToldInv, SessionTypeOK
<1>3. PICK d \in Seq(Pair), b \in Seq(Item) :
        /\ tree.pairs = d \o pairs /\ pairs # <<>>
        /\ pairs[1].items # NULL /\ pairs[1].mode \in Mode /\ pairs[1].items = b \o items
        /\ Told(did) = AllWanted(d) \o ListDid(pairs[1], b)
        /\ ErrorsOf(d, b)
  BY <1>1 DEF ToldInv, ItemsTold
<1>4. PICK p \in Pair, i \in Item, c \in Seq(Item) :
        p = pairs[1] /\ i = items[1] /\ c = Append(b, i)
  <2>1. pairs[1] \in Pair
    BY <1>2, <1>3, MoveOne
  <2>2. items[1] \in Item /\ Append(b, items[1]) \in Seq(Item)
    BY <1>1, <1>2, MoveOne
  <2>. QED
    BY <2>1, <2>2
<1>5. Tail(items) \in Seq(Item) /\ p.items = c \o Tail(items)
  <2>1. PICK q \in Seq(Item) : q = items /\ q # <<>>
    BY <1>1, <1>2
  <2>2. Tail(q) \in Seq(Item) /\ b \o q = Append(b, q[1]) \o Tail(q)
    BY <2>1, MoveOne
  <2>. QED
    BY <1>3, <1>4, <2>1, <2>2
<1>6. p.items # <<>>
  <2>1. Len(b \o items) = Len(b) + Len(items) /\ Len(b) \in Nat /\ Len(items) \in Nat /\ Len(items) # 0
    BY <1>1, <1>2, ConcatProperties, EmptySeq
  <2>2. Len(p.items) # 0
    BY <1>3, <1>4, <2>1
  <2>. QED
    BY <2>2
<1>7. PICK m \in Mode : m = p.mode
  BY <1>3, <1>4
<1>8. ListDid(p, b) = Listed(m, b) /\ ListDid(p, c) = Listed(m, c)
  BY <1>6, <1>7 DEF ListDid
<1>9. PICK w \in Seq(Directive), v \in Seq(Directive) : w = AllWanted(d) /\ v = Listed(m, b)
  BY <1>4, AllWantedAppend, ListedAppend
<1>10. (\A k \in DOMAIN c : c[k] \in Subsystem) <=> i \in Subsystem /\ \A k \in DOMAIN b : b[k] \in Subsystem
  <2>1. DOMAIN c = DOMAIN b \cup {Len(b) + 1} /\ c[Len(b) + 1] = i /\ \A k \in DOMAIN b : c[k] = b[k]
    BY <1>4, AppendAt
  <2>. QED
    BY <2>1
<1>11. /\ did' \in Seq(Executed) /\ err_cnt' \in Nat
       /\ Told(did') = w \o Listed(m, c)
       /\ ErrorsOf(d, c)'
  <2>1. CASE ItemRefused
    <3>1. i \notin Subsystem /\ err_cnt' = err_cnt + 1 /\ did' = did
      BY <1>4, <2>1 DEF ItemRefused, Errs
    <3>2. Listed(m, c) = v
      <4>1. Listed(m, c) = v \o <<>>
        BY <1>4, <1>9, <3>1, ListedAppend
      <4>. QED
        BY <4>1, ConcatEmptySeq
    <3>3. err_cnt' # 0 /\ ~ \A k \in DOMAIN c : c[k] \in Subsystem
      BY <1>2, <1>10, <3>1
    <3>4. ErrorsOf(d, c)'
      BY <3>3 DEF ErrorsOf
    <3>. QED
      BY <1>2, <1>3, <1>4, <1>8, <1>9, <3>1, <3>2, <3>4
  <2>2. CASE Execute
    <3>1. PICK e \in 0..1 : err_cnt' = err_cnt + e /\ did' = Append(did, <<pairs[1].mode, items[1], e>>)
      BY <2>2 DEF Execute, Errs
    <3>2. i \in Subsystem
      BY <1>4, <2>2 DEF Execute
    <3>3. PICK l \in Seq(Executed), x \in Subsystem \cup {"all"} : l = did /\ x = i
      BY <1>2, <3>2
    <3>4. /\ Append(l, <<m, x, e>>) \in Seq(Executed)
          /\ Told(Append(l, <<m, x, e>>)) = Told(l) \o <<<<m, x>>>>
          /\ (\A k \in DOMAIN Append(l, <<m, x, e>>) : Append(l, <<m, x, e>>)[k][3] = 0)
               <=> e = 0 /\ \A k \in DOMAIN l : l[k][3] = 0
      BY ToldAppend
    <3>5. did' = Append(l, <<m, x, e>>)
      BY <1>4, <1>7, <3>1, <3>3
    <3>6. Listed(m, c) = v \o <<<<m, x>>>>
      BY <1>4, <1>9, <3>2, <3>3, ListedAppend
    <3>7. Told(did') = w \o Listed(m, c)
      <4>1. <<<<m, x>>>> \in Seq(Directive)
        <5>1. <<m, x>> \in Directive
          BY DEF Directive
        <5>. QED
          BY <5>1
      <4>2. w \o v \o <<<<m, x>>>> = w \o (v \o <<<<m, x>>>>)
        BY <4>1, ConcatAssociative
      <4>3. Told(l) = w \o v
        BY <1>3, <1>4, <1>8, <1>9, <3>3
      <4>. QED
        BY <3>4, <3>5, <3>6, <4>2, <4>3
    <3>8. err_cnt' = 0 <=> err_cnt = 0 /\ e = 0
      BY <1>2, <3>1
    <3>9. (\A k \in DOMAIN (did') : did'[k][3] = 0) <=> e = 0 /\ \A k \in DOMAIN did : did[k][3] = 0
      BY <3>3, <3>4, <3>5
    <3>10. ErrorsOf(d, c)'
      BY <1>3, <1>10, <3>2, <3>8, <3>9 DEF ErrorsOf
    <3>11. did' \in Seq(Executed) /\ err_cnt' \in Nat
      <4>1. err_cnt + e \in Nat
        BY <1>2
      <4>. QED
        BY <3>1, <3>4, <3>5, <4>1
    <3>. QED
      BY <3>7, <3>10, <3>11
  <2>. QED
    BY <2>1, <2>2
<1>12. SessionTypeOK'
  BY <1>1, <1>2, <1>5, <1>11 DEF SessionTypeOK
<1>13. PairsTold'
  BY <1>1 DEF PairsTold
<1>14. ItemsTold'
  <2>1. pairs'[1] = p /\ items' = Tail(items)
    BY <1>1, <1>4
  <2>2. Told(did)' = AllWanted(d) \o ListDid(pairs[1], c)'
    BY <1>8, <1>9, <1>11, <2>1 DEF ListDid
  <2>. QED
    BY <1>1, <1>3, <1>4, <1>5, <1>11, <2>1, <2>2 DEF ItemsTold, ListDid
<1>. QED
  BY <1>12, <1>13, <1>14 DEF ToldInv

(* A list that is done is a pair done.                                       *)
LEMMA ListTold ==
  ASSUME ToldInv, ListDone
  PROVE  ToldInv'
<1>1. /\ step = "items" /\ items = <<>> /\ pairs' = Tail(pairs) /\ step' = "pairs"
      /\ UNCHANGED <<tree, items, err_cnt, did>>
  BY DEF ListDone, NextPair
<1>2. /\ tree.pairs \in Seq(Pair) /\ pairs \in Seq(Pair) /\ err_cnt \in Nat /\ tree.root = "mapping"
      /\ did \in Seq(Executed)
  BY <1>1 DEF ToldInv, SessionTypeOK
<1>3. PICK d \in Seq(Pair), b \in Seq(Item) :
        /\ tree.pairs = d \o pairs /\ pairs # <<>>
        /\ pairs[1].items # NULL /\ pairs[1].mode \in Mode /\ pairs[1].items = b \o items
        /\ Told(did) = AllWanted(d) \o ListDid(pairs[1], b)
        /\ ErrorsOf(d, b)
  BY <1>1 DEF ToldInv, ItemsTold
<1>4. PICK p \in Pair, e \in Seq(Pair) : p = pairs[1] /\ e = Append(d, pairs[1])
  <2>1. pairs[1] \in Pair /\ Append(d, pairs[1]) \in Seq(Pair)
    BY <1>2, <1>3, MoveOne
  <2>. QED
    BY <2>1
<1>5. tree.pairs = e \o Tail(pairs) /\ Tail(pairs) \in Seq(Pair)
  <2>1. PICK q \in Seq(Pair) : q = pairs /\ q # <<>>
    BY <1>2, <1>3
  <2>2. Tail(q) \in Seq(Pair) /\ d \o q = Append(d, q[1]) \o Tail(q)
    BY <2>1, MoveOne
  <2>. QED
    BY <1>3, <1>4, <2>1, <2>2
<1>6. p.items = b /\ p.items # NULL /\ p.mode \in Mode
  BY <1>1, <1>3, <1>4, ConcatEmptySeq
<1>7. ListDid(p, b) = Wanted(p)
  BY <1>6 DEF ListDid, Wanted
<1>8. Told(did) = AllWanted(e)
  BY <1>3, <1>4, <1>7, AllWantedAppend
<1>9. InOrder(p) <=> \A k \in DOMAIN b : b[k] \in Subsystem
  BY <1>6 DEF InOrder, Range
<1>10. (\A k \in DOMAIN e : InOrder(e[k])) <=> InOrder(p) /\ \A k \in DOMAIN d : InOrder(d[k])
  <2>1. DOMAIN e = DOMAIN d \cup {Len(d) + 1} /\ e[Len(d) + 1] = p /\ \A k \in DOMAIN d : e[k] = d[k]
    BY <1>4, AppendAt
  <2>. QED
    BY <2>1
<1>11. ErrorsOf(e, <<>>)'
  BY <1>1, <1>3, <1>9, <1>10 DEF ErrorsOf
<1>12. SessionTypeOK'
  BY <1>1, <1>2, <1>5 DEF ToldInv, SessionTypeOK
<1>13. ItemsTold'
  BY <1>1 DEF ItemsTold
<1>14. PairsTold'
  BY <1>1, <1>5, <1>8, <1>11 DEF PairsTold
<1>. QED
  BY <1>12, <1>13, <1>14 DEF ToldInv

(* The end of parse_mapping(): every pair is done.                           *)
LEMMA MappingTold ==
  ASSUME ToldInv, MappingDone
  PROVE  ToldInv'
<1>1. step = "pairs" /\ pairs = <<>> /\ step' = "emit" /\ UNCHANGED <<tree, pairs, items, err_cnt, did>>
  BY DEF MappingDone, locals
<1>2. SessionTypeOK' /\ ItemsTold'
  BY <1>1 DEF ToldInv, SessionTypeOK, ItemsTold
<1>3. PairsTold'
  BY <1>1 DEF ToldInv, PairsTold, ErrorsOf
<1>. QED
  BY <1>2, <1>3 DEF ToldInv

(* The answer is sent, or nobody is there any more: parse() returns.         *)
LEMMA AnswerTold ==
  ASSUME ToldInv, Answer \/ AnswerLost
  PROVE  ToldInv'
BY DEF Answer, AnswerLost, locals, ToldInv, SessionTypeOK, ItemsTold, PairsTold

(* Every step of the client, of parse_callback() and of parse().             *)
LEMMA ToldStep ==
  ASSUME ParseInv, ToldInv, [SessionNext]_allVars
  PROVE  ToldInv'
<1>0. docs \in Script
  BY DEF ParseInv, ParseTypeOK
<1>1. ASSUME NEW n, Writes(n)
      PROVE  ToldInv'
  BY <1>1, LocalsKept DEF Writes
<1>2. CASE Leaves \/ Buffers \/ UNCHANGED allVars
  BY <1>2, LocalsKept DEF Leaves, Buffers, allVars, sessionVars
<1>3. CASE Load
  <2>1. PICK s \in Loads(buf, BufferFrom) : Begin(Merged(s))
    BY <1>3 DEF Load
  <2>2. Merged(s).pairs \in Seq(Pair) /\ Merged(s).root \in {"mapping", "other", "invalid"}
    BY <1>0, LoadedTyped
  <2>. QED
    BY <2>1, <2>2, BeginTold
<1>4. CASE LoadRest
  <2>1. PICK t \in Range(Tree) \cup {Invalid} : Begin(t)
    BY <1>4 DEF LoadRest
  <2>2. t.pairs \in Seq(Pair) /\ t.root \in {"mapping", "other", "invalid"}
    <3>1. Invalid.pairs \in Seq(Pair) /\ Invalid.root = "invalid"
      BY DEF Invalid
    <3>. QED
      BY <3>1, TreesOfDocuments
  <2>. QED
    BY <2>1, <2>2, BeginTold
<1>. QED
  BY <1>1, <1>2, <1>3, <1>4, PairRefused, EnterTold, ItemTold, ListTold, MappingTold, AnswerTold
     DEF SessionNext, Thread

(* parse() starts with nothing to tell.                                      *)
LEMMA ToldStart == SessionInit => ToldInv
<1> SUFFICES ASSUME SessionInit PROVE ToldInv
  OBVIOUS
<1>1. step = "none" /\ tree = Invalid /\ pairs = <<>> /\ items = <<>> /\ err_cnt = 0 /\ did = <<>>
  BY DEF SessionInit
<1>. QED
  BY <1>1 DEF ToldInv, SessionTypeOK, PairsTold, ItemsTold, Invalid

(* When the answer is written, all pairs are done.                           *)
LEMMA ToldTruthful == ToldInv => AnswerTruthful
<1> SUFFICES ASSUME ToldInv, step = "emit", tree.root = "mapping"
             PROVE  /\ Told(did) = AllWanted(tree.pairs)
                    /\ err_cnt = 0 <=>
                         /\ \A k \in DOMAIN did : did[k][3] = 0
                         /\ \A k \in DOMAIN tree.pairs : InOrder(tree.pairs[k])
  BY Zenon DEF AnswerTruthful, Told
<1>1. PICK d \in Seq(Pair) : /\ tree.pairs = d \o pairs /\ pairs = <<>>
                             /\ Told(did) = AllWanted(d)
                             /\ ErrorsOf(d, <<>>)
  BY DEF ToldInv, PairsTold
<1>2. tree.pairs = d
  BY <1>1, ConcatEmptySeq
<1>3. \A k \in DOMAIN <<>> : <<>>[k] \in Subsystem
  OBVIOUS
<1>. QED
  BY <1>1, <1>2, <1>3 DEF ErrorsOf

(* "errors: 0" is the truth: every directive of the text is one that the     *)
(* program knows, and was tried once, in its place, without an error; and    *)
(* whatever fails keeps none of the others from being tried.                 *)
THEOREM AnswersAlwaysTruthful == SessionSpec => []AnswerTruthful
<1>1. SessionInit => ToldInv
  BY ToldStart
<1>2. ParseInv /\ ToldInv /\ [SessionNext]_allVars => ToldInv'
  BY ToldStep
<1>3. ToldInv => AnswerTruthful
  BY ToldTruthful
<1>4. SessionSpec => []ParseInv
  BY SessionIsParseBuffer, ParseSafe, PTL
<1>. QED
  BY <1>1, <1>2, <1>3, <1>4, PTL DEF SessionSpec
-----------------------------------------------------------------------------
(* WaitingClientServed. *)

(* A document is not empty: it has an end.                                   *)
LEMMA DocumentNotEmpty ==
  ASSUME NEW d \in Script, NEW k \in DOMAIN d
  PROVE  d[k] \in Seq(Char) /\ Len(d[k]) \in Nat /\ Len(d[k]) > 0
<1>1. d \in Seq(Seq(Char))
  BY ScriptsAreDocuments
<1>2. PICK x \in Seq(Char) : x = d[k]
  BY <1>1, ElementOfSeq
<1>3. Complete(x)
  BY <1>2, DocumentsEnd
<1>4. Len(x) \in Nat /\ Len(x) >= 2
  BY <1>3, CompleteNotEmpty
<1>. QED
  BY <1>2, <1>4

(* Documents end one after the other.                                        *)
LEMMA EndsIncrease ==
  ASSUME NEW d \in Script, NEW i \in 0..Len(d), NEW j \in 0..Len(d), i < j
  PROVE  Ends(d, i) < Ends(d, j)
<1>1. d \in Seq(Seq(Char)) /\ Len(d) \in Nat /\ DOMAIN d = 1..Len(d)
  BY ScriptsAreDocuments
<1>2. ASSUME NEW k \in 0..Len(d) - 1
      PROVE  Ends(d, k) \in Nat /\ Ends(d, k + 1) \in Nat /\ Ends(d, k) < Ends(d, k + 1)
  <2>1. k + 1 \in DOMAIN d
    BY <1>1
  <2>2. Len(d[k + 1]) \in Nat /\ Len(d[k + 1]) > 0
    BY <2>1, DocumentNotEmpty
  <2>3. Ends(d, k) \in Nat /\ Ends(d, k + 1) = Ends(d, k) + Len(d[k + 1])
    BY <1>1, NextDocument
  <2>. QED
    BY <2>2, <2>3
<1> DEFINE T == {n \in Nat : i + n + 1 <= Len(d) => Ends(d, i) < Ends(d, i + n + 1)}
<1>3. 0 \in T
  <2>1. i + 1 <= Len(d) => i \in 0..Len(d) - 1
    BY <1>1
  <2>. QED
    BY <1>1, <1>2, <2>1
<1>4. ASSUME NEW n \in Nat, n \in T
      PROVE  n + 1 \in T
  <2> SUFFICES ASSUME i + (n + 1) + 1 <= Len(d)
               PROVE  Ends(d, i) < Ends(d, i + (n + 1) + 1)
    OBVIOUS
  <2>1. /\ i + n + 1 \in 0..Len(d) - 1 /\ i \in 0..Len(d) - 1 /\ i + (n + 1) + 1 = (i + n + 1) + 1
        /\ i + n + 1 <= Len(d)
    BY <1>1
  <2>2. Ends(d, i) < Ends(d, i + n + 1)
    BY <1>4, <2>1
  <2>3. PICK a \in Nat, b \in Nat, c \in Nat :
          a = Ends(d, i) /\ b = Ends(d, i + n + 1) /\ c = Ends(d, (i + n + 1) + 1) /\ b < c
    BY <1>2, <2>1
  <2>4. a < c
    BY <2>2, <2>3
  <2>. QED
    BY <2>1, <2>3, <2>4
<1> HIDE DEF T
<1>5. Nat \subseteq T
  BY <1>3, <1>4, NatSetInduction
<1>6. j - i - 1 \in Nat /\ i + (j - i - 1) + 1 = j /\ j <= Len(d)
  BY <1>1
<1>7. j - i - 1 \in T
  BY <1>5, <1>6
<1>. QED
  BY <1>6, <1>7 DEF T

(* Every document ends at some place.                                        *)
LEMMA EndsTyped ==
  ASSUME NEW d \in Script, NEW k \in 0..Len(d)
  PROVE  Ends(d, k) \in Nat
<1>1. d \in Seq(Seq(Char))
  BY ScriptsAreDocuments
<1>2. SubSeq(d, 1, k) \in Seq(Seq(Char))
  BY <1>1, CutInTwo, Zenon
<1>. QED
  BY <1>2, FlattenType DEF Ends

(* One document put together is that document.                               *)
LEMMA FlattenOne ==
  ASSUME NEW x \in Seq(Char)
  PROVE  FlattenSeq(<<x>>) = x
<1>1. <<>> \in Seq(Seq(Char)) /\ <<x>> = Append(<<>>, x)
  OBVIOUS
<1>2. FlattenSeq(Append(<<>>, x)) = FlattenSeq(<<>>) \o x
  BY <1>1, FlattenAppend
<1>3. <<>> \o x = x
  BY ConcatEmptySeq
<1>. QED
  BY <1>1, <1>2, <1>3, FlattenEmpty

(* What yaml_parser_load() has seen are documents of the stream.             *)
LEMMA LoadedDocuments ==
  ASSUME docs \in Script, NEW text, NEW n, NEW s \in Loads(text, n)
  PROVE  /\ s \in Seq(Seq(Char)) /\ s # <<>>
         /\ \A k \in DOMAIN s : \E q \in DOMAIN docs : s[k] = docs[q]
<1>1. docs \in Seq(Seq(Char)) /\ Len(docs) \in Nat /\ DOMAIN docs = 1..Len(docs)
  BY ScriptsAreDocuments
<1>2. PICK a \in DOMAIN docs, b \in DOMAIN docs : s = SubSeq(docs, a, b) /\ s # <<>>
  BY DEF Loads
<1>3. a \in Int /\ b \in Int /\ \A k \in a..b : k \in DOMAIN docs
  BY <1>1, <1>2
<1>4. \A k \in a..b : docs[k] \in Seq(Char)
  BY <1>1, <1>3, ElementOfSeq
<1>5. /\ s \in Seq(Seq(Char)) /\ Len(s) = (IF a <= b THEN b - a + 1 ELSE 0)
      /\ \A k \in 1..b - a + 1 : s[k] = docs[a + k - 1]
  BY <1>2, <1>3, <1>4, SubSeqProperties
<1>6. a <= b
  BY <1>2, <1>3, <1>5
<1>7. DOMAIN s = 1..b - a + 1
  BY <1>3, <1>5, <1>6
<1>8. \A k \in 1..b - a + 1 : a + k - 1 \in a..b
  BY <1>3, <1>6
<1>. QED
  BY <1>2, <1>3, <1>5, <1>7, <1>8

(* Documents without dots but at the end, which are the text, are loaded.    *)
LEMMA LoadsWholeText ==
  ASSUME NEW text, NEW a \in DOMAIN docs, NEW b \in DOMAIN docs, NEW s, s = SubSeq(docs, a, b),
         NEW n, End(a - 1) = n, s # <<>>, IsPrefix(FlattenSeq(s), text),
         \A k \in 1..Len(s) - 1 : ~ Dotted(s[k]), FlattenSeq(s) = text
  PROVE  s \in Loads(text, n)
<1> DEFINE Part(i, j) == SubSeq(docs, i, j)
           From == {k \in DOMAIN docs : End(k - 1) = n}
           Parts == {Part(i, j) : i \in From, j \in DOMAIN docs}
<1>1. Parts = {SubSeq(docs, i, j) : i \in {k \in DOMAIN docs : End(k - 1) = n}, j \in DOMAIN docs}
  OBVIOUS
<1>0. a \in From
  OBVIOUS
<1> HIDE DEF From
<1>2. s = Part(a, b)
  OBVIOUS
<1> HIDE DEF Part
<1>3. s \in Parts
  BY <1>0, <1>2
<1> HIDE DEF Parts
<1>4. Loads(text, n) = {t \in Parts : /\ t # <<>> /\ IsPrefix(FlattenSeq(t), text)
                                      /\ \A k \in 1..Len(t) - 1 : ~ Dotted(t[k])
                                      /\ Dotted(t[Len(t)]) \/ FlattenSeq(t) = text}
  BY <1>1 DEF Loads
<1>. QED
  BY <1>3, <1>4

(* The text from the end of one document to the end of the next is loaded as *)
(* that one document.                                                        *)
LEMMA LoadsOneDocument ==
  ASSUME docs \in Script, NEW q \in DOMAIN docs
  PROVE  Loads(docs[q], End(q - 1)) = {<<docs[q]>>}
<1>1. docs \in Seq(Seq(Char)) /\ Len(docs) \in Nat /\ DOMAIN docs = 1..Len(docs)
  BY ScriptsAreDocuments
<1>2. PICK x \in Seq(Char) : x = docs[q] /\ Len(x) \in Nat /\ Len(x) > 0
  BY DocumentNotEmpty
<1>3. SubSeq(x, 1, Len(x)) = x
  BY SubSeqFull
<1>4. <<x>> \in Loads(x, End(q - 1))
  <2>1. SubSeq(docs, q, q) = <<x>>
    <3>1. q \in 1..Len(docs) /\ q \in q..Len(docs) /\ q + 1 \in Int /\ q \in Int /\ q < q + 1
      BY <1>1
    <3>2. SubSeq(docs, q, q) = <<docs[q]>> \o SubSeq(docs, q + 1, q)
      BY <1>1, <3>1, SubSeqRecursiveFirst
    <3>3. SubSeq(docs, q + 1, q) = <<>>
      BY <3>1, SubSeqEmpty
    <3>4. <<x>> \in Seq(Seq(Char))
      OBVIOUS
    <3>5. <<x>> \o <<>> = <<x>>
      BY <3>4, ConcatEmptySeq
    <3>. QED
      BY <1>2, <3>2, <3>3, <3>5
  <2>2. FlattenSeq(<<x>>) = x
    BY FlattenOne
  <2>3. IsPrefix(x, x)
    BY <1>2, <1>3 DEF IsPrefix
  <2>4. <<x>> # <<>> /\ \A k \in 1..Len(<<x>>) - 1 : ~ Dotted(<<x>>[k])
    OBVIOUS
  <2>. QED
    <3>1. PICK u : u = <<x>> /\ FlattenSeq(u) = x
      BY <2>2
    <3>2. /\ u # <<>> /\ IsPrefix(FlattenSeq(u), x)
          /\ \A k \in 1..Len(u) - 1 : ~ Dotted(u[k])
      BY <2>3, <2>4, <3>1, Zenon
    <3>3. u \in Loads(x, End(q - 1))
      BY <2>1, <3>1, <3>2, LoadsWholeText
    <3>. QED
      BY <3>1, <3>3
<1>5. ASSUME NEW s \in Loads(x, End(q - 1))
      PROVE  s = <<x>>
  <2>1. s \in Seq(Seq(Char)) /\ s # <<>>
    BY LoadedDocuments
  <2>2. 1 \in DOMAIN s /\ Len(s) \in Nat /\ DOMAIN s = 1..Len(s) /\ 1 \in 1..Len(s)
    BY <2>1, EmptySeq
  <2>3. PICK a \in DOMAIN docs, b \in DOMAIN docs : s = SubSeq(docs, a, b) /\ End(a - 1) = End(q - 1)
    BY DEF Loads
  <2>4. PICK y \in Seq(Char) : y = s[1] /\ y = x
    <3>1. a \in 1..Len(docs) /\ a - 1 \in 0..Len(docs) /\ q - 1 \in 0..Len(docs)
          /\ a \in Int /\ q \in Int /\ b \in Int /\ b \in 1..Len(docs)
      BY <1>1
    <3>2. ~ (a - 1 < q - 1) /\ ~ (q - 1 < a - 1)
      <4>1. PICK d \in Script, i \in 0..Len(docs), j \in 0..Len(docs) :
              d = docs /\ i = a - 1 /\ j = q - 1 /\ Ends(d, i) = Ends(d, j)
        BY <2>3, <3>1 DEF End
      <4>2. i < j => Ends(d, i) < Ends(d, j)
        BY <4>1, EndsIncrease
      <4>3. j < i => Ends(d, j) < Ends(d, i)
        BY <4>1, EndsIncrease
      <4>4. Ends(d, i) \in Nat /\ Ends(d, j) \in Nat
        BY <4>1, EndsTyped
      <4>. QED
        BY <4>1, <4>2, <4>3, <4>4
    <3>3. a = q
      BY <3>1, <3>2
    <3>4. \A k \in a..b : docs[k] \in Seq(Char)
      <4>1. \A k \in a..b : k \in DOMAIN docs
        BY <1>1, <3>1
      <4>. QED
        BY <1>1, <4>1, ElementOfSeq
    <3>0. a \in Int /\ b \in Int
      BY <3>1
    <3>5. /\ s \in Seq(Seq(Char)) /\ Len(s) = (IF a <= b THEN b - a + 1 ELSE 0)
          /\ \A k \in 1..b - a + 1 : s[k] = docs[a + k - 1]
      BY <2>3, <3>0, <3>4, SubSeqProperties
    <3>6. 1 \in 1..b - a + 1 /\ a + 1 - 1 = a
      <4>1. a <= b
        BY <2>1, <2>2, <2>3, <3>5
      <4>. QED
        BY <3>1, <4>1
    <3>7. s[1] = docs[a]
      BY <2>3, <3>5, <3>6
    <3>. QED
      BY <1>2, <3>3, <3>7
  <2>5. PICK t \in Seq(Seq(Char)), f \in Seq(Char) : t = Tail(s) /\ f = FlattenSeq(t)
    BY <2>1, HeadTailProperties, FlattenType
  <2>6. s = <<y>> \o t
    <3>1. <<>> \in Seq(Seq(Char))
      OBVIOUS
    <3>2. <<>> \o s = Append(<<>>, s[1]) \o Tail(s)
      BY <2>1, <3>1, MoveOne
    <3>3. <<>> \o s = s /\ Append(<<>>, s[1]) = <<s[1]>>
      BY <2>1, ConcatEmptySeq
    <3>. QED
      BY <2>4, <2>5, <3>2, <3>3
  <2>7. FlattenSeq(s) = y \o f
    <3>1. <<y>> \in Seq(Seq(Char))
      OBVIOUS
    <3>2. FlattenSeq(<<y>> \o t) = FlattenSeq(<<y>>) \o FlattenSeq(t)
      BY <3>1, FlattenConcat
    <3>. QED
      BY <2>5, <2>6, <3>2, FlattenOne
  <2>8. Len(y \o f) <= Len(x)
    <3>1. IsPrefix(FlattenSeq(s), x)
      BY DEF Loads
    <3>. QED
      BY <2>7, <3>1 DEF IsPrefix
  <2>9. PICK z \in Seq(Char) : z = y \o f /\ Len(z) = Len(y) + Len(f) /\ Len(f) \in Nat
    <3>1. y \o f \in Seq(Char) /\ Len(y \o f) = Len(y) + Len(f) /\ Len(f) \in Nat
      OBVIOUS
    <3>. QED
      BY <3>1
  <2>15. Len(f) = 0
    <3>1. Len(z) <= Len(x)
      BY <2>8, <2>9
    <3>2. Len(y) = Len(x)
      BY <2>4
    <3>. QED
      BY <1>2, <2>9, <3>1, <3>2
  <2>16. t = <<>>
    <3> SUFFICES ASSUME t # <<>> PROVE FALSE
      OBVIOUS
    <3>1. 1 \in 1..Len(t) /\ Len(t) \in Nat /\ Len(t) = Len(s) - 1 /\ t[1] = s[1 + 1]
      <4>1. Len(t) \in Nat /\ Len(t) # 0
        BY EmptySeq
      <4>2. 1 \in 1..Len(t)
        BY <4>1
      <4>. QED
        BY <2>1, <2>5, <4>1, <4>2, HeadTailProperties
    <3>2. 2 \in DOMAIN s /\ t[1] = s[2]
      BY <2>2, <3>1
    <3>3. PICK r2 \in DOMAIN docs : s[2] = docs[r2]
      BY <3>2, LoadedDocuments
    <3>4. Len(t[1]) \in Nat /\ Len(t[1]) > 0
      BY <3>2, <3>3, DocumentNotEmpty
    <3>5. 0 \in 0..Len(t) - 1 /\ 0 + 1 = 1
      BY <3>1
    <3>6. Ends(t, 0 + 1) = Ends(t, 0) + Len(t[0 + 1]) /\ Ends(t, 0 + 1) <= Len(FlattenSeq(t))
      BY <3>5, NextDocument, Zenon
    <3>. QED
      <4>1. Ends(t, 0) = 0
        BY NoDocument
      <4>2. PICK u \in Nat, v \in Nat : u = Len(t[1]) /\ v = Len(FlattenSeq(t)) /\ v = 0 /\ u > 0
        BY <2>5, <2>15, <3>4
      <4>3. 0 + u <= v
        BY <3>5, <3>6, <4>1, <4>2
      <4>. QED
        BY <4>2, <4>3
  <2>. QED
    BY <2>4, <2>6, <2>16
<1>. QED
  BY <1>2, <1>4, <1>5

(* A document ends at some place.                                            *)
LEMMA EndIsNumber ==
  ASSUME docs \in Script, NEW k \in 1..Len(docs)
  PROVE  End(k) \in Nat
<1>1. docs \in Seq(Seq(Char)) /\ k \in 0..Len(docs)
  BY ScriptsAreDocuments
<1>2. SubSeq(docs, 1, k) \in Seq(Seq(Char))
  BY <1>1, CutInTwo, Zenon
<1>. QED
  BY <1>2, FlattenType DEF End, Ends

\* A text is being executed, or its answer written.
InParse == IF step \in {"pairs", "items", "emit"} THEN 1 ELSE 0

\* A client that waits has not sent more than the document after the last answer,
\* and no more answers than documents taken.
ServedInv ==
  /\ taken \in Seq(Seq(Char)) /\ answers \in Seq(Nat)
  /\ ~ ahead /\ Kept =>
       /\ Len(taken) <= Len(docs) /\ taken = SubSeq(docs, 1, Len(taken))
       /\ FlattenSeq(taken) = FlattenSeq(parsed)
       /\ Len(answers) + InParse <= Len(taken)
       /\ Len(answers) < Len(docs) => sent <= End(Len(answers) + 1)

(* What parse() is given is the next document, and no more.                  *)
LEMMA TextIsNextDocument ==
  ASSUME StreamInv, StreamInv', ServedInv, ~ ahead, Kept, Kept', step = "none", Parse
  PROVE  Len(taken) + 1 \in DOMAIN docs /\ buf = docs[Len(taken) + 1]
<1>0. /\ docs \in Script /\ docs \in Seq(Seq(Char)) /\ buf \in Seq(Char) /\ parsed \in Seq(Seq(Char))
      /\ Len(docs) \in Nat /\ DOMAIN docs = 1..Len(docs) /\ sent \in 0..Len(Stream)
      /\ wire \in Seq(Char) /\ dropped = <<>>
      /\ ParseInv /\ StreamConserved /\ WholeDocuments'
  BY ScriptsAreDocuments DEF StreamInv, ParseInv, ParseTypeOK, Kept
<1>1. PICK d \in Script, b \in Seq(Char) : d = docs /\ b = buf
  BY <1>0
<1>2. PICK n \in Nat, c \in Nat : n = Len(taken) /\ c = Len(answers) /\ c <= n /\ n <= Len(d)
  <2>1. /\ Len(taken) \in Nat /\ Len(answers) \in Nat
        /\ Len(answers) + InParse <= Len(taken) /\ Len(taken) <= Len(docs)
    BY DEF ServedInv
  <2>2. InParse = 0
    BY DEF InParse
  <2>3. Len(answers) <= Len(taken)
    BY <2>1, <2>2
  <2>. QED
    BY <1>1, <2>1, <2>3
<1>3. PICK F \in Seq(Char) : F = FlattenSeq(d) /\ F = Stream
  BY <1>1, StreamsAreText DEF Stream
<1>4. PICK p \in Seq(Char) : p = FlattenSeq(parsed) /\ Len(p) = Ends(d, n)
  BY <1>0, <1>1, <1>2, FlattenType DEF ServedInv, Ends
<1>5. PICK k \in 1..Len(d) : Len(FlattenSeq(parsed')) = Ends(d, k)
  BY <1>0, <1>1, ParseEndsDocument
<1>6. Len(FlattenSeq(parsed')) = Len(p) + Len(b)
  <2>1. parsed' = Append(parsed, b)
    BY <1>1 DEF Parse
  <2>2. FlattenSeq(parsed') = p \o b
    BY <1>0, <1>4, <2>1, FlattenAppend
  <2>. QED
    BY <2>2, ConcatProperties
<1>7. /\ Len(p) \in Nat /\ Len(b) \in Nat /\ Len(p) + Len(b) <= Len(F)
      /\ \A i \in 1..Len(b) : b[i] = F[Len(p) + i]
  BY <1>0, <1>1, <1>3, <1>4, BufferInStream
<1>8. Len(b) > 0
  <2>1. Complete(b)
    BY <1>1 DEF Parse
  <2>. QED
    BY <1>7, <2>1, CompleteNotEmpty
<1>9. Ends(d, n) < Ends(d, k)
  BY <1>4, <1>5, <1>6, <1>7, <1>8
<1>10. Len(d) \in Nat /\ k \in 0..Len(d) /\ n \in 0..Len(d)
  BY <1>0, <1>1, <1>2
<1>11. n < k
  <2> SUFFICES ASSUME k <= n PROVE FALSE
    BY <1>10
  <2>1. CASE k = n
    BY <1>4, <1>7, <1>9, <2>1
  <2>2. CASE k < n
    <3>1. Ends(d, k) < Ends(d, n)
      BY <1>10, <2>2, EndsIncrease
    <3>2. PICK x \in Nat, y \in Nat : x = Ends(d, n) /\ y = Ends(d, k)
      BY <1>4, <1>5, <1>6, <1>7
    <3>. QED
      BY <1>9, <3>1, <3>2
  <2>. QED
    BY <1>10, <2>1, <2>2
<1>12. c < Len(d) /\ c + 1 \in 0..Len(d)
  BY <1>2, <1>10, <1>11
<1>13. Len(p) + Len(b) <= Ends(d, c + 1)
  <2>1. sent <= Ends(d, c + 1)
    BY <1>1, <1>2, <1>12 DEF ServedInv, End, Ends
  <2>2. Len(p) + Len(b) <= sent
    <3>1. PICK x \in Nat, y \in Nat : x = Len(FlattenSeq(dropped)) /\ y = Len(wire)
      BY <1>0, FlattenEmpty
    <3>2. Len(p) + x + Len(b) + y = sent
      BY <1>0, <1>1, <1>4, <3>1 DEF StreamConserved
    <3>. QED
      BY <1>7, <3>1, <3>2
  <2>3. Ends(d, c + 1) \in Nat /\ sent \in Nat
    <3>1. c \in 0..Len(d) - 1 /\ d \in Seq(Seq(Char))
      BY <1>0, <1>1, <1>10, <1>12
    <3>2. Ends(d, c) \in Nat /\ Ends(d, c + 1) = Ends(d, c) + Len(d[c + 1])
      BY <3>1, NextDocument
    <3>3. c + 1 \in DOMAIN d
      BY <1>0, <1>1, <1>10, <1>12
    <3>4. Len(d[c + 1]) \in Nat
      BY <3>3, DocumentNotEmpty
    <3>5. sent \in Nat
      BY <1>0, <1>3
    <3>. QED
      BY <3>2, <3>4, <3>5
  <2>. QED
    BY <1>7, <2>1, <2>2, <2>3
<1>14. k = n + 1
  <2> SUFFICES ASSUME n + 1 < k PROVE FALSE
    BY <1>10, <1>11
  <2>1. c + 1 < k
    BY <1>2, <1>10
  <2>2. Ends(d, c + 1) < Ends(d, k)
    BY <1>10, <1>12, <2>1, EndsIncrease
  <2>3. Ends(d, k) <= Ends(d, c + 1)
    BY <1>5, <1>6, <1>13
  <2>4. Ends(d, k) \in Nat /\ Ends(d, c + 1) \in Nat
    <3>1. c \in 0..Len(d) - 1 /\ d \in Seq(Seq(Char)) /\ c + 1 \in DOMAIN d
      BY <1>0, <1>1, <1>10, <1>12
    <3>2. Ends(d, c) \in Nat /\ Ends(d, c + 1) = Ends(d, c) + Len(d[c + 1])
      BY <3>1, NextDocument
    <3>3. Len(d[c + 1]) \in Nat
      BY <3>1, DocumentNotEmpty
    <3>. QED
      BY <1>5, <1>6, <1>7, <3>2, <3>3
  <2>. QED
    BY <2>2, <2>3, <2>4
<1>15. n \in 0..Len(d) - 1 /\ d \in Seq(Seq(Char)) /\ n + 1 \in DOMAIN d
  BY <1>0, <1>1, <1>10, <1>14
<1>16. PICK x \in Seq(Char) : x = d[n + 1] /\ Len(x) \in Nat
  BY <1>15, DocumentNotEmpty
<1>17. Ends(d, n + 1) = Ends(d, n) + Len(x) /\ \A i \in 1..Len(x) : F[Ends(d, n) + i] = x[i]
  BY <1>3, <1>15, <1>16, NextDocument
<1>18. Len(b) = Len(x)
  <2>1. Len(p) + Len(b) = Len(p) + Len(x)
    BY <1>4, <1>5, <1>6, <1>14, <1>17
  <2>. QED
    BY <1>7, <1>16, <2>1
<1>19. \A i \in 1..Len(b) : b[i] = x[i]
  BY <1>4, <1>7, <1>17, <1>18
<1>20. b = x
  BY <1>18, <1>19, SeqEqual
<1>. QED
  BY <1>1, <1>2, <1>15, <1>16, <1>20

(* One more document is taken.                                               *)
LEMMA LoadServed ==
  ASSUME StreamInv, StreamInv', ServedInv, Load \/ LoadRest
  PROVE  ServedInv'
<1>0. /\ docs \in Script /\ docs \in Seq(Seq(Char)) /\ Len(docs) \in Nat /\ DOMAIN docs = 1..Len(docs)
      /\ parsed \in Seq(Seq(Char)) /\ buf \in Seq(Char)
      /\ taken \in Seq(Seq(Char)) /\ answers \in Seq(Nat) /\ Len(taken) \in Nat /\ Len(answers) \in Nat
  BY ScriptsAreDocuments DEF StreamInv, ParseInv, ParseTypeOK, ServedInv
<1>1. /\ step = "none" /\ Parse /\ parsed' = Append(parsed, buf)
      /\ UNCHANGED <<docs, sent, dropped, answers, ahead>>
  BY DEF Load, LoadRest, Parse, Begin, client
<1>2. taken' \in Seq(Seq(Char))
  <2>1. CASE Load
    <3>1. PICK s \in Loads(buf, BufferFrom) : taken' = taken \o s
      BY <2>1 DEF Load
    <3>2. s \in Seq(Seq(Char))
      BY <1>0, LoadedDocuments
    <3>. QED
      BY <1>0, <3>1, <3>2, ConcatProperties
  <2>2. CASE LoadRest
    BY <1>0, <2>2 DEF LoadRest
  <2>. QED
    BY <2>1, <2>2
<1>6. Kept' => Kept
  <2>1. Next /\ ParseInv
    BY <1>1 DEF Next, Serve, StreamInv
  <2>. QED
    BY <2>1, KeptBefore
<1>3. ASSUME ~ ahead, Kept'
      PROVE  /\ Len(taken') <= Len(docs) /\ taken' = SubSeq(docs, 1, Len(taken'))
             /\ FlattenSeq(taken') = FlattenSeq(parsed')
             /\ Len(answers) + 1 <= Len(taken')
  <2>1. PICK n \in Nat : n = Len(taken) /\ n + 1 \in DOMAIN docs /\ buf = docs[n + 1]
    BY <1>0, <1>1, <1>3, <1>6, TextIsNextDocument
  <2>2. Loads(buf, BufferFrom) = {<<docs[n + 1]>>}
    <3>1. Len(FlattenSeq(dropped)) = 0 /\ Len(FlattenSeq(parsed)) \in Nat
      BY <1>0, <1>3, <1>6, FlattenEmpty, FlattenType DEF Kept
    <3>2. BufferFrom = Len(FlattenSeq(parsed)) + Len(FlattenSeq(dropped))
      BY DEF BufferFrom
    <3>3. Len(FlattenSeq(parsed)) = End(n)
      BY <1>3, <1>6, <2>1 DEF ServedInv, End, Ends
    <3>4. PICK q \in DOMAIN docs : q = n + 1 /\ q - 1 = n
      BY <2>1
    <3>5. BufferFrom = End(q - 1)
      BY <3>1, <3>2, <3>3, <3>4
    <3>6. Loads(docs[q], End(q - 1)) = {<<docs[q]>>}
      BY <1>0, LoadsOneDocument
    <3>. QED
      BY <2>1, <3>4, <3>5, <3>6
  <2>3. taken' = taken \o <<buf>>
    BY <2>1, <2>2 DEF Load, LoadRest
  <2>4. taken \o <<buf>> = Append(taken, buf) /\ Len(Append(taken, buf)) = n + 1
    BY <1>0, <2>1
  <2>5. taken = SubSeq(docs, 1, n) /\ FlattenSeq(taken) = FlattenSeq(parsed) /\ Len(answers) <= n
    BY <1>0, <1>1, <1>3, <1>6, <2>1 DEF ServedInv, InParse
  <2>6. SubSeq(docs, 1, n + 1) = SubSeq(docs, 1, n) \o <<docs[n + 1]>>
    <3>1. 1 \in 1..Len(docs) /\ n + 1 \in 1..Len(docs) /\ n + 1 - 1 = n
      BY <1>0, <2>1
    <3>2. SubSeq(docs, 1, n + 1) = SubSeq(docs, 1, n + 1 - 1) \o <<docs[n + 1]>>
      BY <1>0, <3>1, SubSeqRecursiveSecond
    <3>. QED
      BY <3>1, <3>2
  <2>7. taken' = SubSeq(docs, 1, n + 1) /\ Len(taken') = n + 1
    BY <2>1, <2>3, <2>4, <2>5, <2>6
  <2>8. FlattenSeq(taken') = FlattenSeq(parsed')
    <3>1. FlattenSeq(Append(taken, buf)) = FlattenSeq(taken) \o buf
      BY <1>0, FlattenAppend
    <3>2. FlattenSeq(Append(parsed, buf)) = FlattenSeq(parsed) \o buf
      BY <1>0, FlattenAppend
    <3>. QED
      BY <1>1, <2>3, <2>4, <2>5, <3>1, <3>2
  <2>9. n + 1 <= Len(docs) /\ Len(answers) + 1 <= n + 1
    BY <1>0, <2>1, <2>5
  <2>. QED
    BY <2>7, <2>8, <2>9
<1>4. ~ ahead /\ Kept' => Len(answers) + InParse' <= Len(taken')
  <2>1. InParse' = 0 \/ InParse' = 1
    BY DEF InParse
  <2>2. Len(taken') \in Nat
    BY <1>2
  <2>. QED
    BY <1>0, <1>3, <2>1, <2>2
<1>5. ~ ahead /\ Kept' => (Len(answers) < Len(docs) => sent <= End(Len(answers) + 1))
  BY <1>6 DEF ServedInv
<1>. QED
  BY <1>0, <1>1, <1>2, <1>3, <1>4, <1>5 DEF ServedInv, End

(* Every step of the client, of parse_callback() and of parse().             *)
LEMMA ServedStep ==
  ASSUME StreamInv, StreamInv', ToldInv, ServedInv, [SessionNext]_allVars
  PROVE  ServedInv'
<1>0. /\ docs \in Script /\ docs \in Seq(Seq(Char)) /\ Len(docs) \in Nat /\ DOMAIN docs = 1..Len(docs)
      /\ taken \in Seq(Seq(Char)) /\ answers \in Seq(Nat) /\ Len(taken) \in Nat /\ Len(answers) \in Nat
      /\ sent \in Nat /\ dropped \in Seq(Seq(Char)) /\ buf \in Seq(Char) /\ err_cnt \in Nat
  BY ScriptsAreDocuments, StreamsAreText
     DEF StreamInv, ParseInv, ParseTypeOK, ServedInv, ToldInv, SessionTypeOK, Stream
<1>1. ASSUME NEW n \in 1..Len(Stream), Writes(n)
      PROVE  ServedInv'
  <2>1. /\ ahead' = (ahead \/ (Len(answers) < Len(docs) /\ sent + n > End(Len(answers) + 1)))
        /\ sent' = sent + n
        /\ UNCHANGED <<docs, parsed, dropped, step, taken, answers>>
    BY <1>1 DEF Writes, Send
  <2>2. ~ ahead' => ~ ahead /\ ~ (Len(answers) < Len(docs) /\ sent + n > End(Len(answers) + 1))
    BY <2>1
  <2>3. Len(answers) < Len(docs) => End(Len(answers) + 1) \in Nat
    BY <1>0, EndIsNumber
  <2>4. sent + n \in Nat
    BY <1>0
  <2>5. InParse' = InParse /\ (End(Len(answers) + 1))' = End(Len(answers) + 1) /\ Kept' = Kept
    BY <2>1 DEF InParse, End, Kept, Intact
  <2>6. ~ ahead' => (Len(answers) < Len(docs) => sent' <= End(Len(answers) + 1))
    BY <2>1, <2>2, <2>3, <2>4
  <2>. QED
    BY <2>1, <2>2, <2>5, <2>6 DEF ServedInv
<1>2. CASE Leaves \/ UNCHANGED allVars
  BY <1>2 DEF Leaves, Hangup, allVars, vars, sessionVars, ServedInv, InParse, End, Kept, Intact
<1>3. CASE Buffers
  <2>1. UNCHANGED <<docs, sent, parsed, step, taken, answers, ahead>>
    BY <1>3 DEF Buffers, Callback, Extend, Exceeds, Read, ReadNothing, ReadEnd, Incomplete,
                sessionVars, client
  <2>2. Kept' => Kept
    <3>1. Next /\ ParseInv
      BY <1>3 DEF Buffers, Next, Serve, StreamInv
    <3>. QED
      BY <3>1, KeptBefore
  <2>. QED
    BY <2>1, <2>2 DEF ServedInv, InParse, End
<1>4. CASE Load \/ LoadRest
  BY <1>4, LoadServed
<1>5. CASE NotSequence \/ NotMode \/ EnterList \/ ItemRefused \/ Execute \/ ListDone \/ MappingDone
           \/ AnswerLost
  <2>1. UNCHANGED <<docs, sent, parsed, dropped, taken, answers, ahead>>
    BY <1>5 DEF NotSequence, NotMode, EnterList, ItemRefused, Execute, ListDone, MappingDone,
                AnswerLost, AtPair, AtItem, vars
  <2>2. step \in {"pairs", "items", "emit"}
    BY <1>5 DEF NotSequence, NotMode, EnterList, ItemRefused, Execute, ListDone, MappingDone,
                AnswerLost, AtPair, AtItem
  <2>3. InParse = 1 /\ InParse' \in {0, 1}
    BY <2>2 DEF InParse
  <2>4. Len(answers) + InParse <= Len(taken) => Len(answers) + InParse' <= Len(taken)
    BY <1>0, <2>3
  <2>5. Kept' = Kept
    BY <2>1 DEF Kept, Intact
  <2>. QED
    BY <2>1, <2>4, <2>5 DEF ServedInv, End
<1>6. CASE Answer
  <2>1. /\ step = "emit" /\ step' = "none" /\ answers' = Append(answers, err_cnt)
        /\ UNCHANGED <<docs, sent, parsed, dropped, taken, ahead>>
    BY <1>6 DEF Answer, vars
  <2>2. answers' \in Seq(Nat) /\ Len(answers') = Len(answers) + 1
    BY <1>0, <2>1, AppendProperties
  <2>3. InParse = 1 /\ InParse' = 0
    BY <2>1 DEF InParse
  <2>4. Len(answers) + 1 + 0 = Len(answers) + 1
    BY <1>0
  <2>5. ASSUME ~ ahead, Kept, Len(answers') < Len(docs)
        PROVE  sent <= (End(Len(answers) + 1))'
    <3>1. PICK d \in Script, c \in Nat : d = docs /\ c = Len(answers) /\ c + 1 < Len(d)
      BY <1>0, <2>2, <2>5
    <3>2. Len(d) \in Nat /\ c + 1 \in 0..Len(d) /\ c + 1 + 1 \in 0..Len(d) /\ c < Len(d) /\ c + 1 < c + 1 + 1
      BY <1>0, <3>1
    <3>3. sent <= Ends(d, c + 1)
      BY <2>5, <3>1, <3>2 DEF ServedInv, End, Ends
    <3>4. Ends(d, c + 1) < Ends(d, c + 1 + 1)
      BY <3>2, EndsIncrease
    <3>5. Ends(d, c + 1) \in Nat /\ Ends(d, c + 1 + 1) \in Nat
      <4>1. End(c + 1) \in Nat /\ End(c + 1 + 1) \in Nat
        BY <1>0, <3>1, <3>2, EndIsNumber
      <4>. QED
        BY <3>1, <4>1 DEF End, Ends
    <3>6. sent <= Ends(d, c + 1 + 1)
      BY <1>0, <3>3, <3>4, <3>5
    <3>7. (End(Len(answers) + 1))' = Ends(d, c + 1 + 1)
      BY <2>1, <2>2, <3>1 DEF End, Ends
    <3>. QED
      BY <3>6, <3>7
  <2>6. Kept' = Kept
    BY <2>1 DEF Kept, Intact
  <2>. QED
    BY <2>1, <2>2, <2>3, <2>4, <2>5, <2>6 DEF ServedInv
<1>. QED
  BY <1>1, <1>2, <1>3, <1>4, <1>5, <1>6 DEF SessionNext, Thread

(* A client that has sent nothing has been served.                           *)
LEMMA ServedStart == SessionInit => ServedInv
<1> SUFFICES ASSUME SessionInit PROVE ServedInv
  OBVIOUS
<1>1. /\ docs \in Script /\ sent = 0 /\ parsed = <<>> /\ step = "none" /\ taken = <<>> /\ answers = <<>>
  BY DEF SessionInit, Init
<1>2. docs \in Seq(Seq(Char)) /\ Len(docs) \in Nat
  BY <1>1, ScriptsAreDocuments
<1>3. Len(<<>>) = 0 /\ SubSeq(docs, 1, 0) = <<>>
  BY SubSeqEmpty
<1>4. <<>> \in Seq(Seq(Char)) /\ <<>> \in Seq(Nat)
  OBVIOUS
<1>5. 0 < Len(docs) => 0 <= End(0 + 1)
  <2>1. 0 < Len(docs) => End(0 + 1) \in Nat
    BY <1>1, <1>2, EndIsNumber
  <2>. QED
    BY <2>1
<1>6. InParse = 0
  BY <1>1 DEF InParse
<1>7. 0 <= Len(docs) /\ 0 + 0 <= 0
  BY <1>2
<1>. QED
  BY <1>1, <1>3, <1>4, <1>5, <1>6, <1>7 DEF ServedInv

(* A client that waits for each answer has each of its documents loaded,     *)
(* once and in order: a text is never more than the one document, if none    *)
(* with an empty line in it was cut there.                                   *)
THEOREM WaitingClientAlwaysServed == SessionSpec => []WaitingClientServed
<1>1. SessionInit => StreamInv /\ ToldInv /\ ServedInv
  BY StreamInitInv, ToldStart, ServedStart DEF SessionInit
<1>2. StreamInv /\ StreamInv' /\ ToldInv /\ ServedInv /\ [SessionNext]_allVars
        => (ToldInv /\ ServedInv)'
  BY ToldStep, ServedStep DEF StreamInv
<1>3. ServedInv => WaitingClientServed
  BY DEF ServedInv, WaitingClientServed
<1>4. SessionSpec => []StreamInv
  BY SessionIsParseBuffer, StreamAlwaysInv, PTL
<1>. QED
  BY <1>1, <1>2, <1>3, <1>4, PTL DEF SessionSpec
-----------------------------------------------------------------------------
(* What a client of the control interface is promised. *)

\* DocsWithin(n), for any sequence of documents.
Reached(d, n) == [k \in {j \in DOMAIN d : Ends(d, j) <= n} |-> d[k]]

\* The documents that end within n characters are the first m.
FirstReached(d, n, m) ==
  /\ Reached(d, n) = SubSeq(d, 1, m)
  /\ \A k \in 1..Len(d) : Ends(d, k) <= n <=> k <= m

(* The first n of a sequence.                                                *)
LEMMA FirstFew ==
  ASSUME NEW S, NEW s \in Seq(S), NEW n \in 0..Len(s)
  PROVE  /\ SubSeq(s, 1, n) \in Seq(S) /\ Len(SubSeq(s, 1, n)) = n
         /\ \A i \in 1..n : SubSeq(s, 1, n)[i] = s[i]
<1>1. Len(s) \in Nat /\ n \in Nat /\ n - 1 + 1 = n /\ (1 <= n \/ n = 0)
  OBVIOUS
<1>2. \A i \in 1..n : s[i] \in S
  BY <1>1, ElementOfSeq
<1>3. \A i \in 1..n : SubSeq(s, 1, n)[i] = s[1 + i - 1] /\ 1 + i - 1 = i
  BY <1>1, <1>2, SubSeqProperties
<1>. QED
  BY <1>3, CutInTwo

LEMMA FirstOfFirst ==
  ASSUME NEW S, NEW s \in Seq(S), NEW n \in 0..Len(s), NEW m \in 0..n
  PROVE  SubSeq(SubSeq(s, 1, n), 1, m) = SubSeq(s, 1, m)
<1>1. Len(s) \in Nat /\ m \in 0..Len(s) /\ \A i \in 1..m : i \in 1..n
  OBVIOUS
<1>2. PICK t \in Seq(S) : t = SubSeq(s, 1, n) /\ Len(t) = n /\ \A i \in 1..n : t[i] = s[i]
  BY FirstFew
<1>3. PICK u \in Seq(S) : u = SubSeq(t, 1, m) /\ Len(u) = m /\ \A i \in 1..m : u[i] = t[i]
  <2>1. m \in 0..Len(t)
    BY <1>2
  <2>. QED
    BY <2>1, FirstFew, Zenon
<1>4. PICK v \in Seq(S) : v = SubSeq(s, 1, m) /\ Len(v) = m /\ \A i \in 1..m : v[i] = s[i]
  <2>1. PICK k \in 0..Len(s) : k = m
    BY <1>1
  <2>2. /\ SubSeq(s, 1, k) \in Seq(S) /\ Len(SubSeq(s, 1, k)) = k
        /\ \A i \in 1..k : SubSeq(s, 1, k)[i] = s[i]
    BY FirstFew, Zenon
  <2>. QED
    BY <2>1, <2>2, Zenon
<1>5. u = v
  BY <1>1, <1>2, <1>3, <1>4, SeqEqual
<1>. QED
  BY <1>2, <1>3, <1>4, <1>5

(* Ends increase, so that those within a limit are the first ones.           *)
LEMMA ReachedFirst ==
  ASSUME NEW d \in Script, NEW n \in Nat
  PROVE  \E m \in 0..Len(d) : FirstReached(d, n, m)
<1>1. d \in Seq(Seq(Char)) /\ Len(d) \in Nat /\ DOMAIN d = 1..Len(d)
  BY ScriptsAreDocuments
<1> DEFINE T == {k \in 1..Len(d) + 1 : k = Len(d) + 1 \/ ~ (Ends(d, k) <= n)}
<1>2. PICK b \in T : \A k \in T : b <= k
  <2>1. T \subseteq Nat /\ Len(d) + 1 \in T
    BY <1>1
  <2> HIDE DEF T
  <2>. QED
    BY <2>1, LeastNumber
<1>3. PICK m \in 0..Len(d) : b = m + 1
  <2>1. b - 1 \in 0..Len(d) /\ b = (b - 1) + 1
    BY <1>1
  <2>. QED
    BY <2>1
<1>4. ASSUME NEW k \in 1..Len(d)
      PROVE  Ends(d, k) <= n <=> k <= m
  <2>1. CASE k <= m
    <3>1. ~ (b <= k) /\ k \in 1..Len(d) + 1
      BY <1>1, <1>3, <2>1
    <3>2. k \notin T
      BY <1>2, <3>1
    <3>. QED
      BY <2>1, <3>1, <3>2
  <2>2. CASE ~ (k <= m)
    <3>1. b <= k /\ b \in 1..Len(d) /\ b # Len(d) + 1 /\ b \in 0..Len(d) /\ k \in 0..Len(d)
      BY <1>1, <1>3, <2>2
    <3>2. ~ (Ends(d, b) <= n)
      BY <3>1
    <3>3. b = k \/ Ends(d, b) < Ends(d, k)
      BY <1>1, <3>1, EndsIncrease
    <3>4. PICK eb \in Nat, ek \in Nat : eb = Ends(d, b) /\ ek = Ends(d, k)
      BY <3>1, EndsTyped
    <3>5. ~ (ek <= n)
      BY <3>2, <3>3, <3>4
    <3>. QED
      BY <2>2, <3>4, <3>5
  <2>. QED
    BY <2>1, <2>2
<1>5. {j \in DOMAIN d : Ends(d, j) <= n} = 1..m
  <2>1. 1..m \subseteq 1..Len(d) /\ \A k \in 1..Len(d) : k <= m <=> k \in 1..m
    BY <1>1
  <2>. QED
    BY <1>1, <1>4, <2>1
<1>6. Reached(d, n) = [k \in 1..m |-> d[k]]
  BY <1>5 DEF Reached
<1>7. Reached(d, n) = SubSeq(d, 1, m)
  <2>1. PICK u \in Seq(Seq(Char)) : u = SubSeq(d, 1, m) /\ Len(u) = m /\ \A k \in 1..m : u[k] = d[k]
    BY <1>1, FirstFew
  <2>2. u = [k \in 1..m |-> u[k]]
    <3>1. DOMAIN u = 1..m /\ u \in [1..m -> Seq(Char)]
      BY <2>1, LenProperties
    <3>. QED
      BY <3>1
  <2>3. u = [k \in 1..m |-> d[k]]
    BY <2>1, <2>2
  <2>. QED
    BY <1>6, <2>1, <2>3
<1>. QED
  BY <1>4, <1>7 DEF FirstReached

\* What the promise is made of, in parse_callback().
Asked == IF Kept THEN DocsWithin(sent) ELSE <<>>
Writing == Kept /\ sent # 0 /\ \A k \in DOMAIN docs : sent # End(k)
Delivered == IF Kept THEN DocsWithin(Len(FlattenSeq(parsed))) ELSE <<>>
Gone == away \/ ~ Kept

LEMMA SameReached == \A n : DocsWithin(n) = Reached(docs, n)
BY DEF DocsWithin, Reached, End, Ends

\* A step that changes none of it.
LEMMA NothingPromised ==
  ASSUME UNCHANGED <<Asked, Writing, Delivered, Gone>>
  PROVE  UNCHANGED Promise!replVars
BY DEF Promise!replVars, Asked, Writing, Delivered, Gone

(* The client writes on: more is asked, of what was asked nothing changes.   *)
LEMMA SendAsks ==
  ASSUME ParseInv, NEW n \in 1..Len(Stream), Send(n)
  PROVE  Promise!ReplNext \/ UNCHANGED Promise!replVars
<1>1. /\ docs \in Script /\ docs \in Seq(Seq(Char)) /\ Len(docs) \in Nat /\ DOMAIN docs = 1..Len(docs)
      /\ sent \in Nat /\ n \in Nat /\ sent + n \in Nat
  <2>1. docs \in Script /\ sent \in 0..Len(Stream)
    BY DEF ParseInv, ParseTypeOK
  <2>2. Len(Stream) \in Nat
    BY <2>1, StreamsAreText DEF Stream
  <2>. QED
    BY <2>1, <2>2, ScriptsAreDocuments
<1>2. /\ ~ away /\ sent' = sent + n
      /\ UNCHANGED <<docs, parsed, dropped, away>>
  BY DEF Send
<1>3. Kept' = Kept /\ Delivered' = Delivered /\ Gone' = Gone
  BY <1>2 DEF Kept, Intact, Delivered, DocsWithin, End, Gone
<1>4. CASE ~ Kept
  BY <1>3, <1>4, NothingPromised DEF Asked, Writing
<1>5. CASE Kept
  <2>1. PICK m \in 0..Len(docs) : FirstReached(docs, sent, m)
    BY <1>1, ReachedFirst
  <2>2. PICK p \in 0..Len(docs) : FirstReached(docs, sent + n, p)
    BY <1>1, ReachedFirst
  <2>3. m <= p
    <3>1. CASE m = 0
      BY <3>1
    <3>2. CASE m \in 1..Len(docs)
      <4>1. Ends(docs, m) <= sent /\ Ends(docs, m) \in Nat
        BY <1>1, <2>1, <3>2, EndsTyped DEF FirstReached
      <4>2. Ends(docs, m) <= sent + n
        BY <1>1, <4>1
      <4>. QED
        BY <2>2, <3>2, <4>2 DEF FirstReached
    <3>. QED
      BY <1>1, <3>1, <3>2
  <2>4. Asked = SubSeq(docs, 1, m)
    BY <1>5, <2>1, SameReached DEF Asked, FirstReached
  <2>5. Asked' = SubSeq(docs, 1, p)
    <3>1. DocsWithin(sent)' = Reached(docs, sent + n)
      BY <1>2 DEF DocsWithin, Reached, End, Ends
    <3>. QED
      BY <1>3, <1>5, <2>2, <3>1 DEF Asked, FirstReached
  <2>6. /\ SubSeq(docs, 1, m) \in Seq(Seq(Char)) /\ Len(SubSeq(docs, 1, m)) = m
        /\ SubSeq(docs, 1, p) \in Seq(Seq(Char)) /\ Len(SubSeq(docs, 1, p)) = p
        /\ \A i \in 1..p : SubSeq(docs, 1, p)[i] = docs[i]
    BY <1>1, FirstFew
  <2>7. SubSeq(docs, 1, p) \in Seq(UNION {Range(s) : s \in Script})
    <3>1. ASSUME NEW i \in 1..p PROVE docs[i] \in Range(docs)
      <4>1. i \in DOMAIN docs
        BY <1>1
      <4>. QED
        BY <4>1, Zenon DEF Range
    <3>2. \A i \in 1..p : SubSeq(docs, 1, p)[i] \in UNION {Range(s) : s \in Script}
      BY <1>1, <2>6, <3>1
    <3>. QED
      BY <2>6, <3>2, SeqDef, LenProperties
  <2>8. SubSeq(SubSeq(docs, 1, p), 1, m) = SubSeq(docs, 1, m)
    <3>1. m \in 0..p
      BY <1>1, <2>3
    <3>. QED
      BY <1>1, <3>1, FirstOfFirst, Zenon
  <2>9. Writing' \in BOOLEAN /\ ~ Gone
    BY <1>2, <1>5, Zenon DEF Writing, Gone
  <2>10. /\ Asked' \in Seq(UNION {Range(s) : s \in Script})
         /\ Len(Asked') >= Len(Asked) /\ SubSeq(Asked', 1, Len(Asked)) = Asked
    BY <2>3, <2>4, <2>5, <2>6, <2>7, <2>8
  <2>11. Promise!Ask
    BY <1>3, <2>9, <2>10 DEF Promise!Ask, Asked, Writing, Delivered, Gone
  <2>. QED
    BY <2>11 DEF Promise!ReplNext
<1>. QED
  BY <1>4, <1>5

(* A text is handed on: what was asked, up to the end of one more document.  *)
LEMMA ParseDelivers ==
  ASSUME StreamInv, StreamInv', Parse
  PROVE  Promise!ReplNext \/ UNCHANGED Promise!replVars
<1>1. /\ docs \in Script /\ docs \in Seq(Seq(Char)) /\ Len(docs) \in Nat /\ sent \in Nat
      /\ buf \in Seq(Char) /\ wire \in Seq(Char) /\ parsed \in Seq(Seq(Char))
  <2>1. docs \in Script /\ sent \in 0..Len(Stream)
    BY DEF StreamInv, ParseInv, ParseTypeOK
  <2>2. Len(Stream) \in Nat
    BY <2>1, StreamsAreText DEF Stream
  <2>. QED
    BY <2>1, <2>2, ScriptsAreDocuments DEF StreamInv, ParseInv, ParseTypeOK
<1>2. /\ parsed' = Append(parsed, buf) /\ buf' = <<>> /\ Complete(buf)
      /\ UNCHANGED <<docs, sent, wire, dropped, away>>
  BY DEF Parse, client
<1>3. Kept' => Kept
  <2>1. Next /\ ParseInv
    BY DEF Next, Serve, StreamInv
  <2>. QED
    BY <2>1, KeptBefore
<1>4. CASE ~ Kept
  BY <1>3, <1>4, <1>2, NothingPromised DEF Asked, Writing, Delivered, Gone
<1>6. CASE Kept /\ ~ Kept'
  <2>1. Promise!GiveUp
    BY <1>6 DEF Promise!GiveUp
  <2>. QED
    BY <2>1 DEF Promise!ReplNext
<1>5. CASE Kept /\ Kept'
  <2>0. Asked' = Asked /\ Writing' = Writing /\ Gone' = Gone
    BY <1>2, <1>5 DEF Asked, Writing, Gone, DocsWithin, End
  <2>1. PICK p \in Nat : p = Len(FlattenSeq(parsed))
    BY <1>1, FlattenType
  <2>2. PICK q \in Nat : q = Len(FlattenSeq(parsed')) /\ p < q
    <3>1. Len(buf) \in Nat /\ Len(buf) >= 2
      BY <1>1, <1>2, CompleteNotEmpty
    <3>3. PICK f \in Seq(Char) : f = FlattenSeq(parsed)
      BY <1>1, FlattenType
    <3>4. FlattenSeq(parsed') = f \o buf
      BY <1>1, <1>2, <3>3, FlattenAppend
    <3>5. Len(f \o buf) = Len(f) + Len(buf) /\ Len(f) \in Nat
      BY <1>1
    <3>. QED
      BY <2>1, <3>1, <3>3, <3>4, <3>5
  <2>3. q <= sent
    <3>1. Len(FlattenSeq(parsed')) + Len(FlattenSeq(dropped)) + Len(<<>>) + Len(wire) = sent
      BY <1>2 DEF StreamInv, StreamConserved
    <3>2. FlattenSeq(dropped) = <<>>
      BY <1>5, FlattenEmpty DEF Kept
    <3>3. Len(<<>>) = 0 /\ Len(wire) \in Nat
      BY <1>1
    <3>. QED
      BY <1>1, <2>2, <3>1, <3>2, <3>3
  <2>4. PICK k \in 1..Len(docs) : q = Ends(docs, k)
    BY <1>5, <2>2, ParseEndsDocument DEF StreamInv, Kept
  <2>5. PICK m \in 0..Len(docs) : FirstReached(docs, sent, m)
    BY <1>1, ReachedFirst
  <2>6. PICK a \in 0..Len(docs) : FirstReached(docs, p, a)
    BY <1>1, ReachedFirst
  <2>7. PICK b \in 0..Len(docs) : FirstReached(docs, q, b)
    BY <1>1, ReachedFirst
  <2>8. k <= m
    BY <2>3, <2>4, <2>5 DEF FirstReached
  <2>9. b = k
    <3>1. k <= b
      BY <2>2, <2>4, <2>7 DEF FirstReached
    <3>2. ASSUME k < b PROVE FALSE
      <4>1. b \in 1..Len(docs) /\ k \in 0..Len(docs)
        BY <1>1, <3>2
      <4>2. Ends(docs, k) < Ends(docs, b)
        BY <1>1, <3>2, <4>1, EndsIncrease
      <4>3. b <= b
        BY <1>1
      <4>4. Ends(docs, b) <= q
        BY <2>7, <4>1, <4>3 DEF FirstReached
      <4>5. Ends(docs, b) \in Nat
        BY <1>1, EndsTyped
      <4>. QED
        BY <2>2, <2>4, <4>2, <4>4, <4>5
    <3>. QED
      BY <1>1, <3>1, <3>2
  <2>10. a < k
    <3>1. ~ (Ends(docs, k) <= p)
      BY <2>1, <2>2, <2>4
    <3>2. ~ (k <= a)
      BY <2>6, <3>1 DEF FirstReached
    <3>. QED
      BY <1>1, <3>2
  <2>11. Asked = SubSeq(docs, 1, m) /\ Delivered = SubSeq(docs, 1, a)
    BY <1>5, <2>1, <2>5, <2>6, SameReached DEF Asked, Delivered, FirstReached
  <2>12. Delivered' = SubSeq(docs, 1, k)
    <3>1. DocsWithin(Len(FlattenSeq(parsed)))' = Reached(docs, q)
      BY <1>2, <2>2 DEF DocsWithin, Reached, End, Ends
    <3>. QED
      BY <1>5, <2>7, <2>9, <3>1 DEF Delivered, FirstReached
  <2>13. Len(SubSeq(docs, 1, m)) = m /\ Len(SubSeq(docs, 1, a)) = a
    BY <1>1, FirstFew
  <2>14. SubSeq(SubSeq(docs, 1, m), 1, k) = SubSeq(docs, 1, k)
    <3>1. k \in 0..m
      BY <1>1, <2>8
    <3>. QED
      BY <1>1, <3>1, FirstOfFirst, Zenon
  <2>15. k \in Len(Delivered) + 1..Len(Asked) /\ Delivered' = SubSeq(Asked, 1, k)
    BY <1>1, <2>8, <2>10, <2>11, <2>12, <2>13, <2>14
  <2>16. Promise!Deliver
    BY <2>0, <2>15 DEF Promise!Deliver, Asked, Writing, Delivered, Gone
  <2>. QED
    BY <2>16 DEF Promise!ReplNext
<1>. QED
  BY <1>4, <1>5, <1>6

LEMMA StepIsRepl ==
  ASSUME StreamInv, StreamInv', [Next]_vars
  PROVE  Promise!ReplNext \/ UNCHANGED Promise!replVars
<1> USE DEF client
<1>1. CASE \E n \in 1..Len(Stream) : Send(n)
  BY <1>1, SendAsks DEF StreamInv
<1>2. CASE Hangup
  <2>1. away' = TRUE /\ UNCHANGED <<docs, sent, parsed, dropped>>
    BY <1>2 DEF Hangup
  <2>2. Asked' = Asked /\ Writing' = Writing /\ Delivered' = Delivered /\ Gone' = TRUE
    BY <2>1 DEF Kept, Intact, Asked, Writing, Delivered, DocsWithin, End, Gone
  <2>3. Promise!Leave
    BY <2>2 DEF Promise!Leave, Asked, Writing, Delivered, Gone
  <2>. QED
    BY <2>3 DEF Promise!ReplNext
<1>3. CASE Exceeds
  <2>1. dropped' # <<>>
    <3>1. dropped' = Append(dropped, buf) /\ dropped \in Seq(Seq(Char)) /\ buf \in Seq(Char)
      BY <1>3 DEF Exceeds, StreamInv, ParseInv, ParseTypeOK
    <3>. QED
      BY <3>1, AppendProperties
  <2>2. ~ Kept'
    BY <2>1 DEF Kept
  <2>3. Promise!GiveUp
    BY <2>2 DEF Promise!GiveUp
  <2>. QED
    BY <2>3 DEF Promise!ReplNext
<1>4. CASE Parse
  BY <1>4, ParseDelivers
<1>5. CASE Callback \/ Extend \/ Read \/ ReadNothing \/ ReadEnd \/ Incomplete \/ UNCHANGED vars
  <2>1. UNCHANGED <<docs, sent, parsed, dropped, away>>
    BY <1>5 DEF Callback, Extend, Read, ReadNothing, ReadEnd, Incomplete, vars
  <2>2. UNCHANGED <<Asked, Writing, Delivered, Gone>>
    BY <2>1 DEF Kept, Intact, Asked, Writing, Delivered, DocsWithin, End, Gone
  <2>. QED
    BY <2>2, NothingPromised
<1>. QED
  BY <1>1, <1>2, <1>3, <1>4, <1>5 DEF Next, Serve

(* The safety half of ImplementsRepl: whatever pieces the stream arrives in, *)
(* and however much of it there is, parse_callback() hands documents on to   *)
(* parse() whole, in order and once, and none that was not sent in full; it  *)
(* gives up on nobody but who overruns the buffer or has a document with an  *)
(* empty line cut there.                                                     *)
THEOREM DocumentsDelivered ==
  Spec => Promise!ReplInit /\ [][Promise!ReplNext]_(Promise!replVars)
<1>1. Init => Promise!ReplInit
  <2> SUFFICES ASSUME Init PROVE Promise!ReplInit
    OBVIOUS
  <2>1. docs \in Script /\ sent = 0 /\ away = FALSE /\ parsed = <<>> /\ dropped = <<>> /\ Kept
    BY DEF Init, Kept, Intact
  <2>2. PICK m \in 0..Len(docs) : FirstReached(docs, 0, m)
    BY <2>1, ReachedFirst
  <2>3. m = 0
    <3>1. docs \in Seq(Seq(Char)) /\ Len(docs) \in Nat
      BY <2>1, ScriptsAreDocuments
    <3>2. ASSUME m \in 1..Len(docs) PROVE FALSE
      <4>1. 0 \in 0..Len(docs) /\ m \in 0..Len(docs) /\ 0 < m /\ m <= m
        BY <3>1, <3>2
      <4>2. Ends(docs, 0) = 0 /\ Ends(docs, 0) < Ends(docs, m)
        BY <2>1, <4>1, NoDocument, EndsIncrease
      <4>3. Ends(docs, m) <= 0 /\ Ends(docs, m) \in Nat
        BY <2>1, <2>2, <3>2, <4>1, EndsTyped DEF FirstReached
      <4>. QED
        BY <4>2, <4>3
    <3>. QED
      BY <3>1, <3>2
  <2>4. Reached(docs, 0) = <<>>
    BY <2>2, <2>3, SubSeqEmpty DEF FirstReached
  <2>5. Len(FlattenSeq(parsed)) = 0
    BY <2>1, FlattenEmpty
  <2>6. DocsWithin(sent) = <<>> /\ DocsWithin(Len(FlattenSeq(parsed))) = <<>>
    BY <2>1, <2>4, <2>5, SameReached
  <2>. QED
    BY <2>1, <2>6 DEF Promise!ReplInit
<1>2. Init => StreamInv
  BY StreamInitInv
<1>3. StreamInv /\ [Next]_vars => StreamInv'
  BY StreamNextInv
<1>4. StreamInv /\ StreamInv' /\ [Next]_vars => [Promise!ReplNext]_(Promise!replVars)
  BY StepIsRepl
<1>. QED
  BY <1>1, <1>2, <1>3, <1>4, PTL DEF Spec
=============================================================================
