---------------------------- MODULE ParseBuffer -----------------------------
(***************************************************************************)
(* parse_callback() of parse2.c: a connection's buffer, filled from a      *)
(* stream that the client writes and the kernel cuts as they please, and   *)
(* handed to parse() when its tail says that a document is complete.       *)
(*                                                                         *)
(* One read() is one step; the client may write between two of them.  A    *)
(* character is "n" (LF), "r" (CR), "e" (the three dots that end a YAML    *)
(* document) or anything else.                                             *)
(***************************************************************************)
EXTENDS Naturals, SequencesExt

CONSTANTS Char,
          Script,       \* what clients send: sequences of documents
          PipeBuf,      \* PIPE_BUF
          MaxBuf        \* PARSE_BUF_MAX

Sizes == {k * PipeBuf : k \in 0..MaxBuf}      \* of a buffer that grows by PIPE_BUF
ASSUME SizesAgree == PipeBuf \in Nat \ {0} /\ MaxBuf \in Nat \ {0} /\ MaxBuf \in Sizes

Tails == {<<"n", "n">>, <<"r", "n", "r", "n">>, <<"e", "n">>, <<"e", "r", "n">>}

\* parse_cmptail() is 0 for one of them.
Complete(text) == \E t \in Tails : IsSuffix(t, text)

Dotted(text) == IsSuffix(<<"e", "n">>, text) \/ IsSuffix(<<"e", "r", "n">>, text)

\* Documents as users write them: each ends as a document does, and the dots, which end
\* a YAML document, are in no other place of it.  Blank lines may be anywhere.
ASSUME ScriptsAreDocuments == Script \subseteq Seq(Seq(Char))
ASSUME DocumentsEnd ==
  \A docs \in Script : \A k \in DOMAIN docs :
    /\ Complete(docs[k])
    /\ \A j \in 1..Len(docs[k]) - 1 : ~ Dotted(SubSeq(docs[k], 1, j))

\* Where the k-th document of a sequence ends, and the places within it.
Ends(d, k) == Len(FlattenSeq(SubSeq(d, 1, k)))
Within(d, k) == Ends(d, k - 1) + 1..Ends(d, k) - 1

\* The documents up to no inner place of which what was sent looks as if it ended there,
\* which it does after an empty line.
Unbroken == [d \in Script |->
  {k \in DOMAIN d : \A n \in Within(d, k) : ~ Complete(SubSeq(FlattenSeq(d), 1, n))}]

VARIABLES docs,         \* what this client sends
          sent,         \* how many characters of it are written
          wire,         \* written and not yet read
          away,         \* the client has closed its end
          pc,           \* "epoll", in parse_callback(), or "gone" (parse_free)
          buf,          \* the first buf_pos bytes of parse.buf
          buf_len,      \* parse.buf_len
          parsed,       \* the texts handed to parse()
          dropped       \* the texts discarded without

client == <<docs, sent, away>>
vars == <<docs, sent, wire, away, pc, buf, buf_len, parsed, dropped>>
-----------------------------------------------------------------------------
Stream == FlattenSeq(docs)
End(k) == Ends(docs, k)                 \* of the k-th document in Stream

Send(n) ==
  /\ ~ away
  /\ sent + n <= Len(Stream)
  /\ sent' = sent + n
  /\ wire' = wire \o SubSeq(Stream, sent + 1, sent + n)
  /\ UNCHANGED <<docs, away, pc, buf, buf_len, parsed, dropped>>

Hangup ==
  /\ ~ away
  /\ away' = TRUE
  /\ UNCHANGED <<docs, sent, wire, pc, buf, buf_len, parsed, dropped>>

\* epoll_wait(): readable, or at its end.
Callback ==
  /\ pc = "epoll"
  /\ wire # <<>> \/ away
  /\ pc' = "extend"
  /\ UNCHANGED <<client, wire, buf, buf_len, parsed, dropped>>

\* Defect: a buffer that is one short is taken to be long enough.
NeedsRoomLate == Len(buf) + PipeBuf > buf_len + 1

NeedsRoom == Len(buf) + PipeBuf > buf_len

\* The top of the loop: "extend memory as needed".
Extend ==
  /\ pc = "extend"
  /\ NeedsRoom => buf_len < MaxBuf
  /\ buf_len' = IF NeedsRoom THEN buf_len + PipeBuf ELSE buf_len
  /\ pc' = "read"
  /\ UNCHANGED <<client, wire, buf, parsed, dropped>>

\* Defect: a buffer that has grown to the limit is given up even if it has room.
ExceedsEarly ==
  /\ pc = "extend"
  /\ buf_len >= MaxBuf
  /\ dropped' = Append(dropped, buf)
  /\ buf' = <<>>
  /\ pc' = "epoll"
  /\ UNCHANGED <<client, wire, buf_len, parsed>>

\* NB_die_if(): what was read is discarded, what follows is read as a new document.
Exceeds ==
  /\ pc = "extend"
  /\ NeedsRoom /\ buf_len >= MaxBuf
  /\ dropped' = Append(dropped, buf)
  /\ buf' = <<>>
  /\ pc' = "epoll"
  /\ UNCHANGED <<client, wire, buf_len, parsed>>

\* read() returns what there is, up to PIPE_BUF: the loop ends when that was less.
Chunk == SubSeq(wire, 1, IF Len(wire) < PipeBuf THEN Len(wire) ELSE PipeBuf)

Read ==
  /\ pc = "read"
  /\ wire # <<>>
  /\ buf' = buf \o Chunk
  /\ wire' = SubSeq(wire, Len(Chunk) + 1, Len(wire))
  /\ pc' = IF Len(Chunk) = PipeBuf THEN "extend" ELSE "check"
  /\ UNCHANGED <<client, buf_len, parsed, dropped>>

\* Defect: nothing to read is taken for a full read.
ReadNothingRetries ==
  /\ pc = "read"
  /\ wire = <<>> /\ ~ away
  /\ pc' = "extend"
  /\ UNCHANGED <<client, wire, buf, buf_len, parsed, dropped>>

\* read() returns -1, EAGAIN: epoll_track is taken to have made the descriptor non-blocking.
ReadNothing ==
  /\ pc = "read"
  /\ wire = <<>> /\ ~ away
  /\ pc' = "check"
  /\ UNCHANGED <<client, wire, buf, buf_len, parsed, dropped>>

\* read() returns 0: parse_free(), whatever the buffer holds.
ReadEnd ==
  /\ pc = "read"
  /\ wire = <<>> /\ away
  /\ pc' = "gone"
  /\ UNCHANGED <<client, wire, buf, buf_len, parsed, dropped>>

Incomplete ==
  /\ pc = "check"
  /\ ~ Complete(buf)
  /\ pc' = "epoll"
  /\ UNCHANGED <<client, wire, buf, buf_len, parsed, dropped>>

\* Defect: the text stays in the buffer.
ParseKeeps ==
  /\ pc = "check"
  /\ Complete(buf)
  /\ parsed' = Append(parsed, buf)
  /\ pc' = "epoll"
  /\ UNCHANGED <<client, wire, buf, buf_len, dropped>>

\* Defect: whatever has been read is parsed.
ParseEagerly ==
  /\ pc = "check"
  /\ parsed' = Append(parsed, buf)
  /\ buf' = <<>>
  /\ pc' = "epoll"
  /\ UNCHANGED <<client, wire, buf_len, dropped>>

\* parse() of the whole buffer, which then is empty.
Parse ==
  /\ pc = "check"
  /\ Complete(buf)
  /\ parsed' = Append(parsed, buf)
  /\ buf' = <<>>
  /\ pc' = "epoll"
  /\ UNCHANGED <<client, wire, buf_len, dropped>>
-----------------------------------------------------------------------------
\* parse_new()
Init ==
  /\ docs \in Script
  /\ sent = 0
  /\ wire = <<>>
  /\ away = FALSE
  /\ pc = "epoll"
  /\ buf = <<>>
  /\ buf_len = 0
  /\ parsed = <<>>
  /\ dropped = <<>>

Serve ==
  \/ Callback \/ Extend \/ Exceeds
  \/ Read \/ ReadNothing \/ ReadEnd
  \/ Incomplete \/ Parse

Next == (\E n \in 1..Len(Stream) : Send(n)) \/ Hangup \/ Serve

Spec == Init /\ [][Next]_vars
-----------------------------------------------------------------------------
(* What a connection holds. *)
ParseTypeOK ==
  /\ docs \in Script
  /\ sent \in 0..Len(Stream)
  /\ wire \in Seq(Char) /\ buf \in Seq(Char)
  /\ pc \in {"epoll", "extend", "read", "check", "gone"}
  /\ buf_len \in Sizes /\ buf_len <= MaxBuf
  /\ parsed \in Seq(Seq(Char)) /\ dropped \in Seq(Seq(Char))

(* A read has room for all it asks for, and parse() for the zero that       *)
(* terminates the text, although the buffer grows by one read at a time.    *)
BufferHolds ==
  /\ Len(buf) <= buf_len
  /\ pc = "read" => Len(buf) + PipeBuf <= buf_len
  /\ pc = "check" => Len(buf) < buf_len

(* Nothing that a client sent is handed on twice, or out of order, or       *)
(* disappears other than by the limit: what was handed on, what was         *)
(* discarded and what is buffered make up the stream.                       *)
StreamConserved ==
  /\ Len(FlattenSeq(parsed)) + Len(FlattenSeq(dropped)) + Len(buf) + Len(wire) = sent
  /\ dropped = <<>> => FlattenSeq(parsed) \o buf \o wire = SubSeq(Stream, 1, sent)

\* No text handed on has ended within the k-th document.
Intact(k) == \A j \in DOMAIN parsed : Ends(parsed, j) \notin Within(docs, k)

(* parse() is never given a part of a document that has no empty line in    *)
(* it, although it may arrive in pieces cut anywhere and next to documents  *)
(* that have some; as long as nothing was discarded.                        *)
WholeDocuments == dropped = <<>> => \A k \in Unbroken[docs] : Intact(k)

(* "Until then, wait for more data": what the manual's own examples, which  *)
(* have empty lines between their members, need of every document.          *)
DocumentsParsedWhole == dropped = <<>> => \A k \in DOMAIN docs : Intact(k)

(* "parse buffer exceeds max": only what could not have been one read short *)
(* of the limit is discarded.                                               *)
OnlyLongTextsDropped ==
  \A j \in DOMAIN dropped : Len(dropped[j]) > MaxBuf - PipeBuf

(* "Possible conditions for document complete": a document that is complete *)
(* and was read is not dropped because its sender has closed the stream.    *)
CompleteNotForgotten == pc = "gone" => ~ Complete(buf)

\* The documents that end within the first n characters: the first few of docs.
DocsWithin(n) == [k \in {j \in DOMAIN docs : End(j) <= n} |-> docs[k]]

\* Nothing of the stream is lost or torn: nothing was discarded, and no document that has
\* an empty line in it was cut there.
Kept == dropped = <<>> /\ \A k \in DOMAIN docs \ Unbroken[docs] : Intact(k)

Promise == INSTANCE Repl WITH
  Document <- UNION {Range(s) : s \in Script},
  asked <- IF Kept THEN DocsWithin(sent) ELSE <<>>,
  writing <- Kept /\ sent # 0 /\ \A k \in DOMAIN docs : sent # End(k),
  delivered <- IF Kept THEN DocsWithin(Len(FlattenSeq(parsed))) ELSE <<>>,
  away <- away \/ ~ Kept

(* Every document is delivered to parse(), once and in order, in whatever   *)
(* pieces it arrives: unless the client goes away, overruns the buffer or   *)
(* has a document with an empty line cut there.                             *)
(* (A client that writes on after three dots without waiting for the answer *)
(* has only the first document of a text loaded: "TODO: parse multiple      *)
(* documents in a text stream".)                                            *)
ImplementsRepl == Promise!ReplSpec
=============================================================================
