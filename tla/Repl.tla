-------------------------------- MODULE Repl --------------------------------
(***************************************************************************)
(* What the control interface promises its client: documents are delivered *)
(* to parse() in order, whole, and each once; several that arrive together *)
(* are delivered together.  A client that has finished what it is writing  *)
(* is served, unless it leaves or sends more at once than is buffered:     *)
(* then nothing more is promised.                                          *)
(***************************************************************************)
EXTENDS Naturals, Sequences

CONSTANT Document

VARIABLES asked,        \* the documents sent, in order
          writing,      \* a part of the next has been sent
          delivered,    \* the documents delivered, in order
          away          \* the client has closed its end, or has been given up

replVars == <<asked, writing, delivered, away>>

ReplInit == asked = <<>> /\ writing = FALSE /\ delivered = <<>> /\ away = FALSE

\* Any number of documents, the last of them perhaps in part.
Ask ==
  /\ ~ away
  /\ asked' \in Seq(Document)
  /\ Len(asked') >= Len(asked) /\ SubSeq(asked', 1, Len(asked)) = asked
  /\ writing' \in BOOLEAN
  /\ UNCHANGED <<delivered, away>>

Deliver ==
  /\ \E n \in Len(delivered) + 1..Len(asked) : delivered' = SubSeq(asked, 1, n)
  /\ UNCHANGED <<asked, writing, away>>

Leave ==
  /\ away' = TRUE
  /\ UNCHANGED <<asked, writing, delivered>>

GiveUp ==
  /\ away' = TRUE
  /\ asked' = <<>> /\ writing' = FALSE /\ delivered' = <<>>

ReplNext == Ask \/ Deliver \/ Leave \/ GiveUp

\* Again and again everything is delivered that was asked, as long as the client
\* stays and is not in the middle of a document.
Serving == []<>(delivered = asked \/ writing \/ away)

ReplSpec == ReplInit /\ [][ReplNext]_replVars /\ Serving
=============================================================================
