------------------------------ MODULE Session -------------------------------
(***************************************************************************)
(* parse() and parse_mapping() of parse2.c on top of parse_callback(): the *)
(* texts that ParseBuffer hands on are loaded, their directives executed   *)
(* one by one, and the client is answered.                                 *)
(*                                                                         *)
(* What the *_parse function of a subsystem does is in Ruleset; here it    *)
(* has errors or has none.  No other event is served meanwhile, but the    *)
(* client may write and hang up.                                           *)
(***************************************************************************)
EXTENDS ParseBuffer

CONSTANTS Tree,         \* document -> what there is in it
          NULL

Mode == {"PARSE_ADD", "PARSE_DEL", "PARSE_PRN"}
Subsystem == {"iface", "field", "rule", "process"}

\* A document is a mapping, something else or nothing, or no YAML.  The value of a pair
\* is a sequence or not, an item a mapping that starts with some subsystem or not.
Pair == [mode : Mode \cup {"PARSE_INVALID"}, items : Seq(Subsystem \cup {"unknown", "scalar"}) \cup {NULL}]
Invalid == [root |-> "invalid", pairs |-> <<>>]
ASSUME TreesOfDocuments ==
  \A t \in Range(Tree) : t.root \in {"mapping", "other", "invalid"} /\ t.pairs \in Seq(Pair)
ASSUME ScriptsHaveTrees == \A s \in Script : Range(s) \subseteq DOMAIN Tree

VARIABLES step,         \* in parse(): "pairs", "items", "emit"; "none" outside; "killed"
          tree,         \* what was loaded
          pairs,        \* its pairs that remain
          items,        \* the items that remain of the first of them
          err_cnt,
          did,          \* history: the directives executed for this text
          taken,        \* history: the documents loaded
          answers,      \* what the client has been sent: the value of "errors"
          ahead         \* history: the client once wrote on before it was answered

locals == <<tree, pairs, items, err_cnt, did>>
sessionVars == <<step, locals, taken, answers, ahead>>
allVars == <<vars, sessionVars>>
-----------------------------------------------------------------------------
(* libyaml. *)

\* yaml_parser_load() stops at the first dots: these are the documents it has seen of a
\* text that is the stream from a place on.
Loads(text, from) ==
  {s \in {SubSeq(docs, a, b) : a \in {k \in DOMAIN docs : End(k - 1) = from}, b \in DOMAIN docs} :
    /\ s # <<>> /\ IsPrefix(FlattenSeq(s), text)
    /\ \A k \in 1..Len(s) - 1 : ~ Dotted(s[k])
    /\ Dotted(s[Len(s)]) \/ FlattenSeq(s) = text}

\* Mappings with only blank lines between them are one mapping.
Merged(s) ==
  IF Len(s) = 1 THEN Tree[s[1]]
  ELSE IF \A k \in DOMAIN s : Tree[s[k]].root = "mapping"
       THEN [root |-> "mapping", pairs |-> FlattenSeq([k \in DOMAIN s |-> Tree[s[k]].pairs])]
  ELSE Invalid
-----------------------------------------------------------------------------
\* The client waits for its answer, or does not.
Writes(n) ==
  /\ Send(n)
  /\ ahead' = (ahead \/ (Len(answers) < Len(docs) /\ sent + n > End(Len(answers) + 1)))
  /\ UNCHANGED <<step, locals, taken, answers>>

Leaves == Hangup /\ UNCHANGED sessionVars

\* parse_callback() between two calls of parse().
Buffers ==
  /\ step = "none"
  /\ Callback \/ Extend \/ Exceeds \/ Read \/ ReadNothing \/ ReadEnd \/ Incomplete
  /\ UNCHANGED sessionVars

\* parse(): a text that is no mapping is ignored silently, one that is no YAML counts.
Begin(t) ==
  /\ tree' = t
  /\ pairs' = t.pairs
  /\ items' = <<>>
  /\ did' = <<>>
  /\ err_cnt' = IF t.root = "invalid" THEN 1 ELSE 0
  /\ step' = IF t.root = "mapping" THEN "pairs" ELSE IF t.root = "invalid" THEN "emit" ELSE "none"
  /\ UNCHANGED <<answers, ahead>>

\* What is in the buffer begins after what went before it.
BufferFrom == Len(FlattenSeq(parsed)) + Len(FlattenSeq(dropped))

Load ==
  /\ step = "none"
  /\ Parse
  /\ \E s \in Loads(buf, BufferFrom) : Begin(Merged(s)) /\ taken' = taken \o s

\* A part of a document is anything: one that was cut, or the rest of a discarded text.
LoadRest ==
  /\ step = "none"
  /\ Parse
  /\ Loads(buf, BufferFrom) = {}
  /\ \E t \in Range(Tree) \cup {Invalid} : Begin(t)
  /\ UNCHANGED taken
-----------------------------------------------------------------------------
(* parse_mapping() *)

NextPair == pairs' = Tail(pairs)

Errs(e) == err_cnt' = err_cnt + e

AtPair == step = "pairs" /\ pairs # <<>> /\ UNCHANGED <<vars, tree, taken, answers, ahead>>

NotSequence ==
  /\ AtPair
  /\ pairs[1].items = NULL
  /\ Errs(1)
  /\ NextPair
  /\ UNCHANGED <<step, items, did>>

\* Defect: the loop goes on with the same pair.
NotModeStays ==
  /\ AtPair
  /\ pairs[1].items # NULL /\ pairs[1].mode \notin Mode
  /\ UNCHANGED <<step, pairs, items, err_cnt, did>>

NotMode ==
  /\ AtPair
  /\ pairs[1].items # NULL /\ pairs[1].mode \notin Mode
  /\ Errs(1)
  /\ NextPair
  /\ UNCHANGED <<step, items, did>>

EmitsAll == pairs[1].mode = "PARSE_PRN" /\ pairs[1].items = <<>>

\* An empty list of things to print means everything.
EnterList ==
  /\ AtPair
  /\ pairs[1].items # NULL /\ pairs[1].mode \in Mode
  /\ items' = pairs[1].items
  /\ did' = IF EmitsAll THEN Append(did, <<"PARSE_PRN", "all", 0>>) ELSE did
  /\ step' = "items"
  /\ UNCHANGED <<pairs, err_cnt>>

AtItem == step = "items" /\ items # <<>> /\ UNCHANGED <<vars, tree, taken, answers, ahead>>

\* "node not a map", or a subsystem that is unknown.
ItemRefused ==
  /\ AtItem
  /\ items[1] \notin Subsystem
  /\ Errs(1)
  /\ items' = Tail(items)
  /\ UNCHANGED <<step, pairs, did>>

\* Defect: the errors of the last directive are the errors.
ExecuteForgets ==
  /\ AtItem
  /\ items[1] \in Subsystem
  /\ \E e \in 0..1 :
       /\ err_cnt' = e
       /\ did' = Append(did, <<pairs[1].mode, items[1], e>>)
  /\ items' = Tail(items)
  /\ UNCHANGED <<step, pairs>>

\* iface_parse(), field_parse(), rule_parse() or process_parse().
Execute ==
  /\ AtItem
  /\ items[1] \in Subsystem
  /\ \E e \in 0..1 :
       /\ Errs(e)
       /\ did' = Append(did, <<pairs[1].mode, items[1], e>>)
  /\ items' = Tail(items)
  /\ UNCHANGED <<step, pairs>>

ListDone ==
  /\ step = "items" /\ items = <<>>
  /\ NextPair
  /\ step' = "pairs"
  /\ UNCHANGED <<vars, tree, items, err_cnt, did, taken, answers, ahead>>

MappingDone ==
  /\ step = "pairs" /\ pairs = <<>>
  /\ step' = "emit"
  /\ UNCHANGED <<vars, locals, taken, answers, ahead>>
-----------------------------------------------------------------------------
\* parse_write_handler()
Answer ==
  /\ step = "emit"
  /\ ~ away
  /\ answers' = Append(answers, err_cnt)
  /\ step' = "none"
  /\ UNCHANGED <<vars, locals, taken, ahead>>

\* Nobody reads any more: write() fails, or the signal SIGPIPE ends the program.
AnswerLost ==
  /\ step = "emit"
  /\ away
  /\ step' \in {"none", "killed"}
  /\ UNCHANGED <<vars, locals, taken, answers, ahead>>
-----------------------------------------------------------------------------
SessionInit ==
  /\ Init
  /\ step = "none"
  /\ tree = Invalid /\ pairs = <<>> /\ items = <<>> /\ err_cnt = 0 /\ did = <<>>
  /\ taken = <<>> /\ answers = <<>> /\ ahead = FALSE

Thread ==
  \/ Buffers \/ Load \/ LoadRest
  \/ NotSequence \/ NotMode \/ EnterList \/ ItemRefused \/ Execute \/ ListDone \/ MappingDone
  \/ Answer \/ AnswerLost

SessionNext == (\E n \in 1..Len(Stream) : Writes(n)) \/ Leaves \/ Thread

\* The thread runs whenever it can; clients need neither write nor hang up.
SessionSpec == SessionInit /\ [][SessionNext]_allVars /\ WF_allVars(Thread)
-----------------------------------------------------------------------------
\* Those of a list that name a subsystem.
Listed(mode, list) ==
  FlattenSeq([k \in DOMAIN list |-> IF list[k] \in Subsystem THEN <<<<mode, list[k]>>>> ELSE <<>>])

\* The directives of a mapping that are in order.
Wanted(p) ==
  IF p.items = NULL \/ p.mode \notin Mode THEN <<>>
  ELSE IF p.mode = "PARSE_PRN" /\ p.items = <<>> THEN <<<<p.mode, "all">>>>
  ELSE Listed(p.mode, p.items)
AllWanted(list) == FlattenSeq([k \in DOMAIN list |-> Wanted(list[k])])
InOrder(p) == p.items # NULL /\ p.mode \in Mode /\ Range(p.items) \subseteq Subsystem

(* The client is told the truth: "errors: 0" says that each of its          *)
(* directives is one the program knows and was executed, in its order, once *)
(* and without a failure, a rule published without one of its operations    *)
(* included; and one that fails keeps none of the others from being tried.  *)
AnswerTruthful ==
  step = "emit" /\ tree.root = "mapping" =>
    /\ [k \in DOMAIN did |-> <<did[k][1], did[k][2]>>] = AllWanted(tree.pairs)
    /\ err_cnt = 0 <=>
         /\ \A k \in DOMAIN did : did[k][3] = 0
         /\ \A k \in DOMAIN tree.pairs : InOrder(tree.pairs[k])

(* A client that waits for each answer has each of its documents loaded,    *)
(* once and in order, although parse() looks no further than the first      *)
(* dots of a text: a text is never more than the one document, nor less if  *)
(* no document with an empty line was cut there.                            *)
WaitingClientServed ==
  ~ ahead /\ Kept =>
    /\ taken = SubSeq(docs, 1, Len(taken))
    /\ FlattenSeq(taken) = FlattenSeq(parsed)

\* The k-th document is sent, by a client that waits for its answer and may expect one.
Awaits(k) ==
  /\ k \in DOMAIN docs
  /\ sent >= End(k) /\ Len(answers) < k
  /\ ~ ahead /\ ~ away /\ Kept
  /\ Tree[docs[k]].root # "other"

(* ... and is answered, if the document is a mapping or no YAML at all:     *)
(* whatever is wrong with its members, the loops over them end.             *)
WaitingClientAnswered ==
  \A k \in 1..Max({Len(s) : s \in Script}) : Awaits(k) ~> ~ Awaits(k)
=============================================================================
