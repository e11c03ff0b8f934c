----------------------------- MODULE MCSession ------------------------------
(* Instances of Session for TLC. *)
EXTENDS Session

\* Documents of three to ten characters, ended in each of the four ways.
short == <<"a", "n", "n">>
dots == <<"a", "e", "n">>
four == <<"a", "a", "n", "n">>
crlf == <<"a", "r", "n", "r", "n">>
crdots == <<"a", "n", "a", "e", "r", "n">>
lines == <<"a", "n", "a", "r", "n", "n">>
long == <<"a", "a", "n", "a", "a", "n", "a", "a", "n", "n">>
gap == <<"a", "n", "n", "a", "n", "n">>        \* with an empty line within it

ShortScripts == {<<short, crlf, dots>>, <<four, crdots>>, <<lines, short, four>>}
LongScripts == ShortScripts \cup {<<long, dots>>, <<dots, long, short>>, <<gap, four>>}

\* One document that is two full reads.
OneScript == {<<four>>}

\* One document like the examples of the manual.
GapScript == {<<gap>>}

mapping(p) == [root |-> "mapping", pairs |-> p]
P(m, list) == [mode |-> m, items |-> list]

\* Between them every kind of pair and of item.
Documents ==
  (short :> mapping(<<P("PARSE_ADD", <<"iface">>)>>))
    @@ (dots :> mapping(<<P("PARSE_PRN", <<>>), P("PARSE_DEL", <<"process">>)>>))
    @@ (four :> mapping(<<P("PARSE_INVALID", <<"field">>), P("PARSE_ADD", <<"rule", "unknown">>)>>))
    @@ (crlf :> mapping(<<P("PARSE_ADD", NULL), P("PARSE_ADD", <<"scalar", "field">>)>>))
    @@ (crdots :> [root |-> "other", pairs |-> <<>>])
    @@ (lines :> Invalid)
    @@ (gap :> mapping(<<P("PARSE_ADD", <<"field">>)>>))
    @@ (long :> mapping(<<P("PARSE_ADD", <<"rule", "process">>)>>))
=============================================================================
