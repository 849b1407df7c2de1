------------------------------ MODULE MCSearch ------------------------------
(* Records and requests for TLC.                                           *)
EXTENDS Search

CONSTANTS h1, h2

Letters == [A |-> "a", B |-> "b"]
HashTexts == [h \in Hashes |-> IF h = h1 THEN <<"F", "0", "1">> ELSE <<"2", "3", "4">>]
HexText == {"0", "1", "2", "3", "4", "f"}

Peer(id) == [id |-> id, port |-> 1]

\* A client that can be named as a source, and one that cannot and has it all.
Sharing == {[endpoints |-> {Peer(9)}, complete |-> 0], [endpoints |-> {}, complete |-> 1]}

Record(h, name, type, format, size, sources, length, endpoints) ==
    [hash |-> h, name |-> name,
     str |-> [type |-> type, format |-> format, codec |-> <<>>],
     num |-> [size |-> size, sources |-> sources, complete |-> 0, length |-> length, bitrate |-> 0],
     endpoints |-> endpoints]

\* Two versions of each file, and records that are refused.
First1 == Record(h1, <<"A", "b", "c", "a", "b">>, <<"V">>, <<"x">>, 3, 0, 62,
                 <<Peer(1), Peer(2), Peer(9)>>)
First2 == Record(h1, <<"f", "0", "1">>, <<>>, <<".", "x">>, 40, 7, 0, <<>>)
Second == Record(h2, <<" ", "x", "b", "c", "a", " ">>, <<"v">>, <<>>, 5, 1, 0, <<Peer(9)>>)

Records == {First1, First2, Second,
            [First1 EXCEPT !.hash = ZeroHash], [First1 EXCEPT !.name = <<" ">>],
            [First1 EXCEPT !.num["size"] = 0], [Second EXCEPT !.endpoints = <<BadEndpoint>>]}

Stored == {<<>>, <<First2>>, <<Second, First1>>}

Offered == [h \in Hashes |-> IF h = h2 THEN Normalize(Second) ELSE NoRecord]

----------------------------------------------------------------------------
ID(name) == [by |-> "id", name |-> name]
Name(name) == [by |-> "name", name |-> name]
Keyword(value) == [term |-> "keyword", value |-> value]
Text(tag, value) == [term |-> "string", tag |-> tag, value |-> value, parts |-> <<>>]
Length(tag, parts) == [term |-> "string", tag |-> tag, value |-> <<"t">>, parts |-> parts]
Number(tag, op, n) == [term |-> "number", tag |-> tag, op |-> op, number |-> n]
Bool(op, left, right) == [term |-> "bool", op |-> op, left |-> left, right |-> right]

bca == Keyword(<<"b", "c", "A">>)
short == Keyword(<<"a", "b", " ">>)
crossed == Keyword(<<"b", "c", "a", "b", "c">>)
byHash1 == Keyword(<<"f", "0", "1">>)
byLink2 == Keyword(HashPrefix \o <<"2", "3", "4">>)
video == Text(ID("type"), <<"v">>)
big == Number(ID("size"), ">=", 5)

Keywords == {bca, short, crossed, byHash1, byLink2, Keyword(<<" ">>)}
Texts == {video, Text(ID("format"), <<".", "x">>), Text(ID("format"), <<".", ".", "x">>),
          Length(ID("length"), <<1, 2>>),
          Length(Name("length"), <<62>>), Length(ID("length"), <<1, -1>>),
          Text(ID("size"), <<"v">>), Text(Name("type"), <<>>)}
Numbers == {Number(ID("size"), op, 5) : op \in NumericOps \cup {"bad"}}
           \cup {Number(ID("sources"), op, 2) : op \in {"=", ">", "<="}}
           \cup {Number(Name("length"), "<", 62), Number(ID("type"), "=", 1)}
Terms == Keywords \cup Texts \cup Numbers \cup {[term |-> "broken"]}

Pairs == {Bool(op, l, r) : op \in BoolOps \cup {"bad"}, l \in {bca, video}, r \in {crossed, byHash1, big}}
         \cup {Bool("and", Number(ID("size"), o, 3), Number(ID("size"), p, 5)) :
                   o \in {">=", "<=", "="}, p \in {">", "<", "="}}
         \cup {Bool("or", Length(Name("length"), <<62>>), big), Bool("and", short, bca)}
LeftCombs == {Bool(op, Bool(o, bca, video), big) : op \in BoolOps, o \in {"and", "xor"}}
RightCombs == {Bool(op, bca, Bool(o, video, big)) : op \in BoolOps, o \in {"andnot", "or"}}
Deep == {Bool("or", Bool(op, Bool("and", bca, video), big), short) : op \in BoolOps}
        \cup {Bool("or", short, Bool("or", bca, Bool(op, video, big))) : op \in BoolOps}

MCRequests ==
    [form : {"empty"}, tree : {bca}]
    \cup [form : {"prefix"}, tree : Terms \cup Pairs \cup LeftCombs \cup RightCombs \cup Deep]
    \cup [form : {"linear"}, tree : Pairs \cup LeftCombs
                                    \cup {Bool("or", t, short) : t \in LeftCombs}]
    \cup [form : {"cut", "extra"}, tree : {bca} \cup {Bool("or", bca, big)}
                                         \cup {Bool("and", bca, Bool("or", video, big))}]
=============================================================================
