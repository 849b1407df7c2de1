---------------------------- MODULE SearchTerms -----------------------------
(***************************************************************************)
(* The terms of a search (ed2ksrv/protocol.go): how one is read, what it   *)
(* says of a file record, and what it adds to the summary of a search that *)
(* is a conjunction.  SearchRequest puts them together to expressions.     *)
(*                                                                         *)
(* A term is a token with its fields; one whose fields are cut short or    *)
(* whose tag is the empty string is "broken".  A tag is referred to by its *)
(* one-byte ID or by a longer name.  Integers are W bits wide.             *)
(***************************************************************************)
EXTENDS Text, Integers

CONSTANTS
    W,          \* width of an integer: 64
    HashText,   \* file hash -> its text in hexadecimal
    HashLen,    \* the length of that text: 32
    HexDigits,  \* the characters of such a text
    MaxDepth    \* defaultMaxSearchDepth, or Config.UDP.MaxASTDepth

ASSUME DepthAssumption == MaxDepth \in Nat

BoolOps == {"and", "or", "andnot", "xor", "notand"}
NumericOps == {"=", ">", "<", ">=", "<=", "#"}

\* The tags a string or a number may be compared with, by ID and by name.
StringTags(by) == IF by = "id" THEN {"type", "format", "codec", "length"}
                  ELSE {"codec", "length"}
NumericTags(by) == IF by = "id" THEN {"size", "sources", "complete", "bitrate", "length"}
                   ELSE {"bitrate", "length"}

Dot == <<".">>
HashPrefix == <<"e", "d", "2", "k", ":", ":">>

----------------------------------------------------------------------------
(* Expressions.                                                            *)

MatchAll == [kind |-> "all"]
MatchNone == [kind |-> "none"]
Failed == [kind |-> "error"]

\* parseMediaLength: parts are the numbers between the colons of the text, -1 for
\* what is not a number.
ValidLength(parts) == Len(parts) <= 3 /\ \A i \in DOMAIN parts : parts[i] >= 0
MediaLength(parts) ==
    LET total[n \in 0..Len(parts)] == IF n = 0 THEN 0 ELSE total[n - 1] * 60 + parts[n] IN
    total[Len(parts)]

\* makeKeywordExpr.
KeywordExpr(value) ==
    IF TrimSpace(value) = <<>> THEN MatchAll
    ELSE [kind |-> "keyword", value |-> TrimSpace(value)]

\* makeStringTagExpr.
StringExpr(value, parts, tag) ==
    IF TrimSpace(value) = <<>> THEN MatchAll
    ELSE IF tag.name \notin StringTags(tag.by) THEN Failed
    ELSE IF tag.name # "length"
         THEN [kind |-> "string", tag |-> tag.name, value |-> TrimSpace(value)]
    ELSE IF ValidLength(parts)
         THEN [kind |-> "number", tag |-> "length", op |-> "=", number |-> MediaLength(parts)]
    ELSE Failed

\* The reading of a numeric term, and makeNumericTagExpr.
NumberExpr(number, op, tag) ==
    IF op \in NumericOps /\ tag.name \in NumericTags(tag.by)
    THEN [kind |-> "number", tag |-> tag.name, op |-> op, number |-> number]
    ELSE Failed

\* A term.  The linear form knows tags by their ID only.
Term(token, linear) ==
    CASE token.term = "keyword" -> KeywordExpr(token.value)
      [] token.term = "string" /\ (linear => token.tag.by = "id") ->
            StringExpr(token.value, token.parts, token.tag)
      [] token.term = "number" /\ (linear => token.tag.by = "id") ->
            NumberExpr(token.number, token.op, token.tag)
      [] OTHER -> Failed

Compound(op, left, right) == [kind |-> "bool", op |-> op, left |-> left, right |-> right]

\* (A mutant: the depth is not checked.)
TooDeepMutant(depth) == FALSE

TooDeep(depth) == depth > MaxDepth

----------------------------------------------------------------------------
(* Matching.                                                               *)

\* int64(value) of a uint64.
Signed(value) == IF value >= 2^(W - 1) THEN value - 2^W ELSE value

\* compareInt64, compareInt.
Compare(left, op, right) ==
    CASE op = "=" -> left = right
      [] op = ">" -> left > right
      [] op = "<" -> left < right
      [] op = ">=" -> left >= right
      [] op = "<=" -> left <= right
      [] op = "#" -> left # right

\* keywordMatchesRecord, its two ways to match: a substring of the name, and
\* the hash.
NameMatches(r, keyword) == HasSubstring(ToLower(r.name), ToLower(TrimSpace(keyword)))
HashMatches(r, keyword) ==
    LET token == TrimPrefix(ToLower(TrimSpace(keyword)), HashPrefix) IN
    /\ Len(token) = HashLen
    /\ \A i \in DOMAIN token : token[i] \in HexDigits
    /\ EqualFold(HashText[r.hash], token)
KeywordMatches(r, keyword) == NameMatches(r, keyword) \/ HashMatches(r, keyword)

\* searchStringTagExpr.match: an extension may be asked for with its dot.
StringMatches(r, tag, value) ==
    EqualFold(r.str[tag], IF tag = "format" THEN TrimPrefix(value, Dot) ELSE value)

\* The match methods of an expression without operator.
TermMatches(e, r) ==
    CASE e.kind = "all" -> TRUE
      [] e.kind = "none" -> FALSE
      [] e.kind = "keyword" -> KeywordMatches(r, e.value)
      [] e.kind = "string" -> StringMatches(r, e.tag, e.value)
      [] e.kind = "number" -> Compare(r.num[e.tag], e.op, Signed(e.number))

\* searchCompoundExpr.match, from the matches of the two sides.
Combine(op, left, right) ==
    CASE op = "and" -> left /\ right
      [] op = "or" -> left \/ right
      [] op = "andnot" -> left /\ ~right
      [] op = "xor" -> left # right
      [] op = "notand" -> ~left /\ right

----------------------------------------------------------------------------
(* Summaries: what a conjunction requires, in fields of its own.           *)

\* The fields of an empty SearchQuery; 0 and <<>> mean that nothing is required.
NoSummary ==
    [ok |-> TRUE, keywords |-> <<>>,
     str |-> [t \in {"type", "format", "codec"} |-> <<>>],
     min |-> [t \in NumericTags("id") |-> 0],
     max |-> [t \in NumericTags("id") |-> 0]]

Ranged == {"size", "length", "bitrate"}

\* (A mutant: "at least" is taken for "more than".)
SummarizeNumberMutant(q, tag, op, v) ==
    IF op \in {">", ">="} /\ v >= q.min[tag] THEN [q EXCEPT !.min[tag] = v + 1] ELSE q

\* applyRangeInt64Summary, applyRangeIntSummary, applyMinIntSummary.
SummarizeNumber(q, tag, op, v) ==
    CASE tag \in Ranged /\ op = "=" -> [q EXCEPT !.min[tag] = v, !.max[tag] = v]
      [] tag \in Ranged /\ op \in {">", ">="} /\ (q.min[tag] = 0 \/ v > q.min[tag]) ->
            [q EXCEPT !.min[tag] = v]
      [] tag \in Ranged /\ op \in {"<", "<="} /\ (q.max[tag] = 0 \/ v < q.max[tag]) ->
            [q EXCEPT !.max[tag] = v]
      [] tag \notin Ranged /\ op \in {"=", ">", ">="} /\ v > q.min[tag] ->
            [q EXCEPT !.min[tag] = v]
      [] OTHER -> q

\* (A mutant: what one side of any operator requires counts as required.)
ConjunctionMutant(op) == TRUE

\* Only a conjunction has a summary.
Conjunction(op) == op = "and"

\* The collectSummary methods of an expression without operator: the summary q
\* with what e requires, and in ok whether that is all e says.
TermSummary(e, q) ==
    CASE e.kind = "all" -> [q EXCEPT !.ok = TRUE]
      [] e.kind = "none" -> [q EXCEPT !.ok = FALSE]
      [] e.kind = "keyword" -> [q EXCEPT !.ok = TRUE, !.keywords = Append(@, e.value)]
      [] e.kind = "string" ->
            [q EXCEPT !.ok = TRUE,
                      !.str[e.tag] = IF e.tag = "format" THEN TrimPrefix(e.value, Dot)
                                     ELSE e.value]
      [] e.kind = "number" ->
            [SummarizeNumber(q, e.tag, e.op, Signed(e.number)) EXCEPT !.ok = TRUE]

\* matchesLegacySearch: a record against a summary alone.
MatchesSummary(r, q) ==
    /\ \A t \in DOMAIN q.str :
          q.str[t] # <<>> => EqualFold(r.str[t], IF t = "format" THEN TrimPrefix(q.str[t], Dot)
                                                 ELSE q.str[t])
    /\ \A t \in DOMAIN q.min : q.min[t] > 0 => r.num[t] >= q.min[t]
    /\ \A t \in DOMAIN q.max : q.max[t] > 0 => r.num[t] <= q.max[t]
    /\ \A i \in DOMAIN q.keywords : KeywordMatches(r, q.keywords[i])

\* A summary without what is read differently than it was written: the dot of a
\* format is taken off when it is collected, and once more when it is compared.
AsCollected(q) == [q EXCEPT !.str["format"] = IF HasPrefix(@, Dot) THEN <<>> ELSE @]

----------------------------------------------------------------------------
(* What is meant: the reference for the above.                             *)

\* The tokens that the server takes.
WellFormed(token, linear) ==
    CASE token.term = "bool" -> token.op \in BoolOps
      [] token.term = "keyword" -> TRUE
      [] token.term = "broken" -> FALSE
      [] token.term = "string" ->
            /\ linear => token.tag.by = "id"
            /\ TrimSpace(token.value) # <<>> =>
                  /\ token.tag.name \in StringTags(token.tag.by)
                  /\ token.tag.name = "length" => ValidLength(token.parts)
      [] token.term = "number" ->
            /\ linear => token.tag.by = "id"
            /\ token.op \in NumericOps /\ token.tag.name \in NumericTags(token.tag.by)

\* Those of the records rs that a term denotes.
TermDenotes(t, rs) ==
    CASE t.term = "keyword" -> {r \in rs : KeywordMatches(r, t.value)}
      [] t.term = "number" -> {r \in rs : Compare(r.num[t.tag.name], t.op, t.number)}
      [] t.term = "string" ->
            {r \in rs : \/ TrimSpace(t.value) = <<>>
                       \/ IF t.tag.name = "length" THEN r.num["length"] = MediaLength(t.parts)
                          ELSE StringMatches(r, t.tag.name, TrimSpace(t.value))}

\* Those that an operator denotes, from the ones of its two sides.
CombineSets(op, left, right) ==
    CASE op = "and" -> left \cap right
      [] op = "or" -> left \cup right
      [] op = "andnot" -> left \ right
      [] op = "xor" -> (left \ right) \cup (right \ left)
      [] op = "notand" -> right \ left
=============================================================================
