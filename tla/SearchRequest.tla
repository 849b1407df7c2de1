--------------------------- MODULE SearchRequest ----------------------------
(***************************************************************************)
(* Search requests (ed2ksrv/protocol.go): from the body of a packet to an  *)
(* expression, and from an expression and a file record to a match.        *)
(*                                                                         *)
(* A body is a sequence of tokens, each a boolean operator or a whole term *)
(* with its fields (SearchTerms).                                          *)
(***************************************************************************)
EXTENDS SearchTerms

----------------------------------------------------------------------------
(* Parsing.                                                                *)

\* parseRecursiveSearchExpr: the expression that starts at token i, and the
\* token after it.
RECURSIVE ParsePrefix(_, _, _)
ParsePrefix(body, i, depth) ==
    IF TooDeep(depth) \/ i > Len(body) THEN [expr |-> Failed, next |-> i]
    ELSE IF body[i].term # "bool" THEN [expr |-> Term(body[i], FALSE), next |-> i + 1]
    ELSE IF body[i].op \notin BoolOps THEN [expr |-> Failed, next |-> i]
    ELSE LET left == ParsePrefix(body, i + 1, depth + 1)
             right == ParsePrefix(body, left.next, depth + 1) IN
         IF left.expr = Failed \/ right.expr = Failed THEN [expr |-> Failed, next |-> i]
         ELSE [expr |-> Compound(body[i].op, left.expr, right.expr), next |-> right.next]

\* parseRecursiveSearchRequest: all of the body.
PrefixRequest(body) ==
    LET parsed == ParsePrefix(body, 1, 0) IN
    IF parsed.next = Len(body) + 1 THEN parsed.expr ELSE Failed

\* parseLegacySearchRequest: terms with operators between them, which associate
\* to the left and may be as many as they like.
RECURSIVE LinearRequest(_)
LinearRequest(body) ==
    LET n == Len(body)
        left == LinearRequest(SubSeq(body, 1, n - 2))
        right == Term(body[n], TRUE) IN
    IF n = 0 THEN Failed
    ELSE IF n = 1 THEN right
    ELSE IF body[n - 1].term = "bool" /\ body[n - 1].op \in BoolOps
            /\ left # Failed /\ right # Failed
         THEN Compound(body[n - 1].op, left, right) ELSE Failed

\* ParseSearchRequestLimited.
Parse(body) ==
    IF body = <<>> THEN MatchAll
    ELSE IF PrefixRequest(body) # Failed THEN PrefixRequest(body)
    ELSE LinearRequest(body)

----------------------------------------------------------------------------
(* Matching.                                                               *)

\* The match methods.
RECURSIVE Match(_, _)
Match(e, r) ==
    IF e.kind = "bool" THEN Combine(e.op, Match(e.left, r), Match(e.right, r))
    ELSE TermMatches(e, r)

\* The collectSummary methods.
RECURSIVE CollectSummary(_, _)
CollectSummary(e, q) ==
    IF e.kind # "bool" THEN TermSummary(e, q)
    ELSE IF ~Conjunction(e.op) THEN [q EXCEPT !.ok = FALSE]
    ELSE LET left == CollectSummary(e.left, q)
             right == CollectSummary(e.right, left) IN
         [right EXCEPT !.ok = left.ok /\ right.ok]

\* makeSearchQuery.
Summary(e) == CollectSummary(e, NoSummary)
=============================================================================
