------------------------------- MODULE Search -------------------------------
(***************************************************************************)
(* Searches and source lookups of TCP clients (ed2ksrv/server.go) over the *)
(* catalog, which the admin API changes, and the runtime index, which      *)
(* other clients change.                                                   *)
(*                                                                         *)
(* A search reads the catalog in one critical section and the runtime      *)
(* index in another; its result is then kept in the session and sent page  *)
(* by page.  A source lookup reads both in the same way.  Only its own     *)
(* goroutine touches what a session keeps.                                 *)
(***************************************************************************)
EXTENDS CatalogIndex, SearchRequest, Sources

LOCAL INSTANCE SequencesExt

CONSTANTS
    Requests,     \* what clients ask: a form and a tree
    Runtime,      \* hash -> the record of a file clients may offer, or NoRecord
    Offers,       \* what clients may make of a runtime entry: the endpoints in
                  \* byClient, and the number of those that have the whole file
    MaxResults,   \* Config.MaxTCPSearchResults, 0 means unlimited
    NoEndpoint    \* a record has no endpoint

VARIABLES
    offered,       \* the hashes that have an entry in Server.dynamicFiles
    byClient,      \* hash -> dynamicSharedFile.byClient, {} for no entry
    complete,      \* hash -> how many clients have the whole file
    loggedIn,      \* clientSession.loggedIn
    pc,            \* where the goroutine of a session is
    query,         \* local: the expression of the search under way
    partial,       \* local: what the catalog gave, for a search or a lookup
    hash,          \* local: the hash of the lookup under way
    asked          \* history: the request under way

runtime == <<offered, byClient, complete>>
lookup == <<hash, replies>>
vars == <<catalog, runtime, session, lookup, loggedIn, pc, query, partial, asked>>

\* The next request of a client: its last source reply is history.
NextRequest(c) ==
    /\ pc[c] = "idle"
    /\ ForgetReply(c)
    /\ UNCHANGED hash

NoRequest == [form |-> "none", tree |-> MatchNone]

----------------------------------------------------------------------------
(* What clients send (the encoder of a client is not part of the server).  *)

RECURSIVE Encode(_)
Encode(t) ==
    IF t.term = "bool"
    THEN <<[term |-> "bool", op |-> t.op]>> \o Encode(t.left) \o Encode(t.right)
    ELSE <<t>>

RECURSIVE EncodeLinear(_)
EncodeLinear(t) ==
    IF t.term = "bool"
    THEN EncodeLinear(t.left) \o <<[term |-> "bool", op |-> t.op], t.right>>
    ELSE <<t>>

\* The body of a request; "cut" lost its last token and "extra" has one too many.
Body(req) ==
    CASE req.form = "empty" -> <<>>
      [] req.form = "prefix" -> Encode(req.tree)
      [] req.form = "linear" -> EncodeLinear(req.tree)
      [] req.form = "cut" -> Front(Encode(req.tree))
      [] req.form = "extra" -> Append(Encode(req.tree), Last(Encode(req.tree)))

----------------------------------------------------------------------------
(* Searching.                                                              *)

\* makeSharedFileEntry.  The size goes into two tags of half the width.
Entry(r) ==
    [hash |-> r.hash, name |-> r.name, str |-> r.str,
     size |-> r.num["size"] % 2^(W \div 2), sizeHi |-> r.num["size"] \div 2^(W \div 2),
     num |-> [t \in {"sources", "complete", "length", "bitrate"} |-> r.num[t]],
     from |-> IF r.endpoints = <<>> THEN NoEndpoint ELSE r.endpoints[1]]

\* The entries of the records of fs at the positions ps, in order.
EntriesAt(fs, ps) ==
    LET found == Selected(fs, ps) IN [k \in DOMAIN found |-> Entry(found[k])]

\* Catalog.Search.
CatalogSearch(e) ==
    LET q == Summary(e) IN
    EntriesAt(files, {i \in Candidates(q.ok, q.keywords) : Match(e, files[i])})

\* materialize: the record of a runtime file, its sources in any order.
Materialize(h, order) ==
    [Runtime[h] EXCEPT
        !.endpoints = order,
        !.num = [@ EXCEPT !["sources"] = Len(order),
                          !["complete"] = IF complete[h] = 0 THEN Len(order) ELSE complete[h]]]

\* The runtime index in the order a range over its maps may take.
RuntimeListings ==
    {[i \in DOMAIN hs |-> Materialize(hs[i], es[hs[i]])] :
        <<hs, es>> \in SetToSeqs(offered) \X
            {f \in [offered -> UNION {SetToSeqs(byClient[h]) : h \in offered}] :
                \A h \in offered : ToSet(f[h]) = byClient[h]}}

\* capSearchResults.
Capped(results) ==
    IF MaxResults > 0 /\ Len(results) > MaxResults THEN SubSeq(results, 1, MaxResults)
    ELSE results

----------------------------------------------------------------------------
Init ==
    /\ InitCatalog
    /\ InitPaging
    /\ InitSources
    /\ offered = {}
    /\ byClient = [h \in Hashes |-> {}]
    /\ complete = [h \in Hashes |-> 0]
    /\ loggedIn = [c \in Clients |-> FALSE]
    /\ pc = [c \in Clients |-> "idle"]
    /\ query = [c \in Clients |-> MatchNone]
    /\ partial = [c \in Clients |-> <<>>]
    /\ hash = [c \in Clients |-> ZeroHash]
    /\ asked = [c \in Clients |-> NoRequest]

\* An admin request changes the catalog.
Admin == ChangeCatalog /\ UNCHANGED <<runtime, session, lookup, loggedIn, pc, query,
                                      partial, asked>>

\* Other clients offer a file or withdraw it (Sessions).  A client without an
\* endpoint makes an entry too, and none in byClient.
Offer(h) ==
    /\ Runtime[h] # NoRecord
    /\ offered' = offered \cup {h}
    /\ \E offer \in Offers :
          /\ byClient' = [byClient EXCEPT ![h] = offer.endpoints]
          /\ complete' = [complete EXCEPT ![h] = offer.complete]
    /\ UNCHANGED <<catalog, session, lookup, loggedIn, pc, query, partial, asked>>

\* The last endpoint goes, and the entry with it.
Withdraw(h) ==
    /\ h \in offered
    /\ offered' = offered \ {h}
    /\ byClient' = [byClient EXCEPT ![h] = {}]
    /\ complete' = [complete EXCEPT ![h] = 0]
    /\ UNCHANGED <<catalog, session, lookup, loggedIn, pc, query, partial, asked>>

\* handleLogin forgets the results of an earlier search.
Login(c) ==
    /\ NextRequest(c)
    /\ loggedIn' = [loggedIn EXCEPT ![c] = TRUE]
    /\ ForgetResults(c)
    /\ UNCHANGED <<catalog, runtime, pc, query, partial, asked>>

\* dispatch and handleSearch up to the end of Catalog.Search.  A body that cannot
\* be parsed is a search that matches nothing.  Before login the answer is an
\* empty page and nothing changes.
SearchCatalog(c, req) ==
    LET e == IF Parse(Body(req)) = Failed THEN MatchNone ELSE Parse(Body(req)) IN
    /\ NextRequest(c)
    /\ loggedIn[c]
    /\ pc' = [pc EXCEPT ![c] = "search"]
    /\ query' = [query EXCEPT ![c] = e]
    /\ partial' = [partial EXCEPT ![c] = CatalogSearch(e)]
    /\ asked' = [asked EXCEPT ![c] = req]
    /\ UNCHANGED <<catalog, runtime, session, loggedIn>>

\* The rest of searchAll and handleSearch, with the first page.
SearchRuntime(c) ==
    /\ pc[c] = "search"
    /\ \E listing \in RuntimeListings :
          LET found == SelectSeq(listing, LAMBDA r : Match(query[c], r))
              results == Capped(partial[c] \o [i \in DOMAIN found |-> Entry(found[i])]) IN
          FirstPage(c, results)
    /\ pc' = [pc EXCEPT ![c] = "idle"]
    /\ query' = [query EXCEPT ![c] = MatchNone]
    /\ partial' = [partial EXCEPT ![c] = <<>>]
    /\ asked' = [asked EXCEPT ![c] = NoRequest]
    /\ UNCHANGED <<catalog, runtime, lookup, loggedIn>>

\* handleSearchMore.
SearchMore(c) ==
    /\ NextRequest(c)
    /\ NextPage(c)
    /\ UNCHANGED <<catalog, runtime, loggedIn, pc, query, partial, asked>>

\* handleGetSources up to Catalog.Get in sourcesAll.
GetSources(c, h) ==
    LET static == IF byHash[h] = NoRecord THEN <<>> ELSE byHash[h].endpoints IN
    /\ pc[c] = "idle"
    /\ pc' = [pc EXCEPT ![c] = "sources"]
    /\ hash' = [hash EXCEPT ![c] = h]
    /\ partial' = [partial EXCEPT ![c] = static]
    /\ ForgetReply(c)
    /\ UNCHANGED <<catalog, runtime, session, loggedIn, query, asked>>

\* The rest of sourcesAll and handleGetSources.
GetRuntimeSources(c) ==
    /\ pc[c] = "sources"
    /\ \E order \in SetToSeqs(byClient[hash[c]]) : AnswerSources(c, partial[c], order)
    /\ pc' = [pc EXCEPT ![c] = "idle"]
    /\ hash' = [hash EXCEPT ![c] = ZeroHash]
    /\ partial' = [partial EXCEPT ![c] = <<>>]
    /\ UNCHANGED <<catalog, runtime, session, loggedIn, query, asked>>

Next ==
    \/ Admin
    \/ \E h \in Hashes : Offer(h) \/ Withdraw(h)
    \/ \E c \in Clients :
          \/ Login(c) \/ SearchRuntime(c) \/ SearchMore(c) \/ GetRuntimeSources(c)
          \/ \E req \in Requests : SearchCatalog(c, req)
          \/ \E h \in Hashes : GetSources(c, h)

Spec == Init /\ [][Next]_vars

----------------------------------------------------------------------------
(* Properties.                                                             *)

\* The reference for a request: which of a set of records its tree denotes, if
\* it is one the server takes.
RECURSIVE Denotes(_, _)
Denotes(t, rs) ==
    IF t.term = "bool" THEN CombineSets(t.op, Denotes(t.left, rs), Denotes(t.right, rs))
    ELSE TermDenotes(t, rs)

RECURSIVE Height(_)
Height(t) ==
    IF t.term # "bool" THEN 0
    ELSE 1 + (IF Height(t.left) > Height(t.right) THEN Height(t.left) ELSE Height(t.right))

Taken(req) ==
    LET body == Body(req)
        linear == req.form = "linear" /\ Len(body) > 1 IN
    /\ req.form \in {"prefix", "linear"}
    /\ \A i \in DOMAIN body : WellFormed(body[i], linear)
    /\ linear \/ Height(req.tree) <= MaxDepth

Denoted(req, rs) ==
    IF Body(req) = <<>> THEN rs ELSE IF Taken(req) THEN Denotes(req.tree, rs) ELSE {}

Universe == {Normalize(r) : r \in {s \in RawRecords : Valid(s)}}

\* A request is understood as it was meant or matches nothing: the fallback from
\* the prefix to the linear form, the depth limit, missing or surplus tokens
\* never turn one expression into another (ParseSearchRequestLimited).
UnderstoodAsSent ==
    \A c \in Clients : pc[c] = "search" =>
        {r \in Universe : Match(query[c], r)} = Denoted(asked[c], Universe)

\* "the whole expression is a pure-AND tree, so every entry in Keywords is
\* REQUIRED for a match" (protocol.go:46-47), and so is every other field of a
\* summary: it never excludes a record that the expression matches, but for a
\* format that was asked for with two dots.
SummarySound ==
    \A c \in Clients : (pc[c] = "search" /\ Summary(query[c]).ok) =>
        \A r \in Universe :
            Match(query[c], r) => MatchesSummary(r, AsCollected(Summary(query[c])))

RECURSIVE KeywordsOf(_)
KeywordsOf(t) ==
    CASE t.term = "keyword" -> {t.value}
      [] t.term = "bool" -> KeywordsOf(t.left) \cup KeywordsOf(t.right)
      [] OTHER -> {}

\* The catalog's part of an answer is what the request denotes, in the order of
\* the files, but for files that a keyword fits by their hash and not by their
\* name (SameAsScan): whatever the admin API has changed, nothing else is lost
\* and nothing is added (Catalog.Search, searchCandidatesLocked).
AnswerIsAsked ==
    [][\A c \in Clients : (pc[c] = "idle" /\ pc'[c] = "search") =>
         LET wanted == {i \in DOMAIN files : files[i] \in Denoted(asked'[c], ToSet(files))} IN
         \E found \in SUBSET wanted :
             /\ partial'[c] = EntriesAt(files, found)
             /\ \A i \in wanted \ found : \E k \in KeywordsOf(asked'[c].tree) :
                   HashMatches(files[i], k) /\ ~NameMatches(files[i], k)]_vars

\* "Results are identical to a full scan" (catalog.go:150): what Catalog.Search
\* finds is every file that the predicate matches, in the order of the files.
SameAsScan ==
    [][\A c \in Clients : (pc[c] = "idle" /\ pc'[c] = "search") =>
         partial'[c] = EntriesAt(files, {i \in DOMAIN files : Match(query'[c], files[i])})]_vars
=============================================================================
