------------------------------- MODULE Paging -------------------------------
(***************************************************************************)
(* The answer of a search that a session keeps and sends page by page      *)
(* (handleSearch, handleSearchMore and handleLogin in ed2ksrv/server.go).  *)
(* Only its own goroutine touches what a session keeps.                    *)
(***************************************************************************)
EXTENDS Naturals, Sequences

CONSTANTS
    Clients,      \* TCP connections
    BatchSize     \* Config.SearchBatchSize

ASSUME BatchAssumption == BatchSize \in Nat \ {0}

VARIABLES
    searchResult,  \* clientSession.searchResult
    searchOffset,  \* clientSession.searchOffset
    received,      \* history: the pages that were sent since, put together
    more           \* history: whether the last page announced another

session == <<searchResult, searchOffset, received, more>>

InitPaging ==
    /\ searchResult = [c \in Clients |-> <<>>]
    /\ searchOffset = [c \in Clients |-> 0]
    /\ received = [c \in Clients |-> <<>>]
    /\ more = [c \in Clients |-> FALSE]

\* Where the page that starts after offset ends.
PageEnd(results, offset) ==
    IF offset + BatchSize > Len(results) THEN Len(results) ELSE offset + BatchSize

\* handleSearchMore: the next page, or an empty one; before is what was sent.
SendPage(c, results, offset, before) ==
    LET end == IF offset >= Len(results) THEN offset ELSE PageEnd(results, offset) IN
    /\ searchOffset' = [searchOffset EXCEPT ![c] = end]
    /\ received' = [received EXCEPT ![c] =
          before \o SubSeq(results, offset + 1, end)]
    /\ more' = [more EXCEPT ![c] = end < Len(results)]

\* (A mutant: the offset of the search before is kept.)
FirstPageMutant(c, results) ==
    /\ searchResult' = [searchResult EXCEPT ![c] = results]
    /\ SendPage(c, results, searchOffset[c], <<>>)

\* handleSearch: the results are kept, the offset starts again.
FirstPage(c, results) ==
    /\ searchResult' = [searchResult EXCEPT ![c] = results]
    /\ SendPage(c, results, 0, <<>>)

NextPage(c) ==
    /\ SendPage(c, searchResult[c], searchOffset[c], received[c])
    /\ UNCHANGED searchResult

\* handleLogin forgets the results of an earlier search.
ForgetResults(c) ==
    /\ searchResult' = [searchResult EXCEPT ![c] = <<>>]
    /\ searchOffset' = [searchOffset EXCEPT ![c] = 0]
    /\ received' = [received EXCEPT ![c] = <<>>]
    /\ more' = [more EXCEPT ![c] = FALSE]

\* What a session does, with answers whose entries are in Entries.
PagingNext(Entries) ==
    \E c \in Clients :
        \/ ForgetResults(c) \/ NextPage(c)
        \/ \E results \in Seq(Entries) : FirstPage(c, results)

----------------------------------------------------------------------------
\* However the catalog and the runtime index change between two pages, the pages
\* of a search are its answer, each entry once, and the flag of the last page
\* says whether anything is left (handleSearchMore).
PagesExact ==
    \A c \in Clients :
        /\ received[c] = SubSeq(searchResult[c], 1, Len(received[c]))
        /\ more[c] <=> Len(received[c]) < Len(searchResult[c])
=============================================================================
