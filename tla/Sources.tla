------------------------------ MODULE Sources -------------------------------
(***************************************************************************)
(* What a client is told of the sources of a file (handleGetSources and    *)
(* orderAndCapSources in ed2ksrv/server.go): the sources of the catalog's  *)
(* record and those of the clients that share the file, each once, in one  *)
(* reply that cannot count more than 255.                                  *)
(***************************************************************************)
EXTENDS Paging, Selection, Integers

CONSTANTS
    FirstHighID,  \* client IDs from here on can be connected to: 0x1000000
    MaxSources,   \* Config.MaxSourcesPerReply
    ReplyLimit    \* the sources one reply can count: 255

ASSUME SourceAssumption == MaxSources \in Int /\ ReplyLimit \in Nat

VARIABLES
    reply,         \* the source reply just sent, forgotten with the next request
    known          \* history: the sources there were for it

replies == <<reply, known>>

Elements(s) == {s[i] : i \in DOMAIN s}

----------------------------------------------------------------------------
HighID(e) == e.id >= FirstHighID

Limit == IF MaxSources <= 0 \/ MaxSources > ReplyLimit THEN ReplyLimit ELSE MaxSources

\* The first of those that are the same.
Distinct(list) == Selected(list, {i \in DOMAIN list : \A j \in 1..(i - 1) : list[j] # list[i]})

\* The stable sort.
HighIDFirst(list) ==
    LET high == {i \in DOMAIN list : HighID(list[i])} IN
    Selected(list, high) \o Selected(list, DOMAIN list \ high)

Cap(list) == SubSeq(list, 1, IF Len(list) > Limit THEN Limit ELSE Len(list))

\* (A mutant: the list is capped before it is ordered.)
OrderAndCapMutant(list) == HighIDFirst(Cap(Distinct(list)))

\* orderAndCapSources: the clients that can be connected to come first.
OrderAndCap(list) == Cap(HighIDFirst(Distinct(list)))

----------------------------------------------------------------------------
InitSources ==
    /\ reply = [c \in Clients |-> <<>>]
    /\ known = [c \in Clients |-> {}]

\* The next request of a client: its last source reply is history.
ForgetReply(c) ==
    /\ reply' = [reply EXCEPT ![c] = <<>>]
    /\ known' = [known EXCEPT ![c] = {}]

\* handleGetSources: static is what the catalog gave, dynamic what the runtime
\* index gave.
AnswerSources(c, static, dynamic) ==
    /\ reply' = [reply EXCEPT ![c] = OrderAndCap(static \o dynamic)]
    /\ known' = [known EXCEPT ![c] = Elements(static) \cup Elements(dynamic)]

\* What a session does, with sources that are in Endpoints.
SourcesNext(Endpoints) ==
    \E c \in Clients :
        \/ ForgetReply(c)
        \/ \E static, dynamic \in Seq(Endpoints) : AnswerSources(c, static, dynamic)

----------------------------------------------------------------------------
\* A source reply has each source once, as many as it can hold, and leaves out
\* no client that can be connected to for one that cannot, nor puts it behind
\* (orderAndCapSources).
SourcesBest ==
    \A c \in Clients :
        /\ Elements(reply[c]) \subseteq known[c]
        /\ Cardinality(Elements(reply[c])) = Len(reply[c])
        /\ Len(reply[c]) = IF Cardinality(known[c]) > Limit THEN Limit
                           ELSE Cardinality(known[c])
        /\ \A i \in DOMAIN reply[c] : ~HighID(reply[c][i]) =>
              \A e \in known[c] : HighID(e) => \E j \in 1..(i - 1) : reply[c][j] = e
=============================================================================
