------------------------------ MODULE Service -------------------------------
(***************************************************************************)
(* The server as a set of goroutines that start, serve and stop:           *)
(*   - Serve: opens the listeners, starts the UDP side, accepts clients    *)
(*     (ed2ksrv/server.go, server_udp.go);                                 *)
(*   - serveUDP: the UDP read loop, which answers most datagrams itself;   *)
(*   - udpSearchWorker: a pool behind a bounded queue, for searches        *)
(*     (udp_search.go);                                                    *)
(*   - Shutdown, called from another goroutine at any time.                *)
(*                                                                         *)
(* A datagram is one of Requests; what it asks for is chosen when it is    *)
(* read.  A reply is a sequence of blocks (one per search result or per    *)
(* requested file with sources), which udpDatagramWriter packs into        *)
(* datagrams; all that counts of a block is where it ends in the bytes of  *)
(* the reply.  Of a TCP connection only its registration matters, and      *)
(* whether its peer reads: a callback is written to it by the read loop.   *)
(***************************************************************************)
EXTENDS Integers, FiniteSets, Sequences

CONSTANTS
    Requests,    \* datagrams that reach the server, each once
    Clients,     \* TCP connections
    Workers,     \* the goroutines of udpSearchWorker
    Loop,        \* the goroutine of serveUDP
    Sizes,       \* lengths of the replies that are one block
    Findings,    \* what a search or a source lookup may find: the ends of its blocks
    MaxPayload,  \* Config.UDP.MaxPayloadBytes
    QueueSize,   \* Config.UDP.SearchQueueSize
    MaxResults,  \* Config.UDP.MaxResults
    None         \* no request, no client

ASSUME ProcessAssumption == Loop \notin Workers
ASSUME NoneAssumption == None \notin Requests \cup Clients
ASSUME SizeAssumption == Sizes \subseteq Nat \ {0}
ASSUME FindingsAssumption ==
    /\ Findings \subseteq Seq(Nat \ {0})
    /\ \A ends \in Findings : \A i, k \in DOMAIN ends : i < k => ends[i] < ends[k]
ASSUME LimitAssumption == /\ MaxPayload \in Nat \ {0}
                          /\ QueueSize \in Nat \ {0}
                          /\ MaxResults \in Nat

Procs == Workers \cup {Loop}

VARIABLES
    main,      \* where Serve is
    listener,  \* Server.listener: none yet, open or shut
    udpConn,   \* Server.udpConn: nil, open, taken by Shutdown, or shut
    shutdown,  \* how far Shutdown is
    found,     \* local to Shutdown: did it find a listener?
    victims,   \* local to Shutdown: the clients it found registered
    status,    \* connection -> away, accepted, registered or closed
    stalled,   \* the connections whose peer does not read
    pc,        \* where the read loop and the workers are
    queue,     \* udpSearchQueue: requests, and whether they are REQ2 or REQ3
    job,       \* the reply a goroutine is sending, with its udpDatagramWriter
    target,    \* the client the read loop calls back
    phase      \* request -> new, queued, replying or done

sockets == <<main, listener, udpConn, shutdown, found, victims>>
peers == <<status, stalled>>
udp == <<pc, queue, job, target, phase>>
vars == <<sockets, peers, udp>>

\* A reply: its request, the ends of its blocks, how many of them have been added,
\* how many of these are no longer in the buffer, the datagrams handed to writeUDP
\* (<<i, k>> has the blocks after the i-th up to the k-th), and whether the request
\* is well formed.
Reply(r, ends, whole) ==
    [request |-> r, ends |-> ends, added |-> 0, from |-> 0, sent |-> <<>>,
     whole |-> whole]

NoJob == Reply(None, <<>>, TRUE)

Init ==
    /\ main = "start"
    /\ listener = "none"
    /\ udpConn = "nil"
    /\ shutdown = "no"
    /\ found = FALSE
    /\ victims = {}
    /\ status = [c \in Clients |-> "away"]
    /\ stalled = {}
    /\ pc = [p \in Procs |-> "off"]
    /\ queue = <<>>
    /\ job = [p \in Procs |-> NoJob]
    /\ target = None
    /\ phase = [r \in Requests |-> "new"]

----------------------------------------------------------------------------
(* Serve.                                                                  *)

\* Serve makes the listener known under Server.mu.
Listen ==
    /\ main = "start"
    /\ main' = "udp"
    /\ listener' = "open"
    /\ UNCHANGED <<udpConn, shutdown, found, victims, peers, udp>>

\* maybeStartServerUDP: the socket, the workers and the read loop.
StartUDP ==
    /\ main = "udp"
    /\ main' = "accept"
    /\ udpConn' = "open"
    /\ pc' = [p \in Procs |-> "idle"]
    /\ UNCHANGED <<listener, shutdown, found, victims, peers,
                   queue, job, target, phase>>

\* The UDP port cannot be bound: the server goes on without.
StartUDPFails ==
    /\ main = "udp"
    /\ main' = "accept"
    /\ UNCHANGED <<listener, udpConn, shutdown, found, victims, peers, udp>>

\* Accept hands a connection to handleConn.
Accept(c) ==
    /\ main = "accept"
    /\ listener = "open"
    /\ status[c] = "away"
    /\ status' = [status EXCEPT ![c] = "accepted"]
    /\ UNCHANGED <<sockets, stalled, udp>>

\* Accept fails on the closed listener, and Serve returns.
Return ==
    /\ main = "accept"
    /\ listener = "shut"
    /\ main' = "returned"
    /\ UNCHANGED <<listener, udpConn, shutdown, found, victims, peers, udp>>

\* A client logs in (registerClient), leaves, or stops reading.
Login(c) ==
    /\ status[c] = "accepted"
    /\ status' = [status EXCEPT ![c] = "registered"]
    /\ UNCHANGED <<sockets, stalled, udp>>

Leave(c) ==
    /\ status[c] \in {"accepted", "registered"}
    /\ status' = [status EXCEPT ![c] = "closed"]
    /\ UNCHANGED <<sockets, stalled, udp>>

Stall(c) ==
    /\ status[c] = "registered"
    /\ c \notin stalled
    /\ stalled' = stalled \cup {c}
    /\ UNCHANGED <<sockets, status, udp>>

----------------------------------------------------------------------------
(* The UDP read loop.                                                      *)

\* ReadFromUDP returns datagram r to the loop.
Reads(r) ==
    /\ pc[Loop] = "idle"
    /\ udpConn \in {"open", "taken"}
    /\ phase[r] = "new"

\* Malformed, unknown, refused by the limiter, a reply of a peer, a callback to
\* nobody: counted, and not answered.
Ignore(r) ==
    /\ Reads(r)
    /\ phase' = [phase EXCEPT ![r] = "done"]
    /\ UNCHANGED <<sockets, peers, pc, queue, job, target>>

\* A goroutine starts to put a reply together.
Begins(p, r, ends, whole) ==
    /\ job' = [job EXCEPT ![p] = Reply(r, ends, whole)]
    /\ pc' = [pc EXCEPT ![p] = "reply"]
    /\ phase' = [phase EXCEPT ![r] = "replying"]

\* Statistics, description, server list: one block, answered at once.
Answer(r) ==
    /\ Reads(r)
    /\ \E n \in Sizes : Begins(Loop, r, <<n>>, TRUE)
    /\ UNCHANGED <<sockets, peers, queue, target>>

\* handleUDPGetSources: the blocks of the files that have sources; a malformed
\* record ends the request without the last flush.
GetSources(r) ==
    /\ Reads(r)
    /\ \E ends \in Findings, whole \in BOOLEAN : Begins(Loop, r, ends, whole)
    /\ UNCHANGED <<sockets, peers, queue, target>>

\* Can a search be sent to the channel without waiting?
Room == Len(queue) < QueueSize

\* handleUDPSearchRequest: queue the search, or drop it when the queue is full.
Search(r) ==
    /\ Reads(r)
    /\ IF Room
       THEN /\ \E many \in BOOLEAN : queue' = Append(queue, <<r, many>>)
            /\ phase' = [phase EXCEPT ![r] = "queued"]
       ELSE /\ phase' = [phase EXCEPT ![r] = "done"]
            /\ UNCHANGED queue
    /\ UNCHANGED <<sockets, peers, pc, job, target>>

\* handleUDPCallback finds its target and writes to it ...
Callback(r) ==
    /\ Reads(r)
    /\ \E c \in Clients :
          /\ status[c] = "registered"
          /\ target' = c
    /\ pc' = [pc EXCEPT ![Loop] = "callback"]
    /\ phase' = [phase EXCEPT ![r] = "done"]
    /\ UNCHANGED <<sockets, peers, queue, job>>

\* ... and comes back when the peer reads or the connection is closed.
CallbackReturns ==
    /\ pc[Loop] = "callback"
    /\ target \notin stalled \/ status[target] = "closed"
    /\ pc' = [pc EXCEPT ![Loop] = "idle"]
    /\ target' = None
    /\ UNCHANGED <<sockets, peers, queue, job, phase>>

\* A read error ends the loop: the socket is closed, or the error is not
\* temporary.
LoopEnds ==
    /\ pc[Loop] = "idle"
    /\ pc' = [pc EXCEPT ![Loop] = "ended"]
    /\ UNCHANGED <<sockets, peers, queue, job, target, phase>>

----------------------------------------------------------------------------
(* The workers.                                                            *)

\* The cap on the results of one search.
Limit(many) ==
    LET limit == IF ~many /\ MaxResults > 8 THEN MaxResults \div 8 ELSE MaxResults
    IN  IF limit < 1 THEN 1 ELSE limit

Capped(results, many) ==
    IF Len(results) > Limit(many) THEN SubSeq(results, 1, Limit(many)) ELSE results

\* (A mutant: a worker ends after its first search.)
WorkerEndsMutant(w) ==
    /\ pc[w] = "idle"
    /\ shutdown # "no" \/ \E r \in Requests : phase[r] = "done"
    /\ pc' = [pc EXCEPT ![w] = "ended"]
    /\ UNCHANGED <<sockets, peers, queue, job, target, phase>>

\* udpSearchWorker's select: both cases may be ready.
WorkerEnds(w) ==
    /\ pc[w] = "idle"
    /\ shutdown # "no"
    /\ pc' = [pc EXCEPT ![w] = "ended"]
    /\ UNCHANGED <<sockets, peers, queue, job, target, phase>>

\* runUDPSearch: search, cap the results and put them into datagrams.
Work(w) ==
    /\ pc[w] = "idle"
    /\ queue # <<>>
    /\ \E results \in Findings :
          Begins(w, Head(queue)[1], Capped(results, Head(queue)[2]), TRUE)
    /\ queue' = Tail(queue)
    /\ UNCHANGED <<sockets, peers, target>>

----------------------------------------------------------------------------
(* udpDatagramWriter.                                                      *)

\* The bytes of the blocks after the i-th up to the k-th.
Bytes(ends, i, k) == ends[k] - (IF i = 0 THEN 0 ELSE ends[i])

\* (A mutant: the block that is being added is not counted.)
FullMutant(j) == j.from < j.added /\ Bytes(j.ends, j.from, j.added) > MaxPayload

\* Must the buffer be sent before the next block is added?
Full(j) == j.from < j.added /\ Bytes(j.ends, j.from, j.added + 1) > MaxPayload

\* flush: the buffer, unless it is empty.
Sent(j) == IF j.from < j.added THEN Append(j.sent, <<j.from, j.added>>) ELSE j.sent

\* add: one block, which may send the buffer.
Add(p) ==
    LET j == job[p] IN
    /\ pc[p] = "reply"
    /\ j.added < Len(j.ends)
    /\ job' = [job EXCEPT ![p] =
          [j EXCEPT !.added = j.added + 1,
                    !.from = IF Full(j) THEN j.added ELSE j.from,
                    !.sent = IF Full(j) THEN Sent(j) ELSE j.sent]]
    /\ UNCHANGED <<sockets, peers, pc, queue, target, phase>>

\* The flush at the end of a reply, unless its request was broken off.
Flush(p) ==
    LET j == job[p] IN
    /\ pc[p] = "reply"
    /\ j.added = Len(j.ends)
    /\ pc' = [pc EXCEPT ![p] = "flushed"]
    /\ job' = [job EXCEPT ![p] =
          [j EXCEPT !.from = j.added, !.sent = IF j.whole THEN Sent(j) ELSE j.sent]]
    /\ UNCHANGED <<sockets, peers, queue, target, phase>>

\* (A mutant: the loop does not return from a request that was broken off.)
FinishMutant(p) ==
    /\ pc[p] = "flushed"
    /\ job[p].whole
    /\ pc' = [pc EXCEPT ![p] = "idle"]
    /\ phase' = [phase EXCEPT ![job[p].request] = "done"]
    /\ job' = [job EXCEPT ![p] = NoJob]
    /\ UNCHANGED <<sockets, peers, queue, target>>

\* The handler counts the request and returns.
Finish(p) ==
    /\ pc[p] = "flushed"
    /\ pc' = [pc EXCEPT ![p] = "idle"]
    /\ phase' = [phase EXCEPT ![job[p].request] = "done"]
    /\ job' = [job EXCEPT ![p] = NoJob]
    /\ UNCHANGED <<sockets, peers, queue, target>>

----------------------------------------------------------------------------
(* Shutdown.                                                               *)

\* close(s.closed).
CloseChannel ==
    /\ shutdown = "no"
    /\ shutdown' = "closed"
    /\ UNCHANGED <<main, listener, udpConn, found, victims, peers, udp>>

\* Under Server.mu: remember what there is to close.
TakeConns ==
    /\ shutdown = "closed"
    /\ shutdown' = "taken"
    /\ found' = (listener = "open")
    /\ udpConn' = IF udpConn = "open" THEN "taken" ELSE udpConn
    /\ victims' = {c \in Clients : status[c] = "registered"}
    /\ UNCHANGED <<main, listener, peers, udp>>

CloseSockets ==
    /\ shutdown = "taken"
    /\ shutdown' = "sockets"
    /\ udpConn' = IF udpConn = "taken" THEN "shut" ELSE udpConn
    /\ listener' = IF found THEN "shut" ELSE listener
    /\ UNCHANGED <<main, found, victims, peers, udp>>

\* (A mutant: the clients are left alone.)
CloseClientsMutant ==
    /\ shutdown = "sockets"
    /\ shutdown' = "done"
    /\ UNCHANGED <<main, listener, udpConn, found, victims, peers, udp>>

\* The connections of the clients, one after the other.
CloseClients ==
    /\ shutdown = "sockets"
    /\ shutdown' = "done"
    /\ status' = [c \in Clients |-> IF c \in victims THEN "closed" ELSE status[c]]
    /\ UNCHANGED <<main, listener, udpConn, found, victims, stalled, udp>>

----------------------------------------------------------------------------
Serve == Listen \/ StartUDP \/ StartUDPFails \/ Return
Peer(c) == Accept(c) \/ Login(c) \/ Leave(c) \/ Stall(c)
Datagram(r) ==
    Ignore(r) \/ Answer(r) \/ GetSources(r) \/ Search(r) \/ Callback(r)
Worker(w) == WorkerEnds(w) \/ Work(w) \/ Add(w) \/ Flush(w) \/ Finish(w)
ReadLoop == CallbackReturns \/ Add(Loop) \/ Flush(Loop) \/ Finish(Loop)
Stop == TakeConns \/ CloseSockets \/ CloseClients

Next ==
    \/ Serve \/ ReadLoop \/ LoopEnds \/ CloseChannel \/ Stop
    \/ \E c \in Clients : Peer(c)
    \/ \E r \in Requests : Datagram(r)
    \/ \E w \in Workers : Worker(w)

\* The scheduler runs every goroutine that can go on.  Clients, datagrams and
\* the call of Shutdown owe nothing; a read of the closed socket fails at once.
Spec ==
    /\ Init /\ [][Next]_vars
    /\ WF_vars(Serve) /\ WF_vars(ReadLoop) /\ WF_vars(Stop)
    /\ WF_vars(udpConn = "shut" /\ LoopEnds)
    /\ \A w \in Workers : WF_vars(Worker(w))

----------------------------------------------------------------------------
(* Properties.                                                             *)

\* "A single mini-packet is never split across datagrams (it is sent oversized
\* if it alone exceeds max)" (udp_search.go:243).
Fits(ends, i, k) == k = i + 1 \/ Bytes(ends, i, k) <= MaxPayload

\* Where a reply may be cut: whatever is left in one piece fits into a datagram.
Cuts(ends) ==
    {cut \in SUBSET (1..(Len(ends) - 1)) :
        \A i, k \in 0..Len(ends) :
            (i < k /\ ~\E x \in cut : i < x /\ x < k) => Fits(ends, i, k)}

\* A finished reply was sent whole: every block once and in order, each datagram
\* within its limit, in as few datagrams as any way of cutting it; and a request
\* that was broken off has only sent a beginning (udpDatagramWriter).
RepliesPacked ==
    \A p \in Procs : pc[p] = "flushed" =>
        LET ends == job[p].ends
            sent == job[p].sent
            last == IF sent = <<>> THEN 0 ELSE sent[Len(sent)][2] IN
        /\ \A i \in DOMAIN sent :
              /\ sent[i][1] = IF i = 1 THEN 0 ELSE sent[i - 1][2]
              /\ sent[i][1] < sent[i][2]
              /\ Fits(ends, sent[i][1], sent[i][2])
        /\ last <= Len(ends)
        /\ job[p].whole =>
              /\ last = Len(ends)
              /\ \A cut \in Cuts(ends) : Len(sent) <= Cardinality(cut) + 1

\* A search that got into the queue is answered, unless the server is told to
\* stop: no worker is lost and no request is left behind in the queue.
SearchesAnswered ==
    \A r \in Requests :
        phase[r] = "queued" ~> (phase[r] = "done" \/ shutdown # "no")

\* The loop is in a callback to a peer that does not read.
Blocked ==
    /\ pc[Loop] = "callback"
    /\ target \in stalled
    /\ status[target] # "closed"

\* Whatever the read loop handles, it comes back to read the next datagram: the
\* one thing that can hold it up is the target of a callback.
LoopReturns ==
    pc[Loop] \in {"reply", "flushed", "callback"} ~> (pc[Loop] = "idle" \/ Blocked)

\* Once Shutdown has returned, every goroutine whose socket it found comes to an
\* end, in whatever it was interrupted.  (A callback to a client that logged in
\* after Shutdown had listed the clients may still hold the read loop.)
ServiceEnds ==
    (shutdown = "done" /\ udpConn = "shut") ~>
        /\ main = "returned"
        /\ \A w \in Workers : pc[w] = "ended"
        /\ pc[Loop] = "ended" \/ (Blocked /\ target \notin victims)
=============================================================================
