----------------------------- MODULE LockOrder ------------------------------
(***************************************************************************)
(* The locks of the server and the order in which its goroutines take them *)
(* (ed2ksrv/server.go):                                                    *)
(*   - Server.mu, a sync.RWMutex: registry, runtime index and counters;    *)
(*   - clientSession.mu, one per connection, a sync.Mutex;                 *)
(*   - clientSession.writeMu, one per connection, held across conn.Write.  *)
(*                                                                         *)
(* A handler is the sequence of its lock operations, in the code's order;  *)
(* the goroutine of a connection works through one handler at a time, and  *)
(* an HTTP goroutine answers admin requests.  A critical section that takes*)
(* no other lock and does no I/O is one operation.  What the sections      *)
(* compute is left out, except whether a connection is registered: that is *)
(* what makes its mutex reachable for the others.                          *)
(***************************************************************************)
EXTENDS Integers, Sequences, SequencesExt, FiniteSets

CONSTANTS
    Clients,   \* connections, each with its goroutine
    Admin,     \* the goroutine that serves an admin HTTP request
    MayStall,  \* the connections whose peer may stop reading for good
    Relogin,   \* may a client send a second login on one connection?
    None       \* nobody

ASSUME ClientsAssumption == IsFiniteSet(Clients)
ASSUME AdminAssumption == Admin \notin Clients
ASSUME NoneAssumption == None \notin Clients \cup {Admin}
ASSUME MayStallAssumption == MayStall \subseteq Clients
ASSUME ReloginAssumption == Relogin \in BOOLEAN

Procs == Clients \cup {Admin}

VARIABLES
    script,      \* the lock operations a goroutine has still to do
    mu,          \* clientSession.mu: who holds it
    writeMu,     \* clientSession.writeMu: who holds it
    readers,     \* who holds Server.mu for reading
    writer,      \* who has called Server.mu.Lock and keeps new readers out
    stalled,     \* the connections whose peer has stopped reading
    status       \* is a connection fresh, in Server.clients, or over?

vars == <<script, mu, writeMu, readers, writer, stalled, status>>

\* An operation and the connection it is about (None for Server.mu).
Op(kind, c) == [kind |-> kind, on |-> c]

\* A section of clientSession.mu alone: noteInbound, noteOutbound, snapshot...
Note(c) == <<Op("note", c)>>

\* A section of Server.mu alone, for writing (bumpCounter) or for reading.
Bump == <<Op("announce", None), Op("commit", None)>>
Read == <<Op("read", None)>>

\* (Mutants: the write under Server.mu; the write under clientSession.mu.)
SendUnderServerMutant(c) ==
    <<Op("lockW", c)>> \o Note(c)
    \o <<Op("announce", None), Op("write", c), Op("commit", None)>>
SendUnderClientMutant(c) ==
    <<Op("lockW", c), Op("lock", c)>> \o Bump \o <<Op("write", c), Op("unlock", c)>>

\* send: writeMu is held over the note, the counters and the blocking write.
Send(c) == <<Op("lockW", c)>> \o Note(c) \o Bump \o <<Op("write", c)>>

\* handleConn's loop: note the frame, count it, dispatch it.
Frame(c) == Note(c) \o Bump \o <<Op("dispatch", c)>>

Registered == {c \in Clients : status[c] = "registered"}

\* The mutexes of some of the registered connections, one after the other.
Visits ==
    {[i \in DOMAIN q |-> Op("note", q[i])] : q \in SetToAllKPermutations(Registered)}

----------------------------------------------------------------------------
(* The handlers.  What the code does several times in a row (a search      *)
(* counts twice, a login has three replies) the sequence has once.         *)

\* (A mutant: client.mu is still held while the login is counted.)
LoginMutant(c) ==
    {<<Op("lock", c)>> \o Read \o <<Op("announce", None), Op("register", c)>>
     \o Bump \o <<Op("unlock", c)>> \o Send(c)}

\* handleLogin: client.mu is held while allocateClientID takes Server.mu, for
\* reading and, when the ID of the address is in use, for writing.  A client
\* that is registered finds its own ID in use.
Login(c) ==
    {<<Op("lock", c)>> \o Read \o fallback \o <<Op("unlock", c)>>
     \o Note(c)
     \o <<Op("announce", None), Op("register", c)>>
     \o Read \o Send(c)
     : fallback \in IF c \in Registered THEN {Bump} ELSE {<<>>, Bump}}

\* handleOfferFiles and mergeClientOfferedFiles (an empty offer takes the same
\* locks).
Offer(c) == {Note(c) \o Read \o Note(c) \o Bump \o Read \o Send(c)}

\* handleGetServerList.
ServerList(c) == {Read \o Send(c)}

\* handleSearch and handleSearchMore.
Search(c) ==
    {Note(c) \o Read \o Note(c) \o Bump \o Send(c)}

\* (A mutant: an early return without the RUnlock.)
GetSourcesMutant(c) ==
    {<<Op("rlock", None)>> \o unlocked \o Note(c) \o Bump \o Send(c)
     : unlocked \in {<<>>, <<Op("runlock", None)>>}}

\* handleGetSources: with obfuscation metadata, sourcesAll visits the sources'
\* mutexes, in map order, while it holds Server.mu for reading.
GetSources(c) ==
    {<<Op("rlock", None)>> \o visits \o <<Op("runlock", None)>>
     \o Note(c) \o Bump \o Send(c)
     : visits \in Visits}

\* handleCallback: fails at the limiter, finds no target, reaches it, or fails
\* to write to it.  (A callback to oneself takes the locks of the second case.)
Callback(c) ==
    {Bump \o Send(c), Note(c) \o Bump \o Read \o Send(c)}
    \cup UNION {{Note(c) \o Bump \o Read \o Note(c) \o Send(d) \o failed
                 : failed \in {<<>>, Send(c)}} : d \in Registered \ {c}}

\* unregisterClient.
Leave(c) ==
    IF c \notin Registered THEN {Note(c) \o <<Op("announce", None), Op("close", c)>>}
    ELSE {Note(c) \o Bump \o Read \o Note(c) \o Bump
          \o <<Op("announce", None), Op("close", c)>>}

\* The admin API: views of the server (/healthz, StatsSnapshot, AuditSnapshot)
\* and of some or all of its clients, and changes (a count, appendAudit).
Snapshot ==
    {Bump} \cup {Read \o visits : visits \in Visits}

----------------------------------------------------------------------------
Init ==
    /\ script = [p \in Procs |-> <<>>]
    /\ mu = [c \in Clients |-> None]
    /\ writeMu = [c \in Clients |-> None]
    /\ readers = {}
    /\ writer = None
    /\ stalled = {}
    /\ status = [c \in Clients |-> "fresh"]

\* A frame arrives, or the connection ends.
Receive(c) ==
    /\ script[c] = <<>>
    /\ status[c] # "over"
    /\ \E h \in {Frame(c)} \cup Leave(c) : script' = [script EXCEPT ![c] = h]
    /\ UNCHANGED <<mu, writeMu, readers, writer, stalled, status>>

\* An admin HTTP request arrives.
Request ==
    /\ script[Admin] = <<>>
    /\ \E h \in Snapshot : script' = [script EXCEPT ![Admin] = h]
    /\ UNCHANGED <<mu, writeMu, readers, writer, stalled, status>>

\* A peer stops reading and keeps the connection open.
Stall(c) ==
    /\ c \in MayStall \ stalled
    /\ status[c] # "over"
    /\ stalled' = stalled \cup {c}
    /\ UNCHANGED <<script, mu, writeMu, readers, writer, status>>

\* The next operation of p is of this kind; it is done.
Does(p, kind) ==
    /\ script[p] # <<>>
    /\ Head(script[p]).kind = kind
    /\ script' = [script EXCEPT ![p] = Tail(@)]

On(p) == Head(script[p]).on

\* dispatch.  A client that has not logged in gets an empty search result and
\* is disconnected when it offers files; the other requests need no login.  An
\* unknown packet is skipped, and OP_DISCONNECT leads to Leave.
Dispatch(p) ==
    /\ script[p] # <<>>
    /\ Head(script[p]).kind = "dispatch"
    /\ \E h \in UNION {IF p \in Registered /\ ~Relogin THEN {} ELSE Login(p),
                      IF p \in Registered THEN Offer(p) \cup Search(p)
                      ELSE {Note(p) \o Send(p), Note(p)},
                      GetSources(p), Callback(p), ServerList(p), {<<>>}} :
          script' = [script EXCEPT ![p] = h]
    /\ UNCHANGED <<mu, writeMu, readers, writer, stalled, status>>

\* sync.Mutex: clientSession.mu.
Section(p) ==
    /\ Does(p, "note")
    /\ mu[On(p)] = None
    /\ UNCHANGED <<mu, writeMu, readers, writer, stalled, status>>

Lock(p) ==
    /\ Does(p, "lock")
    /\ mu[On(p)] = None
    /\ mu' = [mu EXCEPT ![On(p)] = p]
    /\ UNCHANGED <<writeMu, readers, writer, stalled, status>>

Unlock(p) ==
    /\ Does(p, "unlock")
    /\ mu' = [mu EXCEPT ![On(p)] = None]
    /\ UNCHANGED <<writeMu, readers, writer, stalled, status>>

\* clientSession.writeMu and the write under it.  A peer that does not read
\* blocks the write for as long as the connection is open: no deadline is set.
LockWrite(p) ==
    /\ Does(p, "lockW")
    /\ writeMu[On(p)] = None
    /\ writeMu' = [writeMu EXCEPT ![On(p)] = p]
    /\ UNCHANGED <<mu, readers, writer, stalled, status>>

Write(p) ==
    /\ Does(p, "write")
    /\ On(p) \notin stalled \/ status[On(p)] = "over"
    /\ writeMu' = [writeMu EXCEPT ![On(p)] = None]
    /\ UNCHANGED <<mu, readers, writer, stalled, status>>

\* sync.RWMutex: a writer first excludes other writers and new readers, then
\* waits for the readers that are in.
ReadSection(p) ==
    /\ Does(p, "read")
    /\ writer = None
    /\ UNCHANGED <<mu, writeMu, readers, writer, stalled, status>>

ReadLock(p) ==
    /\ Does(p, "rlock")
    /\ writer = None
    /\ readers' = readers \cup {p}
    /\ UNCHANGED <<mu, writeMu, writer, stalled, status>>

ReadUnlock(p) ==
    /\ Does(p, "runlock")
    /\ readers' = readers \ {p}
    /\ UNCHANGED <<mu, writeMu, writer, stalled, status>>

Announce(p) ==
    /\ Does(p, "announce")
    /\ writer = None
    /\ writer' = p
    /\ UNCHANGED <<mu, writeMu, readers, stalled, status>>

\* The writer is in, does its section and leaves: counters and index, the entry
\* of registerClient, or the last section of unregisterClient, after which
\* handleConn closes the connection.
Commit(p) ==
    /\ readers = {}
    /\ \/ Does(p, "commit") /\ UNCHANGED status
       \/ Does(p, "register") /\ status' = [status EXCEPT ![On(p)] = "registered"]
       \/ Does(p, "close") /\ status' = [status EXCEPT ![On(p)] = "over"]
    /\ writer' = None
    /\ UNCHANGED <<mu, writeMu, readers, stalled>>

Step(p) ==
    \/ Dispatch(p) \/ Section(p) \/ Lock(p) \/ Unlock(p)
    \/ LockWrite(p) \/ Write(p)
    \/ ReadSection(p) \/ ReadLock(p) \/ ReadUnlock(p) \/ Announce(p) \/ Commit(p)

Next == (\E c \in Clients : Receive(c) \/ Stall(c)) \/ Request \/ (\E p \in Procs : Step(p))

\* Go's mutexes hand over to a waiter that has waited for long, and a released
\* RWMutex lets in the waiting readers before the next writer: a goroutine whose
\* lock is free again and again gets it.
Spec == Init /\ [][Next]_vars /\ \A p \in Procs : SF_vars(Step(p))

----------------------------------------------------------------------------
(* Properties.                                                             *)

\* The goroutines that p cannot go on without.
Blockers(p) ==
    IF script[p] = <<>> THEN {}
    ELSE CASE Head(script[p]).kind \in {"note", "lock"} -> {mu[On(p)]} \ {None}
           [] Head(script[p]).kind = "lockW" -> {writeMu[On(p)]} \ {None}
           [] Head(script[p]).kind \in {"read", "rlock", "announce"} -> {writer} \ {None}
           [] Head(script[p]).kind \in {"commit", "register", "close"} -> readers
           [] OTHER -> {}

\* No goroutines wait for each other in a circle, however logins, source
\* requests, callbacks and admin requests interleave: the server has no
\* documented lock order, and sourcesAll and handleLogin nest two locks in
\* opposite order.
NoCircularWait ==
    \A P \in (SUBSET Procs) \ {{}} : \E p \in P : Blockers(p) \cap P = {}

\* No path of a handler leaves a lock behind: whoever holds one still has its
\* release to do.
LocksReleased ==
    /\ \A c \in Clients :
          /\ mu[c] # None => Contains(script[mu[c]], Op("unlock", c))
          /\ writeMu[c] # None => Contains(script[writeMu[c]], Op("write", c))
    /\ \A p \in readers : Contains(script[p], Op("runlock", None))
    /\ writer # None =>
          /\ script[writer] # <<>>
          /\ Head(script[writer]).kind \in {"commit", "register", "close"}

\* The admin API answers every request (README.md, "Health checks"), also while
\* peers that do not read block the goroutines that write to them.
AdminAnswered == script[Admin] # <<>> ~> script[Admin] = <<>>

\* A request is served to the end unless it writes to a peer that does not
\* read: one such peer holds up its own connection and its callers, no other.
SendsToStalled(p) ==
    \E i \in DOMAIN script[p] :
        script[p][i].kind \in {"lockW", "write"} /\ script[p][i].on \in stalled

RequestsServed ==
    \A c \in Clients :
        script[c] # <<>> ~> (script[c] = <<>> \/ SendsToStalled(c))
=============================================================================
