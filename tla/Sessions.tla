------------------------------ MODULE Sessions ------------------------------
(***************************************************************************)
(* The client registry of the ED2K server and the runtime index of the     *)
(* files its clients offer (ed2ksrv/server.go).                            *)
(*                                                                         *)
(* Every TCP connection is served by one goroutine (handleConn).  The      *)
(* goroutines share                                                        *)
(*   - Server.clients, client ID -> session, and Server.nextID,            *)
(*   - Server.dynamicFiles, file hash -> the clients that offer it,        *)
(*     all guarded by Server.mu, and                                       *)
(*   - clientSession.offeredFiles, guarded by the mutex of that session,   *)
(*     which is reached through Server.clients and so may belong to        *)
(*     another connection than the one at work.                            *)
(* No handler holds a lock from its first access to its last: each action  *)
(* below is one critical section, and what a handler remembers between two *)
(* of them is in its local variables (target, batch, accepted, previous).  *)
(***************************************************************************)
EXTENDS Integers, FiniteSets

CONSTANTS
    Sessions,     \* connection slots; a slot may be used again once it is gone
    NoSession,    \* "no such client" (a nil *clientSession)
    Files,        \* file hashes that clients offer
    RemoteID,     \* slot -> the ID of its IPv4 address, 0 where it has none
    FirstID,      \* the initial value of Server.nextID
    MaxID,        \* bound: client IDs are 1..MaxID
    MaxLogins,    \* bound: login requests handled in a behaviour
    MaxOffered,   \* Config.MaxOfferedFilesPerClient, 0 means unlimited
    Relogin       \* may a client send a second login on one connection?

IDs == 1..MaxID

ASSUME NoSessionAssumption == NoSession \notin Sessions
ASSUME BoundAssumption == /\ MaxID \in Nat
                          /\ MaxLogins \in Nat
                          /\ MaxOffered \in Nat
ASSUME FirstIDAssumption == FirstID \in IDs
ASSUME RemoteIDAssumption == RemoteID \in [Sessions -> IDs \cup {0}]
ASSUME ReloginAssumption == Relogin \in BOOLEAN
ASSUME FilesAssumption == IsFiniteSet(Files)

VARIABLES
    pc,          \* where the goroutine of a session is
    closing,     \* is it inside the deferred unregisterClient?
    assignedID,  \* clientSession.assignedID, 0 before login
    offered,     \* clientSession.offeredFiles: file -> how it is offered
    clients,     \* Server.clients, NoSession where the map has no entry
    nextID,      \* Server.nextID
    byClient,    \* dynamicSharedFile.byClient: the IDs that are a source
    completes,   \* the keys of dynamicSharedFile.completes
    target,      \* local: the session findClient returned
    batch,       \* local: the records of the OP_OFFERFILES being handled
    accepted,    \* local: the records that passed the cap
    previous,    \* local: the files to take out of the index first
    published,   \* history: the files accepted from this connection with a
                 \* source, which it has neither offered again nor cleared
    logins       \* counts logins against MaxLogins

registry == <<clients, nextID>>
index == <<byClient, completes>>
locals == <<target, batch, accepted, previous>>
vars == <<pc, closing, assignedID, offered, registry, index, locals,
          published, logins>>

\* How a file is offered: not at all, without a source endpoint (neither the
\* entry nor the login gave a port, sourceFromSharedEntry) or with one.
Offer == {"none", "nosource", "source"}
NoFiles == [f \in Files |-> "none"]
Named(offer) == {f \in Files : offer[f] # "none"}

----------------------------------------------------------------------------
(* The runtime index.  A file has an entry iff completes[f] # {}.          *)

\* (A mutant: the whole entry goes with any one of its clients.)
RemoveSourcesMutant(id, fs, src) ==
    [f \in Files |-> IF f \in fs THEN {} ELSE src[f]]

\* removeDynamicLocked for each of the files fs: the entry goes with its last
\* source.
RemoveSources(id, fs, src) ==
    [f \in Files |-> IF f \in fs THEN src[f] \ {id} ELSE src[f]]

RemoveCompletes(id, fs, src, com) ==
    [f \in Files |-> IF f \notin fs THEN com[f]
                     ELSE IF src[f] \ {id} = {} THEN {}
                     ELSE com[f] \ {id}]

\* addDynamicLocked for each record of acc.
AddSources(id, acc, src) ==
    [f \in Files |-> IF acc[f] = "source" THEN src[f] \cup {id} ELSE src[f]]

AddCompletes(id, acc, com) ==
    [f \in Files |-> IF acc[f] # "none" THEN com[f] \cup {id} ELSE com[f]]

----------------------------------------------------------------------------
Init ==
    /\ pc = [s \in Sessions |-> "gone"]
    /\ closing = [s \in Sessions |-> FALSE]
    /\ assignedID = [s \in Sessions |-> 0]
    /\ offered = [s \in Sessions |-> NoFiles]
    /\ clients = [id \in IDs |-> NoSession]
    /\ nextID = FirstID
    /\ byClient = [f \in Files |-> {}]
    /\ completes = [f \in Files |-> {}]
    /\ target = [s \in Sessions |-> NoSession]
    /\ batch = [s \in Sessions |-> NoFiles]
    /\ accepted = [s \in Sessions |-> NoFiles]
    /\ previous = [s \in Sessions |-> {}]
    /\ published = [s \in Sessions |-> {}]
    /\ logins = 0

\* handleConn takes a new connection: a fresh clientSession.
Accept(s) ==
    /\ pc[s] = "gone"
    /\ pc' = [pc EXCEPT ![s] = "idle"]
    /\ assignedID' = [assignedID EXCEPT ![s] = 0]
    /\ offered' = [offered EXCEPT ![s] = NoFiles]
    /\ UNCHANGED <<closing, registry, index, locals, published, logins>>

----------------------------------------------------------------------------
(* OP_LOGINREQUEST: handleLogin, allocateClientID, registerClient.         *)

\* allocateClientID under Server.mu.RLock: the ID of the remote address when
\* it is nonzero and not in use; otherwise go on to the fallback.  Either way
\* client.mu has been held since the start of handleLogin.
LoginCheck(s) ==
    /\ pc[s] = "idle"
    /\ assignedID[s] = 0 \/ Relogin
    /\ logins < MaxLogins
    /\ logins' = logins + 1
    /\ \/ /\ RemoteID[s] # 0
          /\ clients[RemoteID[s]] = NoSession
          /\ assignedID' = [assignedID EXCEPT ![s] = RemoteID[s]]
          /\ pc' = [pc EXCEPT ![s] = "register"]
       \/ /\ RemoteID[s] # 0 => clients[RemoteID[s]] # NoSession
          /\ pc' = [pc EXCEPT ![s] = "alloc"]
          /\ UNCHANGED assignedID
    /\ UNCHANGED <<closing, offered, registry, index, locals, published>>

\* (Mutants: the scan starts one too low; it does not look into the registry.)
FirstFreeLowMutant(id) ==
    /\ id \in IDs
    /\ id >= nextID - 1
    /\ clients[id] = NoSession
    /\ \A k \in (nextID - 1)..(id - 1) : clients[k] # NoSession
FirstFreeBlindMutant(id) == id \in IDs /\ id = nextID

\* The first ID from nextID on that the registry does not hold.
FirstFree(id) ==
    /\ id \in IDs
    /\ id >= nextID
    /\ clients[id] = NoSession
    /\ \A k \in nextID..(id - 1) : clients[k] # NoSession

\* allocateClientID under Server.mu.Lock: scan from nextID for a free ID.
LoginAllocate(s) ==
    /\ pc[s] = "alloc"
    /\ \E id \in IDs :
          /\ FirstFree(id)
          /\ nextID' = id + 1
          /\ assignedID' = [assignedID EXCEPT ![s] = id]
    /\ pc' = [pc EXCEPT ![s] = "register"]
    /\ UNCHANGED <<closing, offered, clients, index, locals, published, logins>>

\* registerClient: the session takes its ID's entry, whoever held it before.
Register(s) ==
    /\ pc[s] = "register"
    /\ clients' = [clients EXCEPT ![assignedID[s]] = s]
    /\ pc' = [pc EXCEPT ![s] = "idle"]
    /\ UNCHANGED <<closing, assignedID, offered, nextID, index, locals,
                   published, logins>>

----------------------------------------------------------------------------
(* OP_OFFERFILES: handleOfferFiles, mergeClientOfferedFiles.               *)

\* clientSession.mu of t is held across the two sections of a login.
Unlocked(t) == pc[t] # "alloc"

\* A batch arrives.  Before login the handler returns an error, which ends the
\* connection: that is Disconnect.
OfferFiles(s) ==
    /\ pc[s] = "idle"
    /\ assignedID[s] # 0
    /\ \E b \in [Files -> Offer] :
          /\ batch' = [batch EXCEPT ![s] = b]
          /\ published' = [published EXCEPT ![s] =
                IF b = NoFiles THEN {} ELSE @ \ Named(b)]
    /\ pc' = [pc EXCEPT ![s] = "find"]
    /\ UNCHANGED <<closing, assignedID, offered, registry, index, target,
                   accepted, previous, logins>>

\* findClient: no client is a quiet return, no records clear the set.
OfferFind(s) ==
    /\ pc[s] = "find"
    /\ LET c == clients[assignedID[s]] IN
       \/ /\ c = NoSession
          /\ pc' = [pc EXCEPT ![s] = "idle"]
          /\ batch' = [batch EXCEPT ![s] = NoFiles]
          /\ UNCHANGED target
       \/ /\ c # NoSession
          /\ batch[s] = NoFiles
          /\ pc' = [pc EXCEPT ![s] = "lookup"]
          /\ UNCHANGED <<target, batch>>
       \/ /\ c # NoSession
          /\ batch[s] # NoFiles
          /\ pc' = [pc EXCEPT ![s] = "merge"]
          /\ target' = [target EXCEPT ![s] = c]
          /\ UNCHANGED batch
    /\ UNCHANGED <<closing, assignedID, offered, registry, index, accepted,
                   previous, published, logins>>

\* (A mutant: the cap is applied to each packet.)
RoomMutant(have) == MaxOffered

\* How many more files the cap allows a client that offers have.
Room(have) ==
    IF Cardinality(have) < MaxOffered THEN MaxOffered - Cardinality(have) ELSE 0

\* May the loop have let exactly new in, of the asked files the client does not
\* offer yet?  It takes records in packet order, which is the client's choice.
WithinCap(have, asked, new) ==
    IF MaxOffered = 0 \/ Cardinality(asked) <= Room(have)
    THEN new = asked
    ELSE Cardinality(new) = Room(have)

\* (A mutant: an offer that repeats a file does not withdraw the old record.)
ReplacedMutant(have, b) == {}

\* The files of a batch whose earlier record it replaces.
Replaced(have, b) == have \cap Named(b)

\* Under target.mu: merge the batch into the offered files, within the cap.
OfferMerge(s) ==
    LET t == target[s]
        have == Named(offered[t])
        asked == Named(batch[s]) \ have IN
    /\ pc[s] = "merge"
    /\ Unlocked(t)
    /\ \E new \in SUBSET asked :
          /\ WithinCap(have, asked, new)
          /\ accepted' = [accepted EXCEPT ![s] =
                [f \in Files |-> IF f \in have \cup new THEN batch[s][f]
                                 ELSE "none"]]
          /\ offered' = [offered EXCEPT ![t] =
                [f \in Files |-> IF f \in have \cup new /\ batch[s][f] # "none"
                                 THEN batch[s][f] ELSE offered[t][f]]]
    /\ previous' = [previous EXCEPT ![s] = Replaced(have, batch[s])]
    /\ batch' = [batch EXCEPT ![s] = NoFiles]
    /\ pc' = [pc EXCEPT ![s] = "publish"]
    /\ UNCHANGED <<closing, assignedID, registry, index, target, published,
                   logins>>

\* Under Server.mu: take the previous records out, put the accepted ones in.
OfferPublish(s) ==
    LET id == assignedID[s]
        src == RemoveSources(id, previous[s], byClient)
        com == RemoveCompletes(id, previous[s], byClient, completes) IN
    /\ pc[s] = "publish"
    /\ byClient' = AddSources(id, accepted[s], src)
    /\ completes' = AddCompletes(id, accepted[s], com)
    /\ published' = [published EXCEPT ![s] =
          @ \cup {f \in Files : accepted[s][f] = "source"}]
    /\ pc' = [pc EXCEPT ![s] = "idle"]
    /\ target' = [target EXCEPT ![s] = NoSession]
    /\ accepted' = [accepted EXCEPT ![s] = NoFiles]
    /\ previous' = [previous EXCEPT ![s] = {}]
    /\ UNCHANGED <<closing, assignedID, offered, registry, batch, logins>>

----------------------------------------------------------------------------
(* The end of a connection (unregisterClient) and removeClientOfferedFiles,*)
(* which it shares with an empty offer.                                    *)

\* (A mutant: unregisterClient forgets removeClientOfferedFiles.)
DisconnectMutant(s) ==
    /\ pc[s] = "idle"
    /\ pc' = [pc EXCEPT ![s] = IF assignedID[s] = 0 THEN "gone" ELSE "delete"]
    /\ closing' = [closing EXCEPT ![s] = assignedID[s] # 0]
    /\ published' = [published EXCEPT ![s] = {}]
    /\ UNCHANGED <<assignedID, offered, registry, index, locals, logins>>

\* The read loop ends: a read error, OP_DISCONNECT, a handler's error or a
\* Close by Shutdown.  The deferred unregisterClient starts.
Disconnect(s) ==
    /\ pc[s] = "idle"
    /\ pc' = [pc EXCEPT ![s] = IF assignedID[s] = 0 THEN "gone" ELSE "lookup"]
    /\ closing' = [closing EXCEPT ![s] = assignedID[s] # 0]
    /\ published' = [published EXCEPT ![s] = {}]
    /\ UNCHANGED <<assignedID, offered, registry, index, locals, logins>>

\* Where removeClientOfferedFiles returns to.
AfterRemove(s) == IF closing[s] THEN "delete" ELSE "idle"

\* removeClientOfferedFiles: findClient under Server.mu.RLock.
RemoveLookup(s) ==
    /\ pc[s] = "lookup"
    /\ target' = [target EXCEPT ![s] = clients[assignedID[s]]]
    /\ pc' = [pc EXCEPT ![s] = IF clients[assignedID[s]] = NoSession
                               THEN AfterRemove(s) ELSE "drain"]
    /\ UNCHANGED <<closing, assignedID, offered, registry, index, batch,
                   accepted, previous, published, logins>>

\* Under target.mu: empty the offered files, remembering them.
RemoveDrain(s) ==
    LET t == target[s] IN
    /\ pc[s] = "drain"
    /\ Unlocked(t)
    /\ previous' = [previous EXCEPT ![s] = Named(offered[t])]
    /\ offered' = [offered EXCEPT ![t] = NoFiles]
    /\ pc' = [pc EXCEPT ![s] = "revoke"]
    /\ UNCHANGED <<closing, assignedID, registry, index, target, batch,
                   accepted, published, logins>>

\* Under Server.mu: take the drained files out of the index.
RemoveRevoke(s) ==
    /\ pc[s] = "revoke"
    /\ byClient' = RemoveSources(assignedID[s], previous[s], byClient)
    /\ completes' = RemoveCompletes(assignedID[s], previous[s], byClient, completes)
    /\ target' = [target EXCEPT ![s] = NoSession]
    /\ previous' = [previous EXCEPT ![s] = {}]
    /\ pc' = [pc EXCEPT ![s] = AfterRemove(s)]
    /\ UNCHANGED <<closing, assignedID, offered, registry, batch, accepted,
                   published, logins>>

\* (A mutant: the entry is deleted only if it is another session's.)
StillOursMutant(s) == clients[assignedID[s]] # s

\* Does the registry still lead from this session's ID to it?
StillOurs(s) == clients[assignedID[s]] = s

\* unregisterClient under Server.mu: give up the entry if it is still ours.
Unregister(s) ==
    /\ pc[s] = "delete"
    /\ clients' = [clients EXCEPT ![assignedID[s]] =
                      IF StillOurs(s) THEN NoSession ELSE @]
    /\ pc' = [pc EXCEPT ![s] = "gone"]
    /\ closing' = [closing EXCEPT ![s] = FALSE]
    /\ UNCHANGED <<assignedID, offered, nextID, index, locals, published, logins>>

\* A handler that has started runs on by itself.
Handled(s) ==
    \/ Register(s)
    \/ OfferFind(s) \/ OfferMerge(s) \/ OfferPublish(s)
    \/ RemoveLookup(s) \/ RemoveDrain(s) \/ RemoveRevoke(s) \/ Unregister(s)

Handler(s) == LoginAllocate(s) \/ Handled(s)

\* What the remote side decides: to connect, to send a frame, to go away.
Remote(s) == Accept(s) \/ LoginCheck(s) \/ OfferFiles(s) \/ Disconnect(s)

Next == \E s \in Sessions : Handler(s) \/ Remote(s)

Spec == Init /\ [][Next]_vars

----------------------------------------------------------------------------
(* The race of two logins.  allocateClientID lets go of Server.mu before   *)
(* registerClient takes it, so a second login may be given the ID that the *)
(* first has not registered yet: the ID of their common address, or an ID  *)
(* of the scan, which starts at the ID of the address 1.0.0.1.             *)

\* No two connections hold the same ID between allocation and registration.
NoLoginRace ==
    \A s, t \in Sessions :
        pc[s] = "register" /\ pc[t] = "register" /\ assignedID[s] = assignedID[t]
            => s = t

CheckAlone(s) == LoginCheck(s) /\ NoLoginRace'
AllocateAlone(s) == LoginAllocate(s) /\ NoLoginRace'

HandlerAlone(s) == AllocateAlone(s) \/ Handled(s)
RemoteAlone(s) == Accept(s) \/ CheckAlone(s) \/ OfferFiles(s) \/ Disconnect(s)

NextAlone == \E s \in Sessions : HandlerAlone(s) \/ RemoteAlone(s)

\* The behaviours in which logins do not race.  The scheduler runs every runnable
\* goroutine; nothing is assumed of clients.
RaceFreeSpec == Init /\ [][NextAlone]_vars /\ \A s \in Sessions : WF_vars(HandlerAlone(s))

----------------------------------------------------------------------------
(* Properties.                                                             *)

Steps == {"gone", "idle", "alloc", "register", "find", "merge", "publish",
          "lookup", "drain", "revoke", "delete"}

\* Every variable has its type.  An ID is 0, the ID of the connection's address
\* or one that allocateClientID's scan can return.
TypeOK ==
    /\ pc \in [Sessions -> Steps]
    /\ closing \in [Sessions -> BOOLEAN]
    /\ assignedID \in [Sessions -> IDs \cup {0}]
    /\ \A s \in Sessions : assignedID[s] \in {0, RemoteID[s]} \cup (FirstID..MaxID)
    /\ offered \in [Sessions -> [Files -> Offer]]
    /\ clients \in [IDs -> Sessions \cup {NoSession}]
    /\ nextID \in FirstID..(MaxID + 1)
    /\ byClient \in [Files -> SUBSET IDs]
    /\ completes \in [Files -> SUBSET IDs]
    /\ target \in [Sessions -> Sessions \cup {NoSession}]
    /\ batch \in [Sessions -> [Files -> Offer]]
    /\ accepted \in [Sessions -> [Files -> Offer]]
    /\ previous \in [Sessions -> SUBSET Files]
    /\ published \in [Sessions -> SUBSET Files]
    /\ logins \in 0..MaxLogins

\* The registry only leads to sessions that are being served under that very
\* ID: findClient never returns a connection whose goroutine has ended, so no
\* callback or drain goes to a dead one (unregisterClient, registerClient).
RegistryLive ==
    \A id \in IDs : clients[id] # NoSession =>
        /\ assignedID[clients[id]] = id
        /\ pc[clients[id]] # "gone"

\* No two connections being served hold the same client ID, although the scan of
\* allocateClientID runs through the IDs of addresses, an address's ID may be in
\* use by a client that got it from the scan, and IDs are taken again as soon as
\* unregisterClient gives them up.  The code keeps this only while logins do not
\* race.
UniqueIDs ==
    \A s, t \in Sessions :
        (s # t /\ pc[s] # "gone" /\ pc[t] # "gone" /\ assignedID[s] # 0)
            => assignedID[s] # assignedID[t]

\* An ID in the runtime index is that of a connection still being served: what
\* searchAll and sourcesAll report can be reached (removeClientOfferedFiles).
OwnersConnected ==
    \A f \in Files : \A id \in completes[f] :
        \E s \in Sessions : assignedID[s] = id /\ pc[s] # "gone"

\* "Preserve earlier batches until the client disconnects" (server.go:1023):
\* whatever other connections do, a file that was accepted with a source stays
\* in the index under its owner until the owner clears it or goes away.
OffersPreserved ==
    \A s \in Sessions : \A f \in published[s] : assignedID[s] \in byClient[f]

\* Between two requests of a client the index holds only files it has published:
\* a cleared or replaced offer leaves nothing behind, nor does a client that had
\* the ID before.  (With OffersPreserved: exactly those.)
IndexExact ==
    \A s \in Sessions : \A f \in Files :
        (pc[s] = "idle" /\ assignedID[s] \in byClient[f]) => f \in published[s]

\* "Enforce the per-client cap across all batches, not per packet"
\* (server.go:1024), also when two connections merge into one session.
CapAcrossBatches ==
    MaxOffered > 0 =>
        \A s \in Sessions : Cardinality(Named(offered[s])) <= MaxOffered

\* A connection that ends is taken out of the index and of the registry, even
\* while other connections log in, offer and leave.
RevokedOnDisconnect ==
    \A s \in Sessions :
        closing[s] ~> /\ ~closing[s]
                      /\ \A f \in Files : assignedID[s] \notin completes[f]
                      /\ \A id \in IDs : clients[id] # s
=============================================================================
