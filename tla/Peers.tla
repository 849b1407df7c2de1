------------------------------- MODULE Peers --------------------------------
(***************************************************************************)
(* The peer servers this server knows: configured, pinged every 30 s, and  *)
(* learned from the lists they send (ed2ksrv/peer_registry.go, the peer    *)
(* cases of dispatchUDP and pingPeers in server_udp.go), and the two lists *)
(* it gives away: over UDP to servers, over TCP to clients (server.go).    *)
(*                                                                         *)
(* The registry is keyed by text.  A learned peer and the source of a      *)
(* datagram have the text of net.UDPAddr.String, here the address itself;  *)
(* a configured peer keeps the spelling of the configuration, which may be *)
(* another one ("1.2.3.4:04661").                                          *)
(*                                                                         *)
(* UDP may lose, repeat and reorder datagrams, and anybody may send any:   *)
(* a list or a status may arrive from any address at any time.  Only the   *)
(* way of a ping and its answer is followed, for liveness.                 *)
(***************************************************************************)
EXTENDS Integers, Selection

CONSTANTS
    V4, V6,      \* addresses (with a port)
    Spellings,   \* other ways to spell an address in the configuration
    Spelled,     \* spelling -> the address it means
    Bad,         \* an entry that is no address
    Configs,     \* values of Config.PeerServers
    Lists,       \* bodies of server lists: a count byte and entries
    Alive,       \* peers that answer pings
    ByteSize     \* 256

Addresses == V4 \cup V6
Keys == Addresses \cup Spellings

ASSUME AddressAssumption ==
    /\ V4 \cap V6 = {}
    /\ Spellings \cap Addresses = {}
    /\ Bad \notin Keys
    /\ Spelled \in [Spellings -> Addresses]
ASSUME InputAssumption ==
    /\ Configs \subseteq Seq(Keys \cup {Bad})
    /\ Lists \subseteq [count : Nat, entries : Seq(V4 \cup {Bad})]
    /\ Alive \subseteq Addresses
ASSUME ByteAssumption == ByteSize \in Nat \ {0}

VARIABLES
    config,    \* Config.PeerServers
    specs,     \* what newPeerRegistry has still to read of it
    order,     \* peerRegistry.order: the keys of peerRegistry.peers as they came
    seen,      \* keys whose lastSeen is set
    teacher,   \* history: key -> the source it was learned from (itself: configured)
    source,    \* the sender of the list the UDP read loop is learning from,
               \* Bad if there is none
    lesson,    \* the entries of it that are still to be added
    reading,   \* the read loop has not returned
    pinger,    \* the goroutine of pingPeers: none, waiting, sending or ended
    round,     \* addresses it has still to ping in this round
    pinged,    \* addresses a ping has reached that have not answered it
    closed     \* Server.closed

registry == <<order, seen, teacher>>
learning == <<source, lesson, reading>>
pings == <<pinger, round, pinged>>
vars == <<config, specs, registry, learning, pings, closed>>

AddrOf(key) == IF key \in Spellings THEN Spelled[key] ELSE key
Known(key) == \E i \in DOMAIN order : order[i] = key

----------------------------------------------------------------------------
(* The lists.                                                              *)

Entries(addrs) == Only(addrs, V4)
Body(entries) == [count |-> Len(entries) % ByteSize, entries |-> entries]

\* buildUDPServerListReply: the IPv4 peers we know.
UDPEntries == Entries([i \in DOMAIN order |-> AddrOf(order[i])])
UDPServerList == Body(UDPEntries)

\* buildServerListBody: this server, if it was reached over IPv4, and the
\* configured peers, as often as they are configured; no body if there is none.
ValidSpecs == Only(config, Keys)
ServerEntries(self) ==
    Entries(<<self>> \o [i \in DOMAIN ValidSpecs |-> AddrOf(ValidSpecs[i])])
ServerList(self) ==
    IF ServerEntries(self) = <<>> THEN Bad ELSE Body(ServerEntries(self))

\* (A mutant: the last entry of the body is taken for an incomplete one.)
CountedMutant(body) ==
    LET present == Len(body.entries) - 1
    IN  SubSeq(body.entries, 1, IF body.count <= present THEN body.count ELSE present)

\* The loop of parseServerListBody: as many entries as are counted and present.
Counted(body) ==
    LET present == Len(body.entries)
    IN  SubSeq(body.entries, 1, IF body.count <= present THEN body.count ELSE present)

\* What it returns of them: an entry with port 0 is left out.
ParseServerListBody(body) == Only(Counted(body), V4)

----------------------------------------------------------------------------
(* The registry grows by one key at a time.                                *)

\* The body of the loop of newPeerRegistry, and add: neither what is no address
\* with a port nor what is known already.
Enter(key, from) ==
    IF key = Bad \/ Known(key)
    THEN UNCHANGED <<order, teacher>>
    ELSE /\ order' = Append(order, key)
         /\ teacher' = [k \in {order[i] : i \in DOMAIN order} \cup {key} |->
                           IF k = key THEN from ELSE teacher[k]]

Init ==
    /\ config \in Configs
    /\ specs = config
    /\ order = <<>>
    /\ seen = {}
    /\ teacher = [key \in {} |-> key]
    /\ source = Bad
    /\ lesson = <<>>
    /\ reading = TRUE
    /\ pinger = "none"
    /\ round = <<>>
    /\ pinged = {}
    /\ closed = FALSE

\* newPeerRegistry, one configured peer; nothing else runs before it is done.
Configure ==
    /\ specs # <<>>
    /\ specs' = Tail(specs)
    /\ Enter(Head(specs), Head(specs))
    /\ UNCHANGED <<config, seen, learning, pings, closed>>

Constructed == specs = <<>>

----------------------------------------------------------------------------
(* pingPeers.                                                              *)

\* maybeStartServerUDP starts it only if there is somebody to ping.
StartPinger ==
    /\ Constructed
    /\ pinger = "none"
    /\ order # <<>>
    /\ pinger' = "wait"
    /\ UNCHANGED <<config, specs, registry, learning, round, pinged, closed>>

\* sendPeerPings at the start and at each tick: the addresses of this moment.
BeginRound ==
    /\ pinger = "wait"
    /\ pinger' = "send"
    /\ round' = [i \in DOMAIN order |-> AddrOf(order[i])]
    /\ UNCHANGED <<config, specs, registry, learning, pinged, closed>>

\* One ping is written; it may be lost.
Ping ==
    /\ pinger = "send"
    /\ round # <<>>
    /\ round' = Tail(round)
    /\ pinged' = pinged \cup {Head(round)}
    /\ UNCHANGED <<config, specs, registry, learning, pinger, closed>>

PingLost ==
    /\ pinger = "send"
    /\ round # <<>>
    /\ round' = Tail(round)
    /\ UNCHANGED <<config, specs, registry, learning, pinger, pinged, closed>>

\* (A mutant: the round at the start is the only one.)
EndRoundMutant ==
    /\ pinger = "send"
    /\ round = <<>>
    /\ pinger' = "ended"
    /\ UNCHANGED <<config, specs, registry, learning, round, pinged, closed>>

EndRound ==
    /\ pinger = "send"
    /\ round = <<>>
    /\ pinger' = "wait"
    /\ UNCHANGED <<config, specs, registry, learning, round, pinged, closed>>

\* The select in pingPeers; when a tick is due as well, either case may be taken.
EndPinger ==
    /\ pinger = "wait"
    /\ closed
    /\ pinger' = "ended"
    /\ UNCHANGED <<config, specs, registry, learning, round, pinged, closed>>

Close ==
    /\ Constructed
    /\ ~closed
    /\ closed' = TRUE
    /\ UNCHANGED <<config, specs, registry, learning, pings>>

----------------------------------------------------------------------------
(* dispatchUDP, in the one goroutine of the UDP read loop.                 *)

\* The loop is between two datagrams.
Reading == Constructed /\ reading /\ lesson = <<>>

\* A read fails, and not just temporarily: the loop returns, whether or not the
\* server was closed, and nobody starts it again.
ReadFails ==
    /\ Reading
    /\ reading' = FALSE
    /\ UNCHANGED <<config, specs, registry, source, lesson, pings, closed>>

\* (A mutant: whoever sends is a peer.)
MarkSeenMutant(a) == TRUE

\* markSeen finds the source of a datagram among the keys.
MarkSeen(a) == Known(a)

\* OP_GLOBSERVSTATRES from anybody.
Status(a) ==
    /\ Reading
    /\ MarkSeen(a)
    /\ seen' = seen \cup {a}
    /\ UNCHANGED <<config, specs, order, teacher, learning, pings, closed>>

\* The answer of a peer to a ping (counted only if its source is a key).
AnswerPing(a) ==
    /\ Reading
    /\ a \in pinged \cap Alive
    /\ pinged' = pinged \ {a}
    /\ seen' = IF MarkSeen(a) THEN seen \cup {a} ELSE seen
    /\ UNCHANGED <<config, specs, order, teacher, learning, pinger, round, closed>>

\* The answer is lost, refused by the limiter, or never sent; it is missed when
\* the loop would have read it.
AnswerLost(a) ==
    /\ Reading
    /\ a \in pinged
    /\ pinged' = pinged \ {a}
    /\ UNCHANGED <<config, specs, registry, learning, pinger, round, closed>>

\* OP_SERVER_LIST_RES: a known source teaches.
Learn(a, body) ==
    /\ Reading
    /\ MarkSeen(a)
    /\ seen' = seen \cup {a}
    /\ source' = a
    /\ lesson' = Counted(body)
    /\ UNCHANGED <<config, specs, order, teacher, reading, pings, closed>>

\* One entry of the list; each add takes the lock for itself, so a round of pings
\* may begin in between.  (add is called once the whole list is parsed; an entry
\* parseServerListBody leaves out is one Enter passes over.)
Add ==
    /\ lesson # <<>>
    /\ lesson' = Tail(lesson)
    /\ Enter(Head(lesson), source)
    /\ source' = IF Len(lesson) = 1 THEN Bad ELSE source
    /\ UNCHANGED <<config, specs, seen, reading, pings, closed>>

----------------------------------------------------------------------------
Pinger == StartPinger \/ BeginRound \/ Ping \/ PingLost \/ EndRound \/ EndPinger

Next ==
    \/ Configure \/ Pinger \/ Add \/ ReadFails \/ Close
    \/ \E a \in Addresses :
          \/ Status(a) \/ AnswerPing(a) \/ AnswerLost(a)
          \/ \E body \in Lists : Learn(a, body)

\* The registry is built, the read loop ends a list it has begun, the pinging
\* goroutine goes from tick to tick; of pings sent again and again some
\* arrive, and of answers that the loop could read again and again it reads some.
Spec ==
    /\ Init /\ [][Next]_vars
    /\ WF_vars(Configure) /\ WF_vars(Add) /\ WF_vars(Pinger)
    /\ \A a \in Addresses :
          /\ SF_vars(Ping /\ Head(round) = a)
          /\ SF_vars(AnswerPing(a))

----------------------------------------------------------------------------
(* Properties.                                                             *)

\* A body decodes to entries of all from the first on, in order, and no others,
\* and to all of them if one byte can count them.
DecodesTo(body, all) ==
    LET got == ParseServerListBody(body) IN
    /\ Len(got) <= Len(all)
    /\ got = SubSeq(all, 1, Len(got))
    /\ Len(all) < ByteSize => got = all

\* Whoever decodes a list of this server (parseServerListBody) gets "a 1-byte
\* server count followed by that many" entries (server.go:660): all that were put
\* in if they are fewer than 256, and never one that was not.  For the UDP list of
\* known peers, and for the TCP list, whose first entry is the server itself.
ListsDecode ==
    /\ DecodesTo(UDPServerList, UDPEntries)
    /\ \A self \in Addresses :
          ServerList(self) # Bad => DecodesTo(ServerList(self), ServerEntries(self))

\* "only from a known peer source, to bound abuse" (server_udp.go:177): every
\* known peer is configured or was taught by one known before it, whatever
\* arrives in whatever order, so every chain of teachers ends in the configuration.
TaughtByKnown ==
    \A i \in DOMAIN order :
        \/ /\ teacher[order[i]] = order[i]
           /\ \E n \in DOMAIN config : config[n] = order[i]
        \/ \E j \in 1..(i - 1) : teacher[order[i]] = order[j]

\* A peer known by its address that answers is seen in the end, although pings
\* and answers get lost and whenever it was learned, while the server runs and
\* its read loop has not returned (sendPeerPings, markSeen).
AnsweringPeersSeen ==
    \A a \in Alive : Known(a) ~> (a \in seen \/ closed \/ ~reading)
=============================================================================
