---------------------------- MODULE PeersProofs -----------------------------
(***************************************************************************)
(* Theorems about Peers, for any addresses, spellings, configurations and  *)
(* lists, and however pings, answers and lists follow each other.          *)
(***************************************************************************)
EXTENDS Peers, FiniteSetTheorems, SequenceTheorems, TLAPS

\* What the proofs need of the types of the variables.
TypeInv ==
    /\ config \in Seq(Keys \cup {Bad})
    /\ specs \in Seq(Keys \cup {Bad})
    /\ order \in Seq(Keys)
    /\ lesson \in Seq(V4 \cup {Bad})

\* A key is in the registry once: the map and the list of peerRegistry agree.
KeysDistinct == \A i, j \in DOMAIN order : order[i] = order[j] => i = j

\* newPeerRegistry reads only what is configured.
SpecsConfigured ==
    \A i \in DOMAIN specs : \E n \in DOMAIN config : config[n] = specs[i]

\* Who has begun to teach stays known until the lesson is over: no key is removed.
SourceKnown == lesson # <<>> => Known(source)

\* The inductive invariant.
RegistryInv ==
    /\ TypeInv
    /\ KeysDistinct
    /\ SpecsConfigured
    /\ SourceKnown
    /\ TaughtByKnown

----------------------------------------------------------------------------
\* Init: the registry is empty, everything configured is still to be read.
LEMMA RegistryInit == Init => RegistryInv
  <1> SUFFICES ASSUME Init PROVE RegistryInv
    OBVIOUS
  <1> USE DEF Init
  <1>1. config \in Seq(Keys \cup {Bad})
    BY InputAssumption
  <1>2. TypeInv
    BY <1>1 DEF TypeInv
  <1>3. KeysDistinct /\ TaughtByKnown
    BY DEF KeysDistinct, TaughtByKnown
  <1>4. SpecsConfigured
    BY DEF SpecsConfigured
  <1>5. SourceKnown
    BY DEF SourceKnown
  <1> QED BY <1>2, <1>3, <1>4, <1>5 DEF RegistryInv

\* Steps that enter no key: the registry and what is still to be read of the
\* configuration and of the list stay as they are.
LEMMA NothingEntered ==
    ASSUME RegistryInv, UNCHANGED <<config, specs, order, teacher, source, lesson>>
    PROVE  RegistryInv'
  BY DEF RegistryInv, TypeInv, KeysDistinct, SpecsConfigured, SourceKnown,
         TaughtByKnown, Known

\* A new key comes last, so whatever was known stays where it was.
LEMMA EnterAppends ==
    ASSUME TypeInv, KeysDistinct, TaughtByKnown, UNCHANGED config,
           NEW key \in Keys \cup {Bad}, NEW from,
           \/ Known(from)
           \/ from = key /\ \E n \in DOMAIN config : config[n] = key,
           Enter(key, from)
    PROVE  /\ order' \in Seq(Keys)
           /\ KeysDistinct'
           /\ TaughtByKnown'
           /\ \A k : Known(k) => Known(k)'
  <1>1. CASE key = Bad \/ Known(key)
    <2>1. UNCHANGED <<order, teacher>>
      BY <1>1 DEF Enter
    <2> QED BY <2>1 DEF TypeInv, KeysDistinct, TaughtByKnown, Known
  <1>2. CASE ~(key = Bad \/ Known(key))
    <2> DEFINE n == Len(order)
    <2>1. /\ key \in Keys
          /\ ~Known(key)
          /\ order' = Append(order, key)
          /\ teacher' = [k \in {order[i] : i \in DOMAIN order} \cup {key} |->
                            IF k = key THEN from ELSE teacher[k]]
      BY <1>2 DEF Enter
    <2>2. order \in Seq(Keys) /\ n \in Nat /\ DOMAIN order = 1..n
      BY DEF TypeInv
    <2>3. /\ order' \in Seq(Keys)
          /\ DOMAIN order' = 1..(n + 1)
          /\ \A i \in 1..n : order'[i] = order[i]
          /\ order'[n + 1] = key
      BY <2>1, <2>2
    <2> HIDE DEF n
    <2>4. \A i \in 1..n : order[i] # key
      BY <2>1, <2>2 DEF Known
    <2>5. KeysDistinct'
      BY <2>2, <2>3, <2>4 DEF KeysDistinct
    <2>6. \A k : Known(k) => Known(k)'
      BY <2>2, <2>3 DEF Known
    <2>7. \A i \in 1..n : teacher'[order[i]] = teacher[order[i]]
      BY <2>1, <2>2, <2>4
    <2>8. teacher'[key] = from
      BY <2>1
    <2>9. ASSUME NEW i \in 1..(n + 1)
          PROVE  \/ /\ teacher'[order'[i]] = order'[i]
                    /\ \E m \in DOMAIN config : config[m] = order'[i]
                 \/ \E j \in 1..(i - 1) : teacher'[order'[i]] = order'[j]
      <3>1. CASE i \in 1..n
        <4>1. order'[i] = order[i] /\ teacher'[order'[i]] = teacher[order[i]]
          BY <3>1, <2>3, <2>7
        <4>2. \A j \in 1..(i - 1) : order'[j] = order[j]
          BY <3>1, <2>2, <2>3
        <4> QED BY <3>1, <4>1, <4>2, <2>2 DEF TaughtByKnown
      <3>2. CASE i = n + 1
        <4>1. order'[i] = key /\ teacher'[order'[i]] = from
          BY <3>2, <2>3, <2>8
        <4>2. CASE Known(from)
          <5>1. \E j \in 1..n : order'[j] = from
            BY <4>2, <2>2, <2>3 DEF Known
          <5>2. i - 1 = n
            BY <3>2, <2>2
          <5> QED BY <4>1, <5>1, <5>2
        <4> QED BY <4>1, <4>2
      <3> QED BY <3>1, <3>2, <2>2
    <2>10. TaughtByKnown'
      BY <2>3, <2>9 DEF TaughtByKnown
    <2> QED BY <2>3, <2>5, <2>6, <2>10
  <1> QED BY <1>1, <1>2

\* One configured peer.
LEMMA ConfigureKeeps == ASSUME RegistryInv, Configure PROVE RegistryInv'
  <1> DEFINE key == Head(specs)
  <1>1. /\ TypeInv /\ KeysDistinct /\ SpecsConfigured /\ SourceKnown /\ TaughtByKnown
        /\ specs # <<>> /\ specs' = Tail(specs) /\ Enter(key, key)
        /\ UNCHANGED <<config, source, lesson>>
    BY DEF RegistryInv, Configure, learning
  <1>2. /\ key \in Keys \cup {Bad}
        /\ specs' \in Seq(Keys \cup {Bad})
        /\ 1 \in DOMAIN specs /\ key = specs[1]
        /\ \A i \in DOMAIN specs' : i + 1 \in DOMAIN specs /\ specs'[i] = specs[i + 1]
    BY <1>1 DEF TypeInv
  <1>3. \E n \in DOMAIN config : config[n] = key
    BY <1>1, <1>2 DEF SpecsConfigured
  <1> HIDE DEF key
  <1>4. /\ order' \in Seq(Keys) /\ KeysDistinct' /\ TaughtByKnown'
        /\ \A k : Known(k) => Known(k)'
    BY <1>1, <1>2, <1>3, EnterAppends
  <1>5. TypeInv'
    BY <1>1, <1>2, <1>4 DEF TypeInv
  <1>6. SpecsConfigured'
    BY <1>1, <1>2 DEF SpecsConfigured
  <1>7. SourceKnown'
    BY <1>1, <1>4 DEF SourceKnown, Known
  <1> QED BY <1>4, <1>5, <1>6, <1>7 DEF RegistryInv

\* A list from a known source: what is counted of it is a list of entries.
LEMMA LearnKeeps ==
    ASSUME RegistryInv, NEW a \in Addresses, NEW body \in Lists, Learn(a, body)
    PROVE  RegistryInv'
  <1>1. /\ TypeInv /\ KeysDistinct /\ SpecsConfigured /\ TaughtByKnown
        /\ Known(a) /\ source' = a /\ lesson' = Counted(body)
        /\ UNCHANGED <<config, specs, order, teacher>>
    BY DEF RegistryInv, Learn, MarkSeen
  <1>2. body.count \in Nat /\ body.entries \in Seq(V4 \cup {Bad})
    BY InputAssumption
  <1>3. Counted(body) \in Seq(V4 \cup {Bad})
    BY <1>2 DEF Counted
  <1>4. TypeInv'
    BY <1>1, <1>3 DEF TypeInv
  <1>5. SourceKnown'
    BY <1>1 DEF SourceKnown, Known
  <1> QED BY <1>1, <1>4, <1>5
          DEF RegistryInv, KeysDistinct, SpecsConfigured, TaughtByKnown

\* One entry of the list, whatever happened since it came.
LEMMA AddKeeps == ASSUME RegistryInv, Add PROVE RegistryInv'
  <1> DEFINE key == Head(lesson)
  <1>1. /\ TypeInv /\ KeysDistinct /\ SpecsConfigured /\ SourceKnown /\ TaughtByKnown
        /\ lesson # <<>> /\ lesson' = Tail(lesson) /\ Enter(key, source)
        /\ source' = IF Len(lesson) = 1 THEN Bad ELSE source
        /\ UNCHANGED <<config, specs>>
    BY DEF RegistryInv, Add
  <1>2. /\ key \in V4 \cup {Bad}
        /\ lesson' \in Seq(V4 \cup {Bad})
        /\ lesson' # <<>> => Len(lesson) # 1
    BY <1>1 DEF TypeInv
  <1>3. key \in Keys \cup {Bad}
    BY <1>2 DEF Keys, Addresses
  <1> HIDE DEF key
  <1>4. /\ order' \in Seq(Keys) /\ KeysDistinct' /\ TaughtByKnown'
        /\ \A k : Known(k) => Known(k)'
    BY <1>1, <1>3, EnterAppends DEF SourceKnown
  <1>5. TypeInv'
    BY <1>1, <1>2, <1>4 DEF TypeInv
  <1>6. SpecsConfigured'
    BY <1>1 DEF SpecsConfigured
  <1>7. SourceKnown'
    BY <1>1, <1>2, <1>4 DEF SourceKnown, Known
  <1> QED BY <1>4, <1>5, <1>6, <1>7 DEF RegistryInv

LEMMA RegistryStep == RegistryInv /\ [Next]_vars => RegistryInv'
  <1> SUFFICES ASSUME RegistryInv, [Next]_vars PROVE RegistryInv'
    OBVIOUS
  <1> DEFINE Kept == UNCHANGED <<config, specs, order, teacher, source, lesson>>
  <1>1. CASE Configure
    BY <1>1, ConfigureKeeps
  <1>2. CASE Add
    BY <1>2, AddKeeps
  <1>3. CASE Pinger \/ ReadFails \/ Close
    <2>1. Kept
      BY <1>3 DEF Pinger, StartPinger, BeginRound, Ping, PingLost, EndRound,
                  EndPinger, ReadFails, Close, registry, learning
    <2> QED BY <2>1, NothingEntered
  <1>4. ASSUME NEW a \in Addresses, Status(a) \/ AnswerPing(a) \/ AnswerLost(a)
        PROVE  RegistryInv'
    <2>1. Kept
      BY <1>4 DEF Status, AnswerPing, AnswerLost, registry, learning
    <2> QED BY <2>1, NothingEntered
  <1>5. ASSUME NEW a \in Addresses, NEW body \in Lists, Learn(a, body)
        PROVE  RegistryInv'
    BY <1>5, LearnKeeps
  <1>6. CASE UNCHANGED vars
    <2>1. Kept
      BY <1>6 DEF vars, registry, learning
    <2> QED BY <2>1, NothingEntered
  <1> QED BY <1>1, <1>2, <1>3, <1>4, <1>5, <1>6 DEF Next

LEMMA RegistryAlways == Spec => []RegistryInv
  BY RegistryInit, RegistryStep, PTL DEF Spec

----------------------------------------------------------------------------
\* Whatever lists arrive from whomever and however they are interleaved with each
\* other and with the pings, every peer is configured or was taught by one that
\* was known before it (dispatchUDP, peerRegistry.add, markSeen).
THEOREM PeersTaughtByKnown == Spec => []TaughtByKnown
  <1>1. RegistryInv => TaughtByKnown
    BY DEF RegistryInv
  <1> QED BY <1>1, RegistryAlways, PTL

----------------------------------------------------------------------------
(* The lists.                                                              *)

\* The ranks of a finite set of positions are 1, 2, ... up to its size, and they
\* grow with the positions.
LEMMA RanksAre ==
    ASSUME NEW n \in Nat, NEW P, P \subseteq 1..n
    PROVE  /\ Cardinality(P) \in Nat
           /\ Cardinality(P) <= n
           /\ \A i \in P : Rank(P, i) \in 1..Cardinality(P)
           /\ \A i, j \in P : i < j => Rank(P, i) < Rank(P, j)
           /\ \A k \in 1..Cardinality(P) : \E i \in P : Rank(P, i) = k
  <1> DEFINE below(i) == {j \in P : j <= i}
  <1>1. IsFiniteSet(1..n) /\ Cardinality(1..n) = n
    BY FS_Interval
  <1>2. IsFiniteSet(P) /\ Cardinality(P) <= n
    BY <1>1, FS_Subset
  <1>3. PICK m \in Nat : m = Cardinality(P)
    BY <1>2, FS_CardinalityType
  <1>4. \A i \in P : i \in Nat
    OBVIOUS
  <1>5. ASSUME NEW i \in P
        PROVE  IsFiniteSet(below(i)) /\ Rank(P, i) \in 1..m
    <2>1. IsFiniteSet(below(i)) /\ Cardinality(below(i)) <= m
      BY <1>2, <1>3, FS_Subset
    <2>2. Cardinality(below(i)) \in Nat
      BY <2>1, FS_CardinalityType
    <2>3. i \in below(i)
      BY <1>4
    <2>4. Cardinality(below(i)) # 0
      BY <2>1, <2>3, FS_EmptySet
    <2>5. Rank(P, i) = Cardinality(below(i))
      BY DEF Rank
    <2> HIDE DEF below
    <2> QED BY <2>1, <2>2, <2>4, <2>5, <1>3
  <1>6. ASSUME NEW i \in P, NEW j \in P, i < j
        PROVE  Rank(P, i) < Rank(P, j)
    <2>1. below(i) \subseteq below(j) /\ j \in below(j) /\ j \notin below(i)
      BY ONLY <1>4, <1>6, i \in P, j \in P
    <2>2. IsFiniteSet(below(j))
      BY <1>5
    <2>3. /\ Cardinality(below(i)) <= Cardinality(below(j))
          /\ Cardinality(below(j)) = Cardinality(below(i)) => below(j) = below(i)
      BY <2>1, <2>2, FS_Subset
    <2>4. below(j) # below(i)
      BY <2>1
    <2>5. Rank(P, i) = Cardinality(below(i)) /\ Rank(P, j) = Cardinality(below(j))
      BY DEF Rank
    <2>6. Rank(P, i) \in Nat /\ Rank(P, j) \in Nat
      <3>1. Rank(P, i) \in 1..m /\ Rank(P, j) \in 1..m
        BY <1>5
      <3> QED BY ONLY <3>1, m \in Nat
    <2> HIDE DEF below
    <2> QED BY <2>3, <2>4, <2>5, <2>6
  <1> DEFINE rank == [i \in P |-> Rank(P, i)]
  <1>7. rank \in [P -> 1..m]
    BY <1>5
  <1>8. \A i, j \in P : rank[i] = rank[j] => i = j
    <2> SUFFICES ASSUME NEW i \in P, NEW j \in P, Rank(P, i) = Rank(P, j) PROVE i = j
      OBVIOUS
    <2>1. Rank(P, i) \in Nat /\ Rank(P, j) \in Nat
      <3>1. Rank(P, i) \in 1..m /\ Rank(P, j) \in 1..m
        BY <1>5
      <3> QED BY ONLY <3>1, m \in Nat
    <2>2. ~(i < j) /\ ~(j < i)
      BY <2>1, <1>6
    <2> QED BY <2>2, <1>4
  <1>9. rank \in Injection(P, 1..m)
    BY <1>7, <1>8 DEF Injection, IsInjective
  <1>10. IsFiniteSet(1..m) /\ Cardinality(1..m) = m
    BY FS_Interval
  <1>11. rank \in Surjection(P, 1..m)
    BY <1>3, <1>9, <1>10, FS_Injection
  <1>12. \A k \in 1..m : \E i \in P : Rank(P, i) = k
    BY <1>11 DEF Surjection
  <1> HIDE DEF below
  <1> QED BY <1>2, <1>3, <1>5, <1>6, <1>12

\* What a loop keeps of a list is a list of what it looks for.
LEMMA OnlyIn ==
    ASSUME NEW T, NEW s \in Seq(T), NEW S
    PROVE  Only(s, S) \in Seq(S)
  <1> DEFINE P == {i \in DOMAIN s : s[i] \in S}
  <1>1. Len(s) \in Nat /\ P \subseteq 1..Len(s)
    OBVIOUS
  <1>2. PICK n \in Nat : n = Cardinality(P)
    BY <1>1, RanksAre
  <1>3. \A k \in 1..n : \E i \in P : Rank(P, i) = k
    BY <1>1, <1>2, RanksAre
  <1>4. \A k \in 1..n : s[CHOOSE i \in P : Rank(P, i) = k] \in S
    BY <1>3
  <1>5. Only(s, S) = [k \in 1..n |-> s[CHOOSE i \in P : Rank(P, i) = k]]
    BY <1>2, Zenon DEF Only, Selected
  <1> HIDE DEF P
  <1> QED BY <1>4, <1>5, IsASeq

\* A selection of all positions is the list.
LEMMA SelectedAll ==
    ASSUME NEW S, NEW s \in Seq(S)
    PROVE  Selected(s, DOMAIN s) = s
  <1>1. PICK n \in Nat : n = Len(s) /\ DOMAIN s = 1..n
    OBVIOUS
  <1>2. Cardinality(1..n) = n
    BY FS_Interval
  <1>3. ASSUME NEW i \in 1..n PROVE Rank(1..n, i) = i
    <2>1. {j \in 1..n : j <= i} = 1..i /\ i \in Nat /\ i >= 1
      OBVIOUS
    <2>2. Cardinality(1..i) = i
      BY <2>1, FS_Interval
    <2> QED BY <2>1, <2>2 DEF Rank
  <1>4. \A k \in 1..n : (CHOOSE i \in 1..n : Rank(1..n, i) = k) = k
    BY <1>3
  <1>5. Selected(s, 1..n) = [k \in 1..n |-> s[k]]
    <2>1. Selected(s, 1..n) = [k \in 1..n |-> s[CHOOSE i \in 1..n : Rank(1..n, i) = k]]
      BY <1>2, Zenon DEF Selected
    <2> QED BY <2>1, <1>4, Zenon
  <1>6. s = [k \in 1..n |-> s[k]]
    BY <1>1
  <1> QED BY <1>1, <1>5, <1>6

\* Nothing is passed over in a list that has nothing else.
LEMMA OnlyAll ==
    ASSUME NEW S, NEW s \in Seq(S)
    PROVE  Only(s, S) = s
  <1>1. \A i \in DOMAIN s : s[i] \in S
    OBVIOUS
  <1>2. {i \in DOMAIN s : s[i] \in S} = DOMAIN s
    BY <1>1, Zenon
  <1> QED BY <1>2, SelectedAll DEF Only

\* A body read back: the count is what is left of the length in one byte, never
\* more than there are entries, and no entry is passed over.
LEMMA BodyDecodes ==
    ASSUME NEW all \in Seq(V4)
    PROVE  DecodesTo(Body(all), all)
  <1>1. PICK n \in Nat : n = Len(all)
    OBVIOUS
  <1>2. PICK count \in Nat : count = n % ByteSize
    BY ByteAssumption
  <1>3. count <= n /\ (n < ByteSize => count = n)
    <2>1. CASE n < ByteSize
      BY <1>2, <2>1, ByteAssumption
    <2>2. CASE n >= ByteSize
      <3>1. n % ByteSize \in 0..(ByteSize - 1)
        BY ByteAssumption
      <3> QED BY <1>2, <3>1, <2>2, ByteAssumption
    <2> QED BY <2>1, <2>2, ByteAssumption
  <1>4. Body(all) = [count |-> count, entries |-> all]
    BY <1>1, <1>2 DEF Body
  <1>5. Counted(Body(all)) = SubSeq(all, 1, count)
    BY <1>1, <1>3, <1>4 DEF Counted
  <1>6. /\ SubSeq(all, 1, count) \in Seq(V4)
        /\ Len(SubSeq(all, 1, count)) = count
        /\ SubSeq(all, 1, n) = all
    BY <1>1, <1>3
  <1>7. ParseServerListBody(Body(all)) = SubSeq(all, 1, count)
    BY <1>5, <1>6, OnlyAll DEF ParseServerListBody
  <1> QED BY <1>1, <1>3, <1>6, <1>7 DEF DecodesTo

\* The address of a key.
LEMMA AddrOfKey == \A key \in Keys : AddrOf(key) \in Addresses
  BY AddressAssumption DEF Keys, AddrOf

\* Any list of keys has a list of addresses of the same length.
LEMMA AddressesOfKeys ==
    ASSUME NEW keys \in Seq(Keys)
    PROVE  [i \in DOMAIN keys |-> AddrOf(keys[i])] \in Seq(Addresses)
  <1>1. PICK n \in Nat : DOMAIN keys = 1..n
    OBVIOUS
  <1>2. \A i \in 1..n : AddrOf(keys[i]) \in Addresses
    BY <1>1, AddrOfKey
  <1> QED BY <1>1, <1>2, IsASeq

\* However many peers are configured and learned: whoever reads a server list of
\* this server gets its IPv4 entries in order, all of them if a byte can count
\* them (buildUDPServerListReply, buildServerListBody, parseServerListBody).
THEOREM PeersListsDecode == Spec => []ListsDecode
  <1>1. RegistryInv => ListsDecode
    <2> SUFFICES ASSUME RegistryInv PROVE ListsDecode
      OBVIOUS
    <2>1. config \in Seq(Keys \cup {Bad}) /\ order \in Seq(Keys)
      BY DEF RegistryInv, TypeInv
    <2> DEFINE peers == [i \in DOMAIN order |-> AddrOf(order[i])]
               configured == [i \in DOMAIN ValidSpecs |-> AddrOf(ValidSpecs[i])]
    <2>2. peers \in Seq(Addresses)
      BY <2>1, AddressesOfKeys
    <2>3. ValidSpecs \in Seq(Keys)
      BY <2>1, OnlyIn DEF ValidSpecs
    <2>4. configured \in Seq(Addresses)
      BY <2>3, AddressesOfKeys
    <2> HIDE DEF peers, configured
    <2>5. UDPEntries \in Seq(V4)
      <3>1. Entries(peers) \in Seq(V4)
        BY <2>2, OnlyIn DEF Entries
      <3> QED BY <3>1 DEF UDPEntries, peers
    <2>6. ASSUME NEW self \in Addresses
          PROVE  ServerEntries(self) \in Seq(V4)
      <3>1. <<self>> \in Seq(Addresses)
        OBVIOUS
      <3>2. <<self>> \o configured \in Seq(Addresses)
        BY ONLY <3>1, <2>4, ConcatProperties
      <3>3. Entries(<<self>> \o configured) \in Seq(V4)
        BY <3>2, OnlyIn DEF Entries
      <3> QED BY <3>3 DEF ServerEntries, configured
    <2>7. DecodesTo(UDPServerList, UDPEntries)
      BY <2>5, BodyDecodes DEF UDPServerList
    <2>8. ASSUME NEW self \in Addresses, ServerList(self) # Bad
          PROVE  DecodesTo(ServerList(self), ServerEntries(self))
      <3>1. ServerList(self) = Body(ServerEntries(self))
        BY <2>8 DEF ServerList
      <3> QED BY <2>6, <3>1, BodyDecodes
    <2> QED BY <2>7, <2>8 DEF ListsDecode
  <1> QED BY <1>1, RegistryAlways, PTL
=============================================================================
