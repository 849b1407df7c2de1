--------------------------- MODULE SessionsProofs ---------------------------
(* Theorems about Sessions, for any number of connections, files and IDs.  *)
EXTENDS Sessions, FiniteSetTheorems, TLAPS

\* The functions that index updates produce have the type of the index.
LEMMA IndexTypes ==
    ASSUME NEW id \in IDs, NEW fs \in SUBSET Files,
           NEW src \in [Files -> SUBSET IDs], NEW com \in [Files -> SUBSET IDs],
           NEW acc \in [Files -> Offer]
    PROVE  /\ RemoveSources(id, fs, src) \in [Files -> SUBSET IDs]
           /\ RemoveCompletes(id, fs, src, com) \in [Files -> SUBSET IDs]
           /\ AddSources(id, acc, src) \in [Files -> SUBSET IDs]
           /\ AddCompletes(id, acc, com) \in [Files -> SUBSET IDs]
<1>1. RemoveSources(id, fs, src) \in [Files -> SUBSET IDs]
  BY DEF RemoveSources
<1>2. RemoveCompletes(id, fs, src, com) \in [Files -> SUBSET IDs]
  BY DEF RemoveCompletes
<1>3. AddSources(id, acc, src) \in [Files -> SUBSET IDs]
  BY DEF AddSources
<1>4. AddCompletes(id, acc, com) \in [Files -> SUBSET IDs]
  BY DEF AddCompletes
<1> QED BY <1>1, <1>2, <1>3, <1>4

\* A session that has an ID at work has a proper one: the steps below index the
\* registry with it.
AtWork == {"register", "find", "merge", "publish", "lookup", "drain", "revoke",
           "delete"}

HasID == \A s \in Sessions : pc[s] \in AtWork => assignedID[s] # 0
HasTarget == \A s \in Sessions :
                pc[s] \in {"merge", "publish", "drain", "revoke"} => target[s] \in Sessions

TypeInv == TypeOK /\ HasID /\ HasTarget

LEMMA InitTypes == Init => TypeInv
<1> USE DEF Init, TypeInv
<1>1. NoFiles \in [Files -> Offer]
  BY DEF NoFiles, Offer
<1>2. Init => TypeOK
  BY <1>1, FirstIDAssumption, BoundAssumption DEF TypeOK, Steps, IDs
<1>3. Init => HasID /\ HasTarget
  BY DEF HasID, HasTarget, AtWork
<1> QED BY <1>2, <1>3

LEMMA NextTypes == TypeInv /\ [Next]_vars => TypeInv'
<1> SUFFICES ASSUME TypeInv, [Next]_vars PROVE TypeInv'
  OBVIOUS
<1> USE DEF TypeInv
<1>0. NoFiles \in [Files -> Offer]
  BY DEF NoFiles, Offer
<1>1. ASSUME NEW s \in Sessions, Accept(s) PROVE TypeInv'
  BY <1>0, <1>1 DEF Accept, TypeOK, HasID, HasTarget, AtWork, Steps, registry, index, locals
<1>2. ASSUME NEW s \in Sessions, LoginCheck(s) PROVE TypeInv'
  <2>1. CASE /\ RemoteID[s] # 0
             /\ assignedID' = [assignedID EXCEPT ![s] = RemoteID[s]]
             /\ pc' = [pc EXCEPT ![s] = "register"]
    <3>1. RemoteID[s] \in IDs
      BY <2>1, RemoteIDAssumption
    <3>2. assignedID' \in [Sessions -> IDs \cup {0}]
      BY <2>1, <3>1 DEF TypeOK
    <3>3. \A t \in Sessions : assignedID'[t] \in {0, RemoteID[t]} \cup (FirstID..MaxID)
      BY <2>1 DEF TypeOK
    <3>4. HasID' /\ HasTarget'
      BY <1>2, <2>1 DEF LoginCheck, TypeOK, HasID, HasTarget, AtWork, locals
    <3> QED
      BY <1>2, <2>1, <3>2, <3>3, <3>4, BoundAssumption
         DEF LoginCheck, TypeOK, Steps, registry, index, locals
  <2>2. CASE /\ pc' = [pc EXCEPT ![s] = "alloc"]
             /\ UNCHANGED assignedID
    BY <1>2, <2>2, BoundAssumption
       DEF LoginCheck, TypeOK, HasID, HasTarget, AtWork, Steps, registry, index, locals
  <2> QED BY <1>2, <2>1, <2>2 DEF LoginCheck
<1>3. ASSUME NEW s \in Sessions, LoginAllocate(s) PROVE TypeInv'
  BY <1>3, FirstIDAssumption, BoundAssumption
     DEF LoginAllocate, FirstFree, IDs, TypeOK, HasID, HasTarget, AtWork, Steps, index, locals
<1>4. ASSUME NEW s \in Sessions, Register(s) PROVE TypeInv'
  BY <1>4 DEF Register, TypeOK, HasID, HasTarget, AtWork, Steps, index, locals
<1>5. ASSUME NEW s \in Sessions, OfferFiles(s) PROVE TypeInv'
  BY <1>5 DEF OfferFiles, Named, TypeOK, HasID, HasTarget, AtWork, Steps, registry, index
<1>6. ASSUME NEW s \in Sessions, OfferFind(s) PROVE TypeInv'
  <2>1. clients[assignedID[s]] \in Sessions \cup {NoSession}
    BY <1>6 DEF OfferFind, TypeOK, HasID, AtWork
  <2>2. CASE /\ pc' = [pc EXCEPT ![s] = "idle"]
             /\ batch' = [batch EXCEPT ![s] = NoFiles]
             /\ UNCHANGED target
    BY <1>0, <1>6, <2>2
       DEF OfferFind, TypeOK, HasID, HasTarget, AtWork, Steps, registry, index
  <2>3. CASE /\ pc' = [pc EXCEPT ![s] = "lookup"]
             /\ UNCHANGED <<target, batch>>
    BY <1>6, <2>3
       DEF OfferFind, TypeOK, HasID, HasTarget, AtWork, Steps, registry, index
  <2>4. CASE /\ clients[assignedID[s]] # NoSession
             /\ pc' = [pc EXCEPT ![s] = "merge"]
             /\ target' = [target EXCEPT ![s] = clients[assignedID[s]]]
             /\ UNCHANGED batch
    BY <1>6, <2>1, <2>4
       DEF OfferFind, TypeOK, HasID, HasTarget, AtWork, Steps, registry, index
  <2> QED BY <1>6, <2>2, <2>3, <2>4 DEF OfferFind
<1>7. ASSUME NEW s \in Sessions, OfferMerge(s) PROVE TypeInv'
  BY <1>0, <1>7 DEF OfferMerge, Replaced, Named, Offer, TypeOK, HasID, HasTarget, AtWork,
                    Steps, registry, index
<1>8. ASSUME NEW s \in Sessions, OfferPublish(s) PROVE TypeInv'
  <2> DEFINE src == RemoveSources(assignedID[s], previous[s], byClient)
             com == RemoveCompletes(assignedID[s], previous[s], byClient, completes)
  <2>1. assignedID[s] \in IDs /\ previous[s] \in SUBSET Files /\ accepted[s] \in [Files -> Offer]
    BY <1>8 DEF OfferPublish, TypeOK, HasID, AtWork
  <2>2. src \in [Files -> SUBSET IDs] /\ com \in [Files -> SUBSET IDs]
    BY <2>1, IndexTypes DEF TypeOK
  <2>3. byClient' \in [Files -> SUBSET IDs] /\ completes' \in [Files -> SUBSET IDs]
    <3> HIDE DEF src, com
    <3>1. byClient' = AddSources(assignedID[s], accepted[s], src)
          /\ completes' = AddCompletes(assignedID[s], accepted[s], com)
      BY <1>8 DEF OfferPublish, src, com
    <3> QED BY <2>1, <2>2, <3>1, IndexTypes
  <2> QED
    BY <1>0, <1>8, <2>3 DEF OfferPublish, TypeOK, HasID, HasTarget, AtWork, Steps, registry
<1>9. ASSUME NEW s \in Sessions, Disconnect(s) PROVE TypeInv'
  BY <1>9 DEF Disconnect, TypeOK, HasID, HasTarget, AtWork, Steps, registry, index, locals
<1>10. ASSUME NEW s \in Sessions, RemoveLookup(s) PROVE TypeInv'
  BY <1>10 DEF RemoveLookup, AfterRemove, TypeOK, HasID, HasTarget, AtWork, Steps,
               registry, index
<1>11. ASSUME NEW s \in Sessions, RemoveDrain(s) PROVE TypeInv'
  BY <1>0, <1>11 DEF RemoveDrain, Named, TypeOK, HasID, HasTarget, AtWork, Steps,
                     registry, index
<1>12. ASSUME NEW s \in Sessions, RemoveRevoke(s) PROVE TypeInv'
  BY <1>12, IndexTypes
     DEF RemoveRevoke, AfterRemove, TypeOK, HasID, HasTarget, AtWork, Steps, registry
<1>13. ASSUME NEW s \in Sessions, Unregister(s) PROVE TypeInv'
  BY <1>13 DEF Unregister, TypeOK, HasID, HasTarget, AtWork, Steps, index, locals
<1>14. CASE UNCHANGED vars
  BY <1>14 DEF vars, registry, index, locals, TypeOK, HasID, HasTarget
<1> QED
  BY <1>1, <1>2, <1>3, <1>4, <1>5, <1>6, <1>7, <1>8, <1>9, <1>10, <1>11, <1>12,
     <1>13, <1>14 DEF Next, Handler, Handled, Remote

\* Type correctness of the registry, the index and the handlers' locals, for
\* every value of the constants.
THEOREM TypeCorrect == Spec => []TypeOK
<1>1. Spec => []TypeInv
  BY InitTypes, NextTypes, PTL DEF Spec
<1> QED BY <1>1, PTL DEF TypeInv
----------------------------------------------------------------------------
(* The cap on offered files, without any assumption on addresses.          *)

\* The loop of mergeClientOfferedFiles never goes beyond the cap, whatever the
\* session it works on holds already.
LEMMA CapKept ==
    ASSUME NEW have \in SUBSET Files, NEW asked \in SUBSET (Files \ have),
           NEW new \in SUBSET asked, MaxOffered > 0,
           Cardinality(have) <= MaxOffered, WithinCap(have, asked, new)
    PROVE  Cardinality(have \cup new) <= MaxOffered
<1>1. IsFiniteSet(have) /\ IsFiniteSet(asked) /\ IsFiniteSet(new)
  BY FilesAssumption, FS_Subset
<1>2. Cardinality(have) \in Nat /\ Cardinality(asked) \in Nat /\ Cardinality(new) \in Nat
  BY <1>1, FS_CardinalityType
<1>3. Cardinality(have \cup new) = Cardinality(have) + Cardinality(new)
  <2>1. have \cap new = {}
    OBVIOUS
  <2>2. Cardinality(have \cup new)
            = Cardinality(have) + Cardinality(new) - Cardinality(have \cap new)
    BY <1>1, FS_Union
  <2>3. Cardinality(have \cap new) = 0
    BY <2>1, FS_EmptySet
  <2> QED BY <1>2, <2>2, <2>3
<1>4. Cardinality(new) <= Room(have)
  BY <1>2, BoundAssumption DEF WithinCap, Room
<1> QED BY <1>2, <1>3, <1>4, BoundAssumption DEF Room

LEMMA InitCap == Init => CapAcrossBatches
<1>1. Named(NoFiles) = {}
  BY DEF Named, NoFiles
<1> QED BY <1>1, FS_EmptySet, BoundAssumption, SMTT(30) DEF Init, CapAcrossBatches

LEMMA NextCap == TypeInv /\ CapAcrossBatches /\ [Next]_vars => CapAcrossBatches'
<1> SUFFICES ASSUME TypeInv, CapAcrossBatches, [Next]_vars, MaxOffered > 0,
                    NEW u \in Sessions
             PROVE  Cardinality(Named(offered'[u])) <= MaxOffered
  BY DEF CapAcrossBatches
<1> DEFINE Goal == Cardinality(Named(offered'[u])) <= MaxOffered
<1>1. Named(NoFiles) = {}
  BY DEF Named, NoFiles
<1>2. Cardinality({}) <= MaxOffered
  BY FS_EmptySet, BoundAssumption
<1>3. Cardinality(Named(offered[u])) <= MaxOffered
  BY DEF CapAcrossBatches
<1>4. ASSUME NEW s \in Sessions, OfferMerge(s) PROVE Goal
  <2> DEFINE t == target[s]
             have == Named(offered[t])
             asked == Named(batch[s]) \ have
  <2>1. t \in Sessions
    BY <1>4 DEF OfferMerge, TypeInv, HasTarget
  <2>2. PICK new \in SUBSET asked :
            /\ WithinCap(have, asked, new)
            /\ offered' = [offered EXCEPT ![t] =
                  [f \in Files |-> IF f \in have \cup new /\ batch[s][f] # "none"
                                   THEN batch[s][f] ELSE offered[t][f]]]
    BY <1>4 DEF OfferMerge
  <2>3. CASE u # t
    BY <1>3, <2>1, <2>2, <2>3 DEF TypeInv, TypeOK
  <2>4. CASE u = t
    <3>1. have \in SUBSET Files /\ asked \in SUBSET (Files \ have)
      BY DEF Named
    <3>2. offered'[u] = [f \in Files |-> IF f \in have \cup new /\ batch[s][f] # "none"
                                         THEN batch[s][f] ELSE offered[t][f]]
      BY <2>1, <2>2, <2>4 DEF TypeInv, TypeOK
    <3>3. \A f \in new : batch[s][f] # "none"
      BY <2>2 DEF Named
    <3>4. Named(offered'[u]) = have \cup new
      BY <2>2, <3>1, <3>2, <3>3 DEF Named
    <3>5. Cardinality(have) <= MaxOffered
      BY <2>1 DEF CapAcrossBatches
    <3>6. Cardinality(have \cup new) <= MaxOffered
      <4> HIDE DEF have, asked
      <4> QED BY <2>2, <3>1, <3>5, CapKept
    <3> QED BY <3>4, <3>6
  <2> QED BY <2>3, <2>4
<1>5. ASSUME NEW s \in Sessions, Accept(s) \/ RemoveDrain(s) PROVE Goal
  <2>1. offered'[u] = offered[u] \/ offered'[u] = NoFiles
    BY <1>5 DEF Accept, RemoveDrain, TypeInv, TypeOK, HasTarget
  <2> QED BY <1>1, <1>2, <1>3, <2>1
<1>6. ASSUME NEW s \in Sessions,
             \/ LoginCheck(s) \/ LoginAllocate(s) \/ Register(s) \/ OfferFiles(s)
             \/ OfferFind(s) \/ OfferPublish(s) \/ Disconnect(s) \/ RemoveLookup(s)
             \/ RemoveRevoke(s) \/ Unregister(s)
      PROVE  offered' = offered
  BY <1>6 DEF LoginCheck, LoginAllocate, Register, OfferFiles, OfferFind, OfferPublish,
              Disconnect, RemoveLookup, RemoveRevoke, Unregister
<1>7. CASE offered' = offered
  BY <1>3, <1>7
<1> QED
  BY <1>4, <1>5, <1>6, <1>7 DEF Next, Handler, Handled, Remote, vars

\* "Enforce the per-client cap across all batches, not per packet": no session
\* ever holds more files than the cap, for clients that share an address, log in
\* again or merge into the session of another connection as well.
THEOREM CapHolds == Spec => []CapAcrossBatches
<1>1. Spec => []TypeInv
  BY InitTypes, NextTypes, PTL DEF Spec
<1> QED BY <1>1, InitCap, NextCap, PTL DEF Spec

----------------------------------------------------------------------------
(* The registry leads to sessions being served, if a client logs in once.  *)

Served == {"idle", "find", "merge", "publish", "lookup", "drain", "revoke", "delete"}

\* A session that is still allocating has no ID yet.
NoIDYet == \A s \in Sessions : pc[s] = "alloc" => assignedID[s] = 0

\* An entry of the registry names its session's ID, and the session is served.
EntriesServed ==
    \A id \in IDs : clients[id] # NoSession =>
        assignedID[clients[id]] = id /\ pc[clients[id]] \in Served

RegistryInv == TypeInv /\ NoIDYet /\ EntriesServed

LEMMA InitRegistry == Init => RegistryInv
  BY InitTypes DEF Init, RegistryInv, NoIDYet, EntriesServed

LEMMA NextRegistry ==
    ASSUME ~Relogin PROVE RegistryInv /\ [Next]_vars => RegistryInv'
<1> SUFFICES ASSUME RegistryInv, [Next]_vars PROVE NoIDYet' /\ EntriesServed'
  BY NextTypes DEF RegistryInv
<1> USE NoSessionAssumption DEF RegistryInv, TypeInv, NoIDYet, EntriesServed, Served
<1>1. ASSUME NEW s \in Sessions, Accept(s) PROVE NoIDYet' /\ EntriesServed'
  BY <1>1 DEF Accept, TypeOK, registry
<1>2. ASSUME NEW s \in Sessions, LoginCheck(s) PROVE NoIDYet' /\ EntriesServed'
  <2>1. assignedID[s] = 0 /\ UNCHANGED clients
    BY <1>2 DEF LoginCheck, registry
  <2>2. \A id \in IDs : clients[id] # s
    BY <2>1 DEF IDs
  <2>3. CASE /\ assignedID' = [assignedID EXCEPT ![s] = RemoteID[s]]
             /\ pc' = [pc EXCEPT ![s] = "register"]
    BY <2>1, <2>2, <2>3 DEF TypeOK
  <2>4. CASE /\ pc' = [pc EXCEPT ![s] = "alloc"]
             /\ UNCHANGED assignedID
    BY <2>1, <2>2, <2>4 DEF TypeOK
  <2> QED BY <1>2, <2>3, <2>4 DEF LoginCheck
<1>3. ASSUME NEW s \in Sessions, LoginAllocate(s) PROVE NoIDYet' /\ EntriesServed'
  BY <1>3 DEF LoginAllocate, TypeOK
<1>4. ASSUME NEW s \in Sessions, Register(s) PROVE NoIDYet' /\ EntriesServed'
  BY <1>4 DEF Register, TypeOK, HasID, AtWork
<1>5. ASSUME NEW s \in Sessions, OfferFiles(s) PROVE NoIDYet' /\ EntriesServed'
  BY <1>5 DEF OfferFiles, TypeOK, registry
<1>6. ASSUME NEW s \in Sessions, OfferFind(s) PROVE NoIDYet' /\ EntriesServed'
  <2>1. \E step \in {"idle", "lookup", "merge"} : pc' = [pc EXCEPT ![s] = step]
    BY <1>6 DEF OfferFind
  <2>2. UNCHANGED <<assignedID, clients>>
    BY <1>6 DEF OfferFind, registry
  <2> QED BY <2>1, <2>2 DEF TypeOK
<1>7. ASSUME NEW s \in Sessions, OfferMerge(s) PROVE NoIDYet' /\ EntriesServed'
  BY <1>7 DEF OfferMerge, TypeOK, registry
<1>8. ASSUME NEW s \in Sessions, OfferPublish(s) PROVE NoIDYet' /\ EntriesServed'
  BY <1>8 DEF OfferPublish, TypeOK, registry
<1>9. ASSUME NEW s \in Sessions, Disconnect(s) PROVE NoIDYet' /\ EntriesServed'
  BY <1>9 DEF Disconnect, TypeOK, registry, IDs
<1>10. ASSUME NEW s \in Sessions, RemoveLookup(s) PROVE NoIDYet' /\ EntriesServed'
  BY <1>10 DEF RemoveLookup, AfterRemove, TypeOK, registry
<1>11. ASSUME NEW s \in Sessions, RemoveDrain(s) PROVE NoIDYet' /\ EntriesServed'
  BY <1>11 DEF RemoveDrain, TypeOK, registry
<1>12. ASSUME NEW s \in Sessions, RemoveRevoke(s) PROVE NoIDYet' /\ EntriesServed'
  BY <1>12 DEF RemoveRevoke, AfterRemove, TypeOK, registry
<1>13. ASSUME NEW s \in Sessions, Unregister(s) PROVE NoIDYet' /\ EntriesServed'
  BY <1>13 DEF Unregister, StillOurs, TypeOK, HasID, AtWork
<1>14. CASE UNCHANGED vars
  BY <1>14 DEF vars, registry
<1> QED
  BY <1>1, <1>2, <1>3, <1>4, <1>5, <1>6, <1>7, <1>8, <1>9, <1>10, <1>11, <1>12,
     <1>13, <1>14 DEF Next, Handler, Handled, Remote

\* If clients log in once per connection, the registry never leads to a session
\* whose goroutine has ended, even when logins race for one ID.
THEOREM RegistryStaysLive == ASSUME ~Relogin PROVE Spec => []RegistryLive
<1>1. RegistryInv => RegistryLive
  BY DEF RegistryInv, RegistryLive, EntriesServed, Served
<1>2. Spec => []RegistryInv
  BY InitRegistry, NextRegistry, PTL DEF Spec
<1> QED BY <1>1, <1>2, PTL

----------------------------------------------------------------------------
(* Client IDs are unique, if logins do not race.                           *)

\* A session being served under an ID is in the registry under that ID.
InRegistry ==
    \A s \in Sessions :
        pc[s] \in Served /\ assignedID[s] # 0 => clients[assignedID[s]] = s

\* The ID of a session that is about to register is still free.
StillFree ==
    \A s \in Sessions : pc[s] = "register" => clients[assignedID[s]] = NoSession

\* A session works on its own offered files only.
OwnTarget ==
    \A s \in Sessions :
        pc[s] \in {"merge", "publish", "drain", "revoke"} => target[s] = s

IdentityInv == RegistryInv /\ InRegistry /\ StillFree /\ OwnTarget

LEMMA InitIdentity == Init => IdentityInv
  BY InitRegistry DEF Init, IdentityInv, InRegistry, StillFree, OwnTarget, Served

\* Connections being served differ in their IDs.
LEMMA IdentityUnique == IdentityInv /\ NoLoginRace => UniqueIDs
<1> SUFFICES ASSUME IdentityInv, NoLoginRace, NEW s \in Sessions, NEW t \in Sessions,
                    pc[s] # "gone", pc[t] # "gone", assignedID[s] # 0,
                    assignedID[s] = assignedID[t]
             PROVE  s = t
  BY DEF UniqueIDs
<1>1. /\ pc[s] \in Served \cup {"register"}
      /\ pc[t] \in Served \cup {"register"}
  BY DEF IdentityInv, RegistryInv, TypeInv, TypeOK, Steps, NoIDYet, Served
<1>2. ASSUME NEW u \in Sessions, pc[u] \in Served, assignedID[u] # 0
      PROVE  clients[assignedID[u]] = u
  BY <1>2 DEF IdentityInv, InRegistry
<1>3. ASSUME NEW u \in Sessions, pc[u] = "register"
      PROVE  clients[assignedID[u]] = NoSession
  BY <1>3 DEF IdentityInv, StillFree
<1>4. CASE pc[s] = "register" /\ pc[t] = "register"
  BY <1>4 DEF NoLoginRace
<1> QED BY <1>1, <1>2, <1>3, <1>4, NoSessionAssumption

LEMMA NextIdentity ==
    ASSUME ~Relogin PROVE IdentityInv /\ NoLoginRace /\ [Next]_vars => IdentityInv'
<1> SUFFICES ASSUME IdentityInv, NoLoginRace, [Next]_vars
             PROVE  InRegistry' /\ StillFree' /\ OwnTarget'
  BY NextRegistry DEF IdentityInv
<1> DEFINE Goal == InRegistry /\ StillFree /\ OwnTarget
<1> USE NoSessionAssumption
    DEF IdentityInv, RegistryInv, TypeInv, InRegistry, StillFree, OwnTarget, Served
<1>1. ASSUME NEW s \in Sessions, Accept(s) PROVE Goal'
  BY <1>1 DEF Accept, TypeOK, registry, locals
<1>2. ASSUME NEW s \in Sessions, LoginCheck(s) PROVE Goal'
  <2>1. UNCHANGED <<clients, target>>
    BY <1>2 DEF LoginCheck, registry, locals
  <2>2. CASE /\ clients[RemoteID[s]] = NoSession
             /\ assignedID' = [assignedID EXCEPT ![s] = RemoteID[s]]
             /\ pc' = [pc EXCEPT ![s] = "register"]
    BY <2>1, <2>2 DEF TypeOK
  <2>3. CASE /\ pc' = [pc EXCEPT ![s] = "alloc"]
             /\ UNCHANGED assignedID
    BY <2>1, <2>3 DEF TypeOK
  <2> QED BY <1>2, <2>2, <2>3 DEF LoginCheck
<1>3. ASSUME NEW s \in Sessions, LoginAllocate(s) PROVE Goal'
  BY <1>3 DEF LoginAllocate, FirstFree, TypeOK, locals
<1>4. ASSUME NEW s \in Sessions, Register(s) PROVE Goal'
  <2>1. assignedID[s] \in IDs
    BY <1>4 DEF Register, TypeOK, HasID, AtWork
  <2>2. \A t \in Sessions \ {s} :
           pc[t] \in Served \cup {"register"} => assignedID[t] # assignedID[s]
    BY <1>4, <2>1, IdentityUnique DEF Register, UniqueIDs, IDs
  <2> QED BY <1>4, <2>1, <2>2 DEF Register, TypeOK, locals
<1>5. ASSUME NEW s \in Sessions, OfferFiles(s) PROVE Goal'
  BY <1>5 DEF OfferFiles, TypeOK, registry
<1>6. ASSUME NEW s \in Sessions, OfferFind(s) PROVE Goal'
  <2>1. clients[assignedID[s]] = s
    BY <1>6 DEF OfferFind, HasID, AtWork
  <2>2. \/ pc' = [pc EXCEPT ![s] = "lookup"] /\ UNCHANGED target
        \/ pc' = [pc EXCEPT ![s] = "merge"] /\ target' = [target EXCEPT ![s] = s]
    BY <1>6, <2>1 DEF OfferFind
  <2>3. UNCHANGED <<assignedID, clients>>
    BY <1>6 DEF OfferFind, registry
  <2> QED BY <1>6, <2>2, <2>3, SMTT(30) DEF OfferFind, TypeOK
<1>7. ASSUME NEW s \in Sessions, OfferMerge(s) PROVE Goal'
  BY <1>7 DEF OfferMerge, TypeOK, registry
<1>8. ASSUME NEW s \in Sessions, OfferPublish(s) PROVE Goal'
  BY <1>8 DEF OfferPublish, TypeOK, registry
<1>9. ASSUME NEW s \in Sessions, Disconnect(s) PROVE Goal'
  BY <1>9 DEF Disconnect, TypeOK, registry, locals
<1>10. ASSUME NEW s \in Sessions, RemoveLookup(s) PROVE Goal'
  <2>1. clients[assignedID[s]] = s
    BY <1>10 DEF RemoveLookup, HasID, AtWork
  <2> QED BY <1>10, <2>1 DEF RemoveLookup, TypeOK, registry
<1>11. ASSUME NEW s \in Sessions, RemoveDrain(s) PROVE Goal'
  BY <1>11 DEF RemoveDrain, TypeOK, registry
<1>12. ASSUME NEW s \in Sessions, RemoveRevoke(s) PROVE Goal'
  BY <1>12 DEF RemoveRevoke, AfterRemove, TypeOK, registry
<1>13. ASSUME NEW s \in Sessions, Unregister(s) PROVE Goal'
  <2>1. assignedID[s] \in IDs
    BY <1>13 DEF Unregister, TypeOK, HasID, AtWork
  <2>2. \A t \in Sessions \ {s} :
           pc[t] \in Served \cup {"register"} => assignedID[t] # assignedID[s]
    BY <1>13, <2>1, IdentityUnique DEF Unregister, UniqueIDs, IDs
  <2> QED BY <1>13, <2>1, <2>2 DEF Unregister, TypeOK, locals
<1>14. CASE UNCHANGED vars
  BY <1>14 DEF vars, registry, locals
<1> QED
  BY <1>1, <1>2, <1>3, <1>4, <1>5, <1>6, <1>7, <1>8, <1>9, <1>10, <1>11, <1>12,
     <1>13, <1>14 DEF Next, Handler, Handled, Remote

\* The race of two logins is the only way to a shared ID: as long as no two
\* connections hold the same ID between allocateClientID and registerClient, all
\* connections being served have different IDs, whatever addresses they come from
\* and wherever the scan starts.
THEOREM IDsAreUnique ==
    ASSUME ~Relogin PROVE Spec /\ []NoLoginRace => []UniqueIDs
<1>1. Spec /\ []NoLoginRace => []IdentityInv
  BY InitIdentity, NextIdentity, PTL DEF Spec
<1> QED BY <1>1, IdentityUnique, PTL

\* The behaviours that RaceFreeSpec describes are those of Spec without the race.
LEMMA RaceFreeBehaviours == RaceFreeSpec => Spec /\ []NoLoginRace
<1>1. Init => NoLoginRace
  BY DEF Init, NoLoginRace
<1>2. [NextAlone]_vars => [Next]_vars
  BY DEF NextAlone, HandlerAlone, RemoteAlone, CheckAlone, AllocateAlone, Next,
         Handler, Remote
<1>3. TypeInv /\ NoLoginRace /\ [NextAlone]_vars => NoLoginRace'
  <2> SUFFICES ASSUME TypeInv, NoLoginRace, [NextAlone]_vars PROVE NoLoginRace'
    OBVIOUS
  <2>1. CASE UNCHANGED <<pc, assignedID>>
    BY <2>1 DEF NoLoginRace
  <2>2. ASSUME NEW s \in Sessions, Accept(s) PROVE NoLoginRace'
    BY <2>2 DEF Accept, NoLoginRace, TypeInv, TypeOK
  <2>3. ASSUME NEW s \in Sessions, UNCHANGED assignedID,
               NEW step \in Steps \ {"register"}, pc' = [pc EXCEPT ![s] = step]
        PROVE  NoLoginRace'
    BY <2>3 DEF NoLoginRace, TypeInv, TypeOK
  <2>4. ASSUME NEW s \in Sessions,
               \/ Register(s) \/ OfferFiles(s) \/ OfferMerge(s) \/ OfferPublish(s)
               \/ RemoveDrain(s) \/ Unregister(s)
        PROVE  NoLoginRace'
    BY <2>3, <2>4 DEF Register, OfferFiles, OfferMerge, OfferPublish, RemoveDrain,
                      Unregister, Steps
  <2>5. ASSUME NEW s \in Sessions,
               OfferFind(s) \/ Disconnect(s) \/ RemoveLookup(s) \/ RemoveRevoke(s)
        PROVE  NoLoginRace'
    <3>1. /\ \E step \in Steps \ {"register"} : pc' = [pc EXCEPT ![s] = step]
          /\ UNCHANGED assignedID
      BY <2>5 DEF OfferFind, Disconnect, RemoveLookup, RemoveRevoke, AfterRemove, Steps
    <3> QED BY <2>3, <3>1
  <2> QED
    BY <2>1, <2>2, <2>4, <2>5
       DEF NextAlone, HandlerAlone, Handled, RemoteAlone, CheckAlone, AllocateAlone, vars
<1> QED BY <1>1, <1>2, <1>3, InitTypes, NextTypes, PTL DEF RaceFreeSpec, Spec

----------------------------------------------------------------------------
(* What the index holds belongs to a connected client.                     *)

\* What a session is about to publish it offers.
AcceptedOffered ==
    \A s \in Sessions : pc[s] = "publish" =>
        \A f \in Files : accepted[s][f] # "none" => offered[s][f] # "none"

\* A session that has been drained offers nothing.
Drained ==
    \A s \in Sessions : pc[s] \in {"revoke", "delete"} =>
        \A f \in Files : offered[s][f] = "none"

\* The session still offers f, or is about to take it out of the index.
Holds(s, f) ==
    \/ offered[s][f] # "none"
    \/ pc[s] = "revoke" /\ f \in previous[s]

\* Whoever is in the index is in the registry and holds the file.
IndexOwned ==
    \A f \in Files : \A id \in completes[f] :
        clients[id] # NoSession /\ Holds(clients[id], f)

OwnersInv == IdentityInv /\ AcceptedOffered /\ Drained /\ IndexOwned

LEMMA InitOwners == Init => OwnersInv
  BY InitIdentity
     DEF Init, OwnersInv, AcceptedOffered, Drained, IndexOwned

\* Updates of the index only take IDs out, or put the caller's in.
LEMMA IndexBounds ==
    ASSUME NEW id \in IDs, NEW fs \in SUBSET Files, NEW f \in Files,
           NEW src \in [Files -> SUBSET IDs], NEW com \in [Files -> SUBSET IDs],
           NEW acc \in [Files -> Offer]
    PROVE  /\ RemoveCompletes(id, fs, src, com)[f] \subseteq com[f]
           /\ f \in fs => id \notin RemoveCompletes(id, fs, src, com)[f]
           /\ AddCompletes(id, acc, com)[f] \subseteq com[f] \cup {id}
           /\ acc[f] = "none" => AddCompletes(id, acc, com)[f] = com[f]
  BY DEF RemoveCompletes, AddCompletes

LEMMA NextOwners ==
    ASSUME ~Relogin PROVE OwnersInv /\ NoLoginRace /\ [Next]_vars => OwnersInv'
<1> SUFFICES ASSUME OwnersInv, NoLoginRace, [Next]_vars
             PROVE  AcceptedOffered' /\ Drained' /\ IndexOwned'
  BY NextIdentity DEF OwnersInv
<1> DEFINE Goal == AcceptedOffered /\ Drained /\ IndexOwned
<1> USE NoSessionAssumption
    DEF OwnersInv, IdentityInv, RegistryInv, TypeInv, AcceptedOffered, Drained,
        IndexOwned, Holds
<1>a. \A f \in Files : \A id \in completes[f] : id \in IDs /\ clients[id] \in Sessions
  BY DEF TypeOK
<1>0. ASSUME NEW s \in Sessions,
             \A t \in Sessions \ {s} : pc'[t] = pc[t],
             pc[s] # "revoke", pc'[s] \notin {"publish", "revoke", "delete"},
             UNCHANGED <<offered, accepted, previous, completes, clients>>
      PROVE  Goal'
  <2>1. AcceptedOffered'
    BY <1>0
  <2>2. Drained'
    BY <1>0
  <2>3. ASSUME NEW f \in Files, NEW id \in completes[f]
        PROVE  Holds(clients[id], f)'
    <3>1. clients[id] \in Sessions /\ Holds(clients[id], f)
      BY <1>a, <2>3
    <3>2. CASE clients[id] = s
      BY <1>0, <3>1, <3>2
    <3>3. CASE clients[id] # s
      <4>1. pc'[clients[id]] = pc[clients[id]]
        BY <1>0, <3>1, <3>3
      <4> QED BY <1>0, <3>1, <4>1
    <3> QED BY <3>2, <3>3
  <2>4. IndexOwned'
    BY <1>0, <1>a, <2>3
  <2> QED BY <2>1, <2>2, <2>4
<1>1. ASSUME NEW s \in Sessions, Accept(s) PROVE Goal'
  <2>1. \A id \in IDs : clients[id] # s
    BY <1>1 DEF Accept, EntriesServed, Served
  <2>2. \A f \in Files : \A id \in completes[f] : clients[id] \in Sessions \ {s}
    BY <2>1 DEF TypeOK
  <2> QED BY <1>1, <2>2 DEF Accept, TypeOK, registry, index, locals
<1>2. ASSUME NEW s \in Sessions, LoginCheck(s) PROVE Goal'
  <2>1. /\ pc[s] = "idle"
        /\ pc' = [pc EXCEPT ![s] = "register"] \/ pc' = [pc EXCEPT ![s] = "alloc"]
        /\ UNCHANGED <<offered, accepted, previous, completes, clients>>
    BY <1>2 DEF LoginCheck, registry, index, locals
  <2>2. (\A t \in Sessions \ {s} : pc'[t] = pc[t]) /\ pc'[s] \in {"register", "alloc"}
    BY <2>1 DEF TypeOK
  <2> QED BY <1>0, <2>1, <2>2
<1>3. ASSUME NEW s \in Sessions, LoginAllocate(s) PROVE Goal'
  BY <1>0, <1>3 DEF LoginAllocate, TypeOK, Steps, index, locals
<1>4. ASSUME NEW s \in Sessions, Register(s) PROVE Goal'
  <2>1. assignedID[s] \in IDs
    BY <1>4 DEF Register, TypeOK, HasID, AtWork
  <2>2. \A id \in IDs : clients[id] # s
    BY <1>4 DEF Register, EntriesServed, Served
  <2>3. \A id \in IDs : clients[id] \in Sessions => id # assignedID[s]
    BY <1>4 DEF Register, StillFree
  <2> QED BY <1>4, <1>a, <2>1, <2>2, <2>3 DEF Register, TypeOK, index, locals
<1>5. ASSUME NEW s \in Sessions, OfferFiles(s) PROVE Goal'
  BY <1>0, <1>5 DEF OfferFiles, TypeOK, Steps, registry, index
<1>6. ASSUME NEW s \in Sessions, OfferFind(s) PROVE Goal'
  <2>1. \E step \in {"idle", "lookup", "merge"} : pc' = [pc EXCEPT ![s] = step]
    BY <1>6 DEF OfferFind
  <2> QED BY <1>0, <1>6, <2>1 DEF OfferFind, TypeOK, Steps, registry, index
<1>9. ASSUME NEW s \in Sessions, Disconnect(s) PROVE Goal'
  <2>1. \E step \in {"gone", "lookup"} : pc' = [pc EXCEPT ![s] = step]
    BY <1>9 DEF Disconnect
  <2> QED BY <1>0, <1>9, <2>1 DEF Disconnect, TypeOK, Steps, registry, index, locals
<1>10. ASSUME NEW s \in Sessions, RemoveLookup(s) PROVE Goal'
  <2>1. clients[assignedID[s]] = s
    BY <1>10 DEF RemoveLookup, HasID, AtWork, InRegistry, Served
  <2>2. pc' = [pc EXCEPT ![s] = "drain"]
    BY <1>10, <2>1 DEF RemoveLookup
  <2> QED BY <1>0, <1>10, <2>2 DEF RemoveLookup, TypeOK, Steps, registry, index
<1>7. ASSUME NEW s \in Sessions, OfferMerge(s) PROVE Goal'
  <2>1. target[s] = s
    BY <1>7 DEF OfferMerge, OwnTarget
  <2>2. \A f \in Files : /\ accepted'[s][f] # "none" => offered'[s][f] # "none"
                         /\ offered[s][f] # "none" => offered'[s][f] # "none"
    BY <1>7, <2>1 DEF OfferMerge, TypeOK, Named
  <2>3. /\ pc' = [pc EXCEPT ![s] = "publish"]
        /\ \A t \in Sessions \ {s} : /\ offered'[t] = offered[t]
                                     /\ accepted'[t] = accepted[t]
                                     /\ previous'[t] = previous[t]
        /\ UNCHANGED <<completes, clients>>
    BY <1>7, <2>1 DEF OfferMerge, TypeOK, registry, index
  <2> QED BY <1>7, <2>2, <2>3 DEF OfferMerge, TypeOK
<1>8. ASSUME NEW s \in Sessions, OfferPublish(s) PROVE Goal'
  <2> DEFINE id == assignedID[s]
             com == RemoveCompletes(id, previous[s], byClient, completes)
  <2>1. id \in IDs /\ clients[id] = s
    BY <1>8 DEF OfferPublish, TypeOK, HasID, AtWork, InRegistry, Served
  <2>0. /\ previous[s] \in SUBSET Files /\ accepted[s] \in [Files -> Offer]
        /\ byClient \in [Files -> SUBSET IDs] /\ completes \in [Files -> SUBSET IDs]
        /\ completes' = AddCompletes(id, accepted[s], com)
    BY <1>8 DEF TypeOK, OfferPublish
  <2>2. com \in [Files -> SUBSET IDs]
    BY <2>0, <2>1, IndexTypes
  <2>9. \A f \in Files : com[f] \subseteq completes[f]
    BY <2>0, <2>1, IndexBounds
  <2>10. \A f \in Files : /\ completes'[f] \subseteq com[f] \cup {id}
                          /\ accepted[s][f] = "none" => completes'[f] = com[f]
    <3> HIDE DEF com
    <3>1. \A f \in Files : completes'[f] = IF accepted[s][f] # "none"
                                          THEN com[f] \cup {id} ELSE com[f]
      BY <2>0 DEF AddCompletes
    <3> QED BY <3>1
  <2>3. \A f \in Files : completes'[f] \subseteq completes[f] \cup {id}
    BY <2>9, <2>10
  <2>4. \A f \in Files : accepted[s][f] = "none" => completes'[f] \subseteq completes[f]
    BY <2>9, <2>10
  <2>5. \A f \in Files : accepted[s][f] # "none" => offered[s][f] # "none"
    BY <1>8 DEF OfferPublish
  <2> HIDE DEF com
  <2>6. /\ pc' = [pc EXCEPT ![s] = "idle"]
        /\ pc[s] = "publish"
        /\ \A t \in Sessions \ {s} : /\ accepted'[t] = accepted[t]
                                     /\ previous'[t] = previous[t]
        /\ UNCHANGED <<offered, clients>>
    BY <1>8 DEF OfferPublish, TypeOK, registry
  <2>7. AcceptedOffered' /\ Drained'
    BY <2>6 DEF TypeOK
  <2>8. ASSUME NEW f \in Files, NEW k \in completes'[f]
        PROVE  clients[k] # NoSession /\ Holds(clients[k], f)'
    <3>1. CASE k = id /\ accepted[s][f] # "none"
      BY <2>1, <2>5, <2>6, <3>1
    <3>2. CASE k \in completes[f]
      <4>1. clients[k] \in Sessions /\ Holds(clients[k], f)
        BY <1>a, <3>2
      <4>2. CASE clients[k] = s
        BY <2>6, <4>1, <4>2
      <4>3. CASE clients[k] # s
        <5>1. pc'[clients[k]] = pc[clients[k]] /\ previous'[clients[k]] = previous[clients[k]]
          BY <2>6, <4>1, <4>3 DEF TypeOK
        <5> QED BY <2>6, <4>1, <5>1
      <4> QED BY <4>2, <4>3
    <3> QED BY <2>3, <2>4, <2>8, <3>1, <3>2
  <2>11. IndexOwned'
    BY <2>6, <2>8
  <2> QED BY <2>7, <2>11
<1>11. ASSUME NEW s \in Sessions, RemoveDrain(s) PROVE Goal'
  <2>1. target[s] = s
    BY <1>11 DEF RemoveDrain, OwnTarget
  <2> QED
    BY <1>11, <2>1 DEF RemoveDrain, Named, NoFiles, TypeOK, registry, index
<1>12. ASSUME NEW s \in Sessions, RemoveRevoke(s) PROVE Goal'
  <2> DEFINE id == assignedID[s]
  <2>1. id \in IDs /\ clients[id] = s
    BY <1>12 DEF RemoveRevoke, TypeOK, HasID, AtWork, InRegistry, Served
  <2>2. \A f \in Files : /\ completes'[f] \subseteq completes[f]
                         /\ f \in previous[s] => id \notin completes'[f]
    <3>1. /\ previous[s] \in SUBSET Files
          /\ byClient \in [Files -> SUBSET IDs] /\ completes \in [Files -> SUBSET IDs]
          /\ completes' = RemoveCompletes(id, previous[s], byClient, completes)
      BY <1>12 DEF TypeOK, RemoveRevoke
    <3>2. NoFiles \in [Files -> Offer]
      BY DEF NoFiles, Offer
    <3> QED BY <2>1, <3>1, <3>2, IndexBounds
  <2>3. \A f \in Files : id \notin completes'[f]
    BY <1>12, <2>1, <2>2 DEF RemoveRevoke
  <2>4. /\ pc[s] = "revoke"
        /\ pc' = [pc EXCEPT ![s] = AfterRemove(s)]
        /\ AfterRemove(s) \in {"idle", "delete"}
        /\ \A t \in Sessions \ {s} : previous'[t] = previous[t]
        /\ UNCHANGED <<offered, accepted, clients>>
    BY <1>12 DEF RemoveRevoke, AfterRemove, TypeOK, registry
  <2>5. \A f \in Files : \A k \in completes'[f] : clients[k] \in Sessions \ {s}
    BY <2>2, <2>3 DEF TypeOK, EntriesServed
  <2> QED BY <2>2, <2>4, <2>5 DEF TypeOK
<1>13. ASSUME NEW s \in Sessions, Unregister(s) PROVE Goal'
  <2>1. assignedID[s] \in IDs /\ clients[assignedID[s]] = s
    BY <1>13 DEF Unregister, TypeOK, HasID, AtWork, InRegistry, Served
  <2>2. \A f \in Files : \A k \in completes[f] : k # assignedID[s] /\ clients[k] # s
    BY <1>13, <2>1 DEF Unregister, TypeOK, EntriesServed
  <2> QED BY <1>13, <2>1, <2>2 DEF Unregister, TypeOK, index, locals
<1>14. CASE UNCHANGED vars
  BY <1>14 DEF vars, registry, index, locals
<1> QED
  BY <1>1, <1>2, <1>3, <1>4, <1>5, <1>6, <1>7, <1>8, <1>9, <1>10, <1>11, <1>12,
     <1>13, <1>14 DEF Next, Handler, Handled, Remote

\* If logins do not race, clients leave nothing behind: whatever is in the runtime
\* index is offered by a connection that is still served, also when an ID is taken
\* again by the next client of an address or by the scan.
THEOREM OwnersStayConnected ==
    ASSUME ~Relogin PROVE Spec /\ []NoLoginRace => []OwnersConnected
<1>1. OwnersInv => OwnersConnected
  <2> SUFFICES ASSUME OwnersInv, NEW f \in Files, NEW id \in completes[f]
               PROVE  \E s \in Sessions : assignedID[s] = id /\ pc[s] # "gone"
    BY DEF OwnersConnected
  <2>1. id \in IDs /\ clients[id] \in Sessions
    BY DEF OwnersInv, IdentityInv, RegistryInv, TypeInv, TypeOK, IndexOwned
  <2>2. assignedID[clients[id]] = id /\ pc[clients[id]] # "gone"
    BY <2>1, NoSessionAssumption
       DEF OwnersInv, IdentityInv, RegistryInv, EntriesServed, Served
  <2> QED BY <2>1, <2>2
<1>2. Spec /\ []NoLoginRace => []OwnersInv
  BY InitOwners, NextOwners, PTL DEF Spec
<1> QED BY <1>1, <1>2, PTL

----------------------------------------------------------------------------
(* Offers are preserved.                                                   *)

\* What a session is about to withdraw no longer counts as published.
Withdrawn ==
    \A s \in Sessions :
        /\ (\/ assignedID[s] = 0
            \/ pc[s] \in {"gone", "lookup", "drain", "revoke", "delete"}
            \/ pc[s] = "find" /\ batch[s] = NoFiles) => published[s] = {}
        /\ pc[s] \in {"find", "merge"} => published[s] \cap Named(batch[s]) = {}
        /\ pc[s] = "publish" => published[s] \cap previous[s] = {}

PreservedInv == IdentityInv /\ Withdrawn /\ OffersPreserved

LEMMA InitPreserved == Init => PreservedInv
  BY InitIdentity DEF Init, PreservedInv, Withdrawn, OffersPreserved

\* Updates of the index on behalf of one ID leave the others' sources alone.
LEMMA SourcesKept ==
    ASSUME NEW id \in IDs, NEW fs \in SUBSET Files, NEW f \in Files,
           NEW src \in [Files -> SUBSET IDs], NEW acc \in [Files -> Offer],
           NEW k \in src[f]
    PROVE  /\ k # id \/ f \notin fs => k \in RemoveSources(id, fs, src)[f]
           /\ k \in AddSources(id, acc, src)[f]
  BY DEF RemoveSources, AddSources

LEMMA NextPreserved ==
    ASSUME ~Relogin PROVE PreservedInv /\ NoLoginRace /\ [Next]_vars => PreservedInv'
<1> SUFFICES ASSUME PreservedInv, NoLoginRace, [Next]_vars
             PROVE  Withdrawn' /\ OffersPreserved'
  BY NextIdentity DEF PreservedInv
<1> DEFINE Goal == Withdrawn /\ OffersPreserved
<1> USE DEF PreservedInv, IdentityInv, RegistryInv, TypeInv, Withdrawn, OffersPreserved
<1>1. ASSUME NEW s \in Sessions, Accept(s) PROVE Goal'
  BY <1>1 DEF Accept, TypeOK, registry, index, locals
<1>2. ASSUME NEW s \in Sessions, LoginCheck(s) PROVE Goal'
  <2>1. published[s] = {} /\ pc[s] = "idle"
    BY <1>2 DEF LoginCheck
  <2>2. /\ \E step \in {"register", "alloc"} : pc' = [pc EXCEPT ![s] = step]
        /\ \A t \in Sessions \ {s} : assignedID'[t] = assignedID[t]
        /\ UNCHANGED <<published, batch, previous, byClient>>
    BY <1>2 DEF LoginCheck, index, locals, TypeOK
  <2> QED BY <2>1, <2>2 DEF TypeOK
<1>3. ASSUME NEW s \in Sessions, LoginAllocate(s) PROVE Goal'
  <2>1. published[s] = {}
    BY <1>3 DEF LoginAllocate, NoIDYet
  <2>2. /\ pc' = [pc EXCEPT ![s] = "register"]
        /\ \A t \in Sessions \ {s} : assignedID'[t] = assignedID[t]
        /\ UNCHANGED <<published, batch, previous, byClient>>
    BY <1>3 DEF LoginAllocate, index, locals, TypeOK
  <2> QED BY <2>1, <2>2 DEF TypeOK
<1>4. ASSUME NEW s \in Sessions, Register(s) PROVE Goal'
  BY <1>4 DEF Register, TypeOK, index, locals
<1>5. ASSUME NEW s \in Sessions, OfferFiles(s) PROVE Goal'
  BY <1>5 DEF OfferFiles, TypeOK, index
<1>6. ASSUME NEW s \in Sessions, OfferFind(s) PROVE Goal'
  <2>1. /\ pc[s] = "find"
        /\ UNCHANGED <<assignedID, previous, published, byClient>>
    BY <1>6 DEF OfferFind, index
  <2>2. CASE /\ pc' = [pc EXCEPT ![s] = "idle"]
             /\ batch' = [batch EXCEPT ![s] = NoFiles]
    BY <2>1, <2>2 DEF TypeOK
  <2>3. CASE /\ batch[s] = NoFiles
             /\ pc' = [pc EXCEPT ![s] = "lookup"]
             /\ UNCHANGED batch
    BY <2>1, <2>3 DEF TypeOK
  <2>4. CASE /\ pc' = [pc EXCEPT ![s] = "merge"]
             /\ UNCHANGED batch
    BY <2>1, <2>4 DEF TypeOK
  <2> QED BY <1>6, <2>2, <2>3, <2>4 DEF OfferFind
<1>7. ASSUME NEW s \in Sessions, OfferMerge(s) PROVE Goal'
  <2>1. /\ pc[s] = "merge"
        /\ pc' = [pc EXCEPT ![s] = "publish"]
        /\ previous' = [previous EXCEPT ![s] = Replaced(Named(offered[target[s]]), batch[s])]
        /\ batch' = [batch EXCEPT ![s] = NoFiles]
        /\ UNCHANGED <<published, assignedID, byClient>>
    BY <1>7 DEF OfferMerge, index
  <2> QED BY <2>1 DEF Replaced, TypeOK
<1>8. ASSUME NEW s \in Sessions, OfferPublish(s) PROVE Goal'
  <2> DEFINE id == assignedID[s]
             src == RemoveSources(id, previous[s], byClient)
  <2>1. /\ id \in IDs /\ pc[s] = "publish"
        /\ \A t \in Sessions \ {s} : pc[t] # "gone" => assignedID[t] # id
    BY <1>8, IdentityUnique DEF OfferPublish, TypeOK, HasID, AtWork, UniqueIDs
  <2>2. /\ previous[s] \in SUBSET Files /\ accepted[s] \in [Files -> Offer]
        /\ byClient \in [Files -> SUBSET IDs]
        /\ byClient' = AddSources(id, accepted[s], src)
        /\ pc' = [pc EXCEPT ![s] = "idle"]
        /\ published' = [published EXCEPT ![s] =
              @ \cup {f \in Files : accepted[s][f] = "source"}]
        /\ previous' = [previous EXCEPT ![s] = {}]
        /\ UNCHANGED <<assignedID, batch>>
    BY <1>8 DEF OfferPublish, TypeOK
  <2>3. src \in [Files -> SUBSET IDs]
    BY <2>1, <2>2, IndexTypes
  <2>4. \A f \in Files : \A k \in byClient[f] : k # id \/ f \notin previous[s] => k \in src[f]
    BY <2>1, <2>2, SourcesKept
  <2> HIDE DEF src
  <2>5. \A f \in Files : \A k \in src[f] : k \in byClient'[f]
    BY <2>1, <2>2, <2>3 DEF AddSources
  <2>6. \A f \in Files : accepted[s][f] = "source" => id \in byClient'[f]
    BY <2>1, <2>2, <2>3 DEF AddSources
  <2>7. \A t \in Sessions \ {s} : \A f \in published[t] :
           f \in Files /\ assignedID[t] \in byClient'[f]
    BY <2>1, <2>4, <2>5 DEF TypeOK
  <2>8. \A f \in published[s] : f \in Files /\ id \in byClient'[f]
    BY <2>1, <2>4, <2>5 DEF TypeOK
  <2>9. OffersPreserved'
    BY <2>2, <2>6, <2>7, <2>8 DEF TypeOK
  <2>10. Withdrawn'
    BY <2>1, <2>2 DEF TypeOK, IDs
  <2> QED BY <2>9, <2>10
<1>9. ASSUME NEW s \in Sessions, Disconnect(s) PROVE Goal'
  <2>1. \E step \in {"gone", "lookup"} : pc' = [pc EXCEPT ![s] = step]
    BY <1>9 DEF Disconnect
  <2> QED BY <1>9, <2>1 DEF Disconnect, TypeOK, registry, index, locals
<1>10. ASSUME NEW s \in Sessions, RemoveLookup(s) PROVE Goal'
  <2>1. \E step \in {"idle", "delete", "drain"} : pc' = [pc EXCEPT ![s] = step]
    BY <1>10 DEF RemoveLookup, AfterRemove
  <2> QED BY <1>10, <2>1 DEF RemoveLookup, TypeOK, registry, index
<1>11. ASSUME NEW s \in Sessions, RemoveDrain(s) PROVE Goal'
  BY <1>11 DEF RemoveDrain, TypeOK, registry, index
<1>12. ASSUME NEW s \in Sessions, RemoveRevoke(s) PROVE Goal'
  <2> DEFINE id == assignedID[s]
  <2>1. /\ id \in IDs /\ published[s] = {}
        /\ \A t \in Sessions \ {s} : pc[t] # "gone" => assignedID[t] # id
    BY <1>12, IdentityUnique DEF RemoveRevoke, TypeOK, HasID, AtWork, UniqueIDs
  <2>2. /\ previous[s] \in SUBSET Files
        /\ byClient \in [Files -> SUBSET IDs]
        /\ byClient' = RemoveSources(id, previous[s], byClient)
        /\ \E step \in {"idle", "delete"} : pc' = [pc EXCEPT ![s] = step]
        /\ previous' = [previous EXCEPT ![s] = {}]
        /\ UNCHANGED <<assignedID, batch, published>>
    BY <1>12 DEF RemoveRevoke, AfterRemove, TypeOK
  <2>3. \A f \in Files : \A k \in byClient[f] : k # id => k \in byClient'[f]
    BY <2>1, <2>2 DEF RemoveSources
  <2> QED BY <2>1, <2>2, <2>3 DEF TypeOK
<1>13. ASSUME NEW s \in Sessions, Unregister(s) PROVE Goal'
  BY <1>13 DEF Unregister, TypeOK, index, locals
<1>14. CASE UNCHANGED vars
  BY <1>14 DEF vars, registry, index, locals
<1> QED
  BY <1>1, <1>2, <1>3, <1>4, <1>5, <1>6, <1>7, <1>8, <1>9, <1>10, <1>11, <1>12,
     <1>13, <1>14 DEF Next, Handler, Handled, Remote

\* The race of two logins is the only way to lose an offer to what others do:
\* without it a file accepted with a source stays in the index until its owner
\* clears or repeats it or goes away (mergeClientOfferedFiles,
\* removeClientOfferedFiles).
THEOREM OffersStayPreserved ==
    ASSUME ~Relogin PROVE Spec /\ []NoLoginRace => []OffersPreserved
<1>1. PreservedInv => OffersPreserved
  BY DEF PreservedInv
<1>2. Spec /\ []NoLoginRace => []PreservedInv
  BY InitPreserved, NextPreserved, PTL DEF Spec
<1> QED BY <1>1, <1>2, PTL

----------------------------------------------------------------------------
(* The index holds nothing else.                                           *)

\* A source of a file is among those it is counted for.
SourcesCounted == \A f \in Files : byClient[f] \subseteq completes[f]

\* What the index has of a session is published, or the handler at work has
\* still to replace or clear it.
Current ==
    \A s \in Sessions : \A f \in Files : assignedID[s] \in byClient[f] =>
        /\ pc[s] = "idle" => f \in published[s]
        /\ pc[s] = "find" =>
              f \in published[s] \/ batch[s] = NoFiles \/ f \in Named(batch[s])
        /\ pc[s] = "merge" => f \in published[s] \/ f \in Named(batch[s])
        /\ pc[s] = "publish" => f \in published[s] \/ f \in previous[s]

ExactInv == OwnersInv /\ SourcesCounted /\ Current

LEMMA InitExact == Init => ExactInv
  BY InitOwners DEF Init, ExactInv, SourcesCounted, Current

\* Updates of the index keep the sources among the counted ones.
LEMMA SourcesStayCounted ==
    ASSUME NEW id \in IDs, NEW fs \in SUBSET Files, NEW f \in Files,
           NEW src \in [Files -> SUBSET IDs], NEW com \in [Files -> SUBSET IDs],
           NEW acc \in [Files -> Offer], src[f] \subseteq com[f]
    PROVE  /\ RemoveSources(id, fs, src)[f] \subseteq RemoveCompletes(id, fs, src, com)[f]
           /\ AddSources(id, acc, src)[f] \subseteq AddCompletes(id, acc, com)[f]
  BY DEF RemoveSources, RemoveCompletes, AddSources, AddCompletes, Offer

\* Updates on behalf of one ID add sources only for it, and only where it offers
\* one or had one that was not to be removed.
LEMMA SourcesAdded ==
    ASSUME NEW id \in IDs, NEW fs \in SUBSET Files, NEW f \in Files,
           NEW src \in [Files -> SUBSET IDs], NEW acc \in [Files -> Offer]
    PROVE  /\ RemoveSources(id, fs, src)[f] \subseteq src[f]
           /\ f \in fs => id \notin RemoveSources(id, fs, src)[f]
           /\ AddSources(id, acc, src)[f] \subseteq src[f] \cup {id}
           /\ acc[f] # "source" => AddSources(id, acc, src)[f] = src[f]
  BY DEF RemoveSources, AddSources

LEMMA NextExact ==
    ASSUME ~Relogin PROVE ExactInv /\ NoLoginRace /\ [Next]_vars => ExactInv'
<1> SUFFICES ASSUME ExactInv, NoLoginRace, [Next]_vars
             PROVE  SourcesCounted' /\ Current'
  BY NextOwners DEF ExactInv
<1> DEFINE Goal == SourcesCounted /\ Current
<1> USE DEF ExactInv, OwnersInv, IdentityInv, RegistryInv, TypeInv
\* A session being served that is in the index is in the registry and holds the
\* file.
<1>a. ASSUME NEW s \in Sessions, NEW f \in Files, assignedID[s] \in byClient[f],
             pc[s] # "gone"
      PROVE  /\ assignedID[s] \in IDs /\ clients[assignedID[s]] = s
             /\ pc[s] \in Served /\ Holds(s, f)
  <2>1. assignedID[s] \in IDs /\ assignedID[s] \in completes[f]
    BY <1>a DEF SourcesCounted, TypeOK
  <2>2. clients[assignedID[s]] \in Sessions /\ Holds(clients[assignedID[s]], f)
    BY <2>1 DEF IndexOwned, TypeOK
  <2>3. /\ assignedID[clients[assignedID[s]]] = assignedID[s]
        /\ pc[clients[assignedID[s]]] \in Served
    BY <2>1, <2>2, NoSessionAssumption DEF EntriesServed
  <2>4. clients[assignedID[s]] = s
    BY <1>a, <2>1, <2>2, <2>3, IdentityUnique DEF UniqueIDs, Served, IDs
  <2> QED BY <2>1, <2>2, <2>3, <2>4
<1>1. ASSUME NEW s \in Sessions, Accept(s) PROVE Goal'
  <2>1. \A f \in Files : 0 \notin byClient[f]
    BY DEF TypeOK, IDs
  <2>2. /\ UNCHANGED <<byClient, completes, batch, previous, published>>
        /\ pc' = [pc EXCEPT ![s] = "idle"]
        /\ assignedID' = [assignedID EXCEPT ![s] = 0]
    BY <1>1 DEF Accept, index, locals
  <2> QED BY <2>1, <2>2 DEF TypeOK, SourcesCounted, Current
<1>2. ASSUME NEW s \in Sessions, LoginCheck(s) PROVE Goal'
  <2>1. /\ \E step \in {"register", "alloc"} : pc' = [pc EXCEPT ![s] = step]
        /\ \A t \in Sessions \ {s} : assignedID'[t] = assignedID[t]
        /\ UNCHANGED <<byClient, completes, batch, previous, published>>
    BY <1>2 DEF LoginCheck, index, locals, TypeOK
  <2> QED BY <2>1 DEF TypeOK, SourcesCounted, Current
<1>3. ASSUME NEW s \in Sessions, LoginAllocate(s) PROVE Goal'
  <2>1. /\ pc' = [pc EXCEPT ![s] = "register"]
        /\ \A t \in Sessions \ {s} : assignedID'[t] = assignedID[t]
        /\ UNCHANGED <<byClient, completes, batch, previous, published>>
    BY <1>3 DEF LoginAllocate, index, locals, TypeOK
  <2> QED BY <2>1 DEF TypeOK, SourcesCounted, Current
<1>4. ASSUME NEW s \in Sessions, Register(s) PROVE Goal'
  <2>1. \A f \in Files : assignedID[s] \notin byClient[f]
    BY <1>4, <1>a DEF Register, Served
  <2> QED BY <1>4, <2>1 DEF Register, TypeOK, index, locals, SourcesCounted, Current
<1>5. ASSUME NEW s \in Sessions, OfferFiles(s) PROVE Goal'
  BY <1>5 DEF OfferFiles, TypeOK, index, SourcesCounted, Current
<1>6. ASSUME NEW s \in Sessions, OfferFind(s) PROVE Goal'
  <2>1. clients[assignedID[s]] = s
    BY <1>6 DEF OfferFind, HasID, AtWork, InRegistry, Served
  <2>2. /\ \/ pc' = [pc EXCEPT ![s] = "lookup"]
           \/ batch[s] # NoFiles /\ pc' = [pc EXCEPT ![s] = "merge"]
        /\ pc[s] = "find"
        /\ UNCHANGED <<assignedID, byClient, completes, batch, previous, published>>
    BY <1>6, <2>1, NoSessionAssumption DEF OfferFind, index
  <2> QED BY <2>2 DEF TypeOK, SourcesCounted, Current
<1>7. ASSUME NEW s \in Sessions, OfferMerge(s) PROVE Goal'
  <2>1. /\ pc[s] = "merge" /\ target[s] = s
        /\ pc' = [pc EXCEPT ![s] = "publish"]
        /\ previous' = [previous EXCEPT ![s] = Named(offered[s]) \cap Named(batch[s])]
        /\ batch' = [batch EXCEPT ![s] = NoFiles]
        /\ UNCHANGED <<published, assignedID, byClient, completes>>
    BY <1>7 DEF OfferMerge, OwnTarget, Replaced, index
  <2>2. \A f \in Files : assignedID[s] \in byClient[f] => f \in Named(offered[s])
    BY <1>a, <2>1 DEF Holds, Named
  <2> QED BY <2>1, <2>2 DEF TypeOK, SourcesCounted, Current
<1>8. ASSUME NEW s \in Sessions, OfferPublish(s) PROVE Goal'
  <2> DEFINE id == assignedID[s]
             src == RemoveSources(id, previous[s], byClient)
             com == RemoveCompletes(id, previous[s], byClient, completes)
  <2>1. /\ id \in IDs /\ pc[s] = "publish"
        /\ \A t \in Sessions \ {s} : pc[t] # "gone" => assignedID[t] # id
    BY <1>8, IdentityUnique DEF OfferPublish, TypeOK, HasID, AtWork, UniqueIDs
  <2>2. /\ previous[s] \in SUBSET Files /\ accepted[s] \in [Files -> Offer]
        /\ byClient \in [Files -> SUBSET IDs] /\ completes \in [Files -> SUBSET IDs]
        /\ byClient' = AddSources(id, accepted[s], src)
        /\ completes' = AddCompletes(id, accepted[s], com)
        /\ pc' = [pc EXCEPT ![s] = "idle"]
        /\ published' = [published EXCEPT ![s] =
              @ \cup {f \in Files : accepted[s][f] = "source"}]
        /\ previous' = [previous EXCEPT ![s] = {}]
        /\ UNCHANGED <<assignedID, batch>>
    BY <1>8 DEF OfferPublish, TypeOK
  <2>3. src \in [Files -> SUBSET IDs] /\ com \in [Files -> SUBSET IDs]
    BY <2>1, <2>2, IndexTypes
  <2>4. \A f \in Files : /\ src[f] \subseteq com[f] /\ src[f] \subseteq byClient[f]
                         /\ f \in previous[s] => id \notin src[f]
    BY <2>1, <2>2, SourcesStayCounted, SourcesAdded DEF SourcesCounted
  <2> HIDE DEF src, com
  <2>5. SourcesCounted'
    BY <2>1, <2>2, <2>3, <2>4, SourcesStayCounted DEF SourcesCounted
  <2>6. \A f \in Files : /\ byClient'[f] \subseteq byClient[f] \cup {id}
                         /\ id \in byClient'[f] =>
                               \/ accepted[s][f] = "source"
                               \/ id \in byClient[f] /\ f \notin previous[s]
    <3>1. \A f \in Files :
             byClient'[f] = IF accepted[s][f] = "source" THEN src[f] \cup {id} ELSE src[f]
      BY <2>2 DEF AddSources
    <3> QED BY <2>4, <3>1
  <2>7. ASSUME NEW t \in Sessions, NEW f \in Files, assignedID[t] \in byClient'[f], t # s
        PROVE  pc[t] # "gone" => assignedID[t] \in byClient[f]
    BY <2>1, <2>6, <2>7
  <2>8. \A f \in Files : id \in byClient'[f] => f \in published'[s]
    BY <2>1, <2>2, <2>6 DEF Current, TypeOK
  <2>9. Current'
    BY <2>1, <2>2, <2>7, <2>8 DEF TypeOK, Current
  <2> QED BY <2>5, <2>9
<1>9. ASSUME NEW s \in Sessions, Disconnect(s) PROVE Goal'
  <2>1. /\ \E step \in {"gone", "lookup"} : pc' = [pc EXCEPT ![s] = step]
        /\ published' = [published EXCEPT ![s] = {}]
        /\ UNCHANGED <<assignedID, byClient, completes, batch, previous>>
    BY <1>9 DEF Disconnect, index, locals
  <2> QED BY <2>1 DEF TypeOK, SourcesCounted, Current
<1>10. ASSUME NEW s \in Sessions, RemoveLookup(s) PROVE Goal'
  <2>1. clients[assignedID[s]] = s
    BY <1>10 DEF RemoveLookup, HasID, AtWork, InRegistry, Served
  <2>2. /\ pc' = [pc EXCEPT ![s] = "drain"]
        /\ UNCHANGED <<assignedID, byClient, completes, batch, previous, published>>
    BY <1>10, <2>1, NoSessionAssumption DEF RemoveLookup, index
  <2> QED BY <2>2 DEF TypeOK, SourcesCounted, Current
<1>11. ASSUME NEW s \in Sessions, RemoveDrain(s) PROVE Goal'
  BY <1>11 DEF RemoveDrain, TypeOK, index, SourcesCounted, Current
<1>12. ASSUME NEW s \in Sessions, RemoveRevoke(s) PROVE Goal'
  <2> DEFINE id == assignedID[s]
  <2>1. /\ id \in IDs /\ pc[s] = "revoke"
        /\ \A t \in Sessions \ {s} : pc[t] # "gone" => assignedID[t] # id
    BY <1>12, IdentityUnique DEF RemoveRevoke, TypeOK, HasID, AtWork, UniqueIDs
  <2>2. /\ previous[s] \in SUBSET Files
        /\ byClient \in [Files -> SUBSET IDs] /\ completes \in [Files -> SUBSET IDs]
        /\ byClient' = RemoveSources(id, previous[s], byClient)
        /\ completes' = RemoveCompletes(id, previous[s], byClient, completes)
        /\ \E step \in {"idle", "delete"} : pc' = [pc EXCEPT ![s] = step]
        /\ previous' = [previous EXCEPT ![s] = {}]
        /\ UNCHANGED <<assignedID, batch, published>>
    BY <1>12 DEF RemoveRevoke, AfterRemove, TypeOK
  <2>3. NoFiles \in [Files -> Offer]
    BY DEF NoFiles, Offer
  <2>4. SourcesCounted'
    BY <2>1, <2>2, <2>3, SourcesStayCounted DEF SourcesCounted
  <2>5. \A f \in Files : /\ byClient'[f] \subseteq byClient[f]
                         /\ f \in previous[s] => id \notin byClient'[f]
    BY <2>1, <2>2, <2>3, SourcesAdded
  <2>6. \A f \in Files : id \notin byClient'[f]
    <3>1. \A f \in Files : id \in byClient[f] => f \in previous[s]
      BY <1>a, <2>1 DEF Holds, Drained
    <3> QED BY <2>5, <3>1
  <2>7. Current'
    BY <2>1, <2>2, <2>5, <2>6 DEF TypeOK, Current
  <2> QED BY <2>4, <2>7
<1>13. ASSUME NEW s \in Sessions, Unregister(s) PROVE Goal'
  BY <1>13 DEF Unregister, TypeOK, index, locals, SourcesCounted, Current
<1>14. CASE UNCHANGED vars
  BY <1>14 DEF vars, registry, index, locals, SourcesCounted, Current
<1> QED
  BY <1>1, <1>2, <1>3, <1>4, <1>5, <1>6, <1>7, <1>8, <1>9, <1>10, <1>11, <1>12,
     <1>13, <1>14 DEF Next, Handler, Handled, Remote

\* If logins do not race, the index has of a client, between two of its requests,
\* only what it has published: nothing that it replaced or cleared stays behind,
\* nor anything of a client that had its ID before (mergeClientOfferedFiles,
\* removeClientOfferedFiles).
THEOREM IndexStaysExact ==
    ASSUME ~Relogin PROVE Spec /\ []NoLoginRace => []IndexExact
<1>1. ExactInv => IndexExact
  BY DEF ExactInv, Current, IndexExact
<1>2. Spec /\ []NoLoginRace => []ExactInv
  BY InitExact, NextExact, PTL DEF Spec
<1> QED BY <1>1, <1>2, PTL
=============================================================================
