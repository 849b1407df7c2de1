---------------------------- MODULE SearchProofs ----------------------------
(***************************************************************************)
(* Theorems about the parts of Search: the catalog in memory and its index *)
(* (CatalogIndex), the pages of a search (Paging), source replies          *)
(* (Sources), the summaries of expressions and the parsers of requests     *)
(* (SearchTerms).  In Search every step of the catalog is a ChangeCatalog, *)
(* every step of a session's results one of PagingNext, and every step of  *)
(* a source reply one of SourcesNext.                                      *)
(*                                                                         *)
(* The recursive operators of SearchRequest and Search are given by their  *)
(* equations: a theorem about match, say, is about every function that     *)
(* satisfies the equation of Match for the expressions of a set.  Since    *)
(* the expressions have a height there is one such function only.          *)
(***************************************************************************)
EXTENDS CatalogIndex, SearchTerms, Sources, FiniteSetTheorems, SequenceTheorems,
        NaturalsInduction, WellFoundedInduction, TLAPS

----------------------------------------------------------------------------
(* The catalog.                                                            *)

\* What a store holds has each hash once.  ReplaceAll does not insist on it.
HashesOnce ==
    \A list \in Loads : \A i, j \in DOMAIN list :
        list[i].hash = list[j].hash => i = j

\* The records a catalog may hold.
Good == {Normalize(r) : r \in {s \in RawRecords \cup
            UNION {{list[i] : i \in DOMAIN list} : list \in Loads} : Valid(s)}}

\* A list with each hash once.
Once(fs) == \A i, j \in DOMAIN fs : fs[i].hash = fs[j].hash => i = j

\* The map has the records of the list and no other.
Agree(fs, map) ==
    /\ \A i \in DOMAIN fs : map[fs[i].hash] = fs[i]
    /\ \A h \in Hashes : map[h] # NoRecord => \E i \in DOMAIN fs : fs[i].hash = h

\* The inductive invariant.
CatalogInv ==
    /\ files \in Seq(Good)
    /\ byHash \in [Hashes -> Good \cup {NoRecord}]
    /\ Once(files)
    /\ Agree(files, byHash)
    /\ triIndex = BuildIndex(files)

\* A record that is taken has a hash, the one it came with.
LEMMA NormalizeKeepsHash ==
    ASSUME NEW r \in RawRecords \cup UNION {{list[i] : i \in DOMAIN list} : list \in Loads},
           Valid(r)
    PROVE  /\ Normalize(r) \in Good
           /\ Normalize(r).hash = r.hash
           /\ r.hash \in Hashes
  <1>1. "hash" \in DOMAIN r /\ r.hash \in Hashes \cup {ZeroHash}
    BY RecordAssumption
  <1>2. r.hash \in Hashes
    BY <1>1 DEF Valid
  <1>3. Normalize(r).hash = r.hash
    BY <1>1 DEF Normalize
  <1>4. Normalize(r) \in Good
    BY DEF Good
  <1> QED BY <1>2, <1>3, <1>4

LEMMA GoodRecords ==
    ASSUME NEW r \in Good
    PROVE  r.hash \in Hashes /\ r # NoRecord
  <1>1. PICK s \in RawRecords \cup UNION {{list[i] : i \in DOMAIN list} : list \in Loads} :
            Valid(s) /\ r = Normalize(s)
    BY DEF Good
  <1>2. r.hash \in Hashes
    BY <1>1, NormalizeKeepsHash
  <1>3. r # NoRecord
    BY <1>1, RecordAssumption
  <1> QED BY <1>2, <1>3

\* In a list with each hash once the first of a hash is the only one, and so is
\* the last.
LEMMA PositionIs ==
    ASSUME files \in Seq(Good), Once(files), NEW i \in DOMAIN files
    PROVE  Position(files[i].hash) = i
  <1>1. \A j \in 1..(i - 1) : files[j].hash # files[i].hash
    BY DEF Once
  <1>2. \A k \in DOMAIN files : files[k].hash = files[i].hash => k = i
    BY DEF Once
  <1> QED BY <1>1, <1>2 DEF Position

LEMMA LastOfIs ==
    ASSUME NEW fs \in Seq(Good), Once(fs), NEW i \in DOMAIN fs
    PROVE  LastOf(fs[i].hash, fs) = fs[i]
  <1>1. \A j \in DOMAIN fs : j > i => fs[j].hash # fs[i].hash
    BY DEF Once
  <1>2. \A k \in DOMAIN fs : fs[k].hash = fs[i].hash => k = i
    BY DEF Once
  <1>3. i = CHOOSE k \in DOMAIN fs :
              /\ fs[k].hash = fs[i].hash
              /\ \A j \in DOMAIN fs : j > k => fs[j].hash # fs[i].hash
    BY <1>1, <1>2
  <1> QED BY <1>3 DEF LastOf

\* Taking one record out of a list.
LEMMA WithoutIs ==
    ASSUME files \in Seq(Good), NEW p \in DOMAIN files
    PROVE  /\ Without(p) \in Seq(Good)
           /\ Len(Without(p)) = Len(files) - 1
           /\ \A k \in 1..(Len(files) - 1) :
                 Without(p)[k] = IF k < p THEN files[k] ELSE files[k + 1]
  <1> DEFINE n == Len(files)
             front == SubSeq(files, 1, p - 1)
             back == SubSeq(files, p + 1, n)
  <1>1. n \in Nat /\ p \in 1..n /\ \A k \in 1..n : files[k] \in Good
    OBVIOUS
  <1>2. /\ front \in Seq(Good) /\ Len(front) = p - 1
        /\ \A k \in 1..(p - 1) : front[k] = files[k]
    BY <1>1
  <1>3. /\ back \in Seq(Good) /\ Len(back) = n - p
        /\ \A k \in 1..(n - p) : back[k] = files[p + k]
    BY <1>1
  <1> HIDE DEF n, front, back
  <1>4. /\ front \o back \in Seq(Good)
        /\ Len(front \o back) = (p - 1) + (n - p)
        /\ \A k \in 1..(p - 1) + (n - p) :
              (front \o back)[k] = IF k <= p - 1 THEN front[k] ELSE back[k - (p - 1)]
    <2>1. /\ front \o back \in Seq(Good)
          /\ Len(front \o back) = Len(front) + Len(back)
          /\ \A k \in 1..Len(front) + Len(back) : (front \o back)[k] =
                IF k <= Len(front) THEN front[k] ELSE back[k - Len(front)]
      BY ONLY <1>2, <1>3, ConcatProperties, Zenon
    <2>2. Len(front) = p - 1 /\ Len(back) = n - p
      BY <1>2, <1>3
    <2> QED BY <2>1, <2>2, Zenon
  <1>5. /\ (p - 1) + (n - p) = n - 1
        /\ \A k \in 1..(n - 1) : k <= p - 1 <=> k < p
    BY <1>1
  <1>6. ASSUME NEW k \in 1..(n - 1)
        PROVE  (front \o back)[k] = IF k < p THEN files[k] ELSE files[k + 1]
    <2>1. CASE k < p
      <3>1. k \in 1..(p - 1)
        BY <2>1, <1>1
      <3> QED BY <2>1, <3>1, <1>2, <1>4, <1>5
    <2>2. CASE ~(k < p)
      <3>1. k - (p - 1) \in 1..(n - p) /\ p + (k - (p - 1)) = k + 1
        BY <2>2, <1>1
      <3>2. back[k - (p - 1)] = files[k + 1]
        BY <3>1, <1>3
      <3> QED BY <2>2, <3>2, <1>4, <1>5
    <2> QED BY <2>1, <2>2
  <1>7. Without(p) = front \o back
    BY DEF Without, front, back, n
  <1> QED BY <1>4, <1>5, <1>6, <1>7 DEF n

\* ReplaceAll on a store that holds each hash once.
LEMMA CatalogInit == ASSUME HashesOnce, InitCatalog PROVE CatalogInv
  <1>1. PICK list \in Loads :
            /\ \A i \in DOMAIN list : Valid(list[i])
            /\ files = [i \in DOMAIN list |-> Normalize(list[i])]
            /\ triIndex = BuildIndex([i \in DOMAIN list |-> Normalize(list[i])])
            /\ byHash = [h \in Hashes |->
                            LastOf(h, [i \in DOMAIN list |-> Normalize(list[i])])]
    BY DEF InitCatalog
  <1>2. triIndex = BuildIndex(files) /\ byHash = [h \in Hashes |-> LastOf(h, files)]
    BY <1>1
  <1>3. PICK n \in Nat : DOMAIN list = 1..n
    <2>1. list \in Seq(RawRecords \cup UNION {{l[i] : i \in DOMAIN l} : l \in Loads})
      BY RecordAssumption
    <2> QED BY <2>1
  <1>4. \A i \in DOMAIN list : files[i] \in Good /\ files[i].hash = list[i].hash
    BY <1>1, NormalizeKeepsHash
  <1>5. files \in Seq(Good) /\ DOMAIN files = DOMAIN list
    BY <1>1, <1>3, <1>4, IsASeq
  <1>6. Once(files)
    BY <1>4, <1>5 DEF HashesOnce, Once
  <1>7. \A i \in DOMAIN files : LastOf(files[i].hash, files) = files[i]
    BY <1>5, <1>6, LastOfIs
  <1>8. \A i \in DOMAIN files : files[i] \in Good /\ files[i].hash \in Hashes
    BY <1>4, <1>5, GoodRecords
  <1>9. \A h \in Hashes :
           \/ LastOf(h, files) = NoRecord
           \/ \E i \in DOMAIN files : files[i].hash = h /\ LastOf(h, files) = files[i]
    <2> SUFFICES ASSUME NEW h \in Hashes, LastOf(h, files) # NoRecord
                 PROVE  \E i \in DOMAIN files :
                            files[i].hash = h /\ LastOf(h, files) = files[i]
      OBVIOUS
    <2>1. \E i \in DOMAIN files : files[i].hash = h
      BY DEF LastOf
    <2> QED BY <2>1, <1>7
  <1>10. byHash \in [Hashes -> Good \cup {NoRecord}]
    BY <1>2, <1>8, <1>9
  <1>11. Agree(files, byHash)
    BY <1>2, <1>7, <1>8, <1>9 DEF Agree
  <1> QED BY <1>2, <1>5, <1>6, <1>10, <1>11 DEF CatalogInv

\* Upsert, of a record in its place or of a new one.
LEMMA UpsertKeeps ==
    ASSUME CatalogInv, NEW raw \in RawRecords, Upsert(raw)
    PROVE  CatalogInv'
  <1> DEFINE r == Normalize(raw)
             n == Len(files)
  <1>1. /\ files \in Seq(Good) /\ byHash \in [Hashes -> Good \cup {NoRecord}]
        /\ Once(files) /\ Agree(files, byHash)
    BY DEF CatalogInv
  <1>2. Valid(raw) /\ byHash' = [byHash EXCEPT ![r.hash] = r]
    BY DEF Upsert
  <1>3. r \in Good /\ r.hash \in Hashes /\ r # NoRecord
    BY <1>2, NormalizeKeepsHash, GoodRecords
  <1>4. \/ /\ byHash[r.hash] # NoRecord
           /\ SetFiles(IF \E i \in DOMAIN files : files[i].hash = r.hash
                       THEN [files EXCEPT ![Position(r.hash)] = r] ELSE files)
        \/ /\ byHash[r.hash] = NoRecord
           /\ SetFiles(Append(files, r))
    BY DEF Upsert
  <1> HIDE DEF r
  <1>5. triIndex' = BuildIndex(files')
    BY <1>4 DEF SetFiles
  <1>6. byHash' \in [Hashes -> Good \cup {NoRecord}]
    BY <1>1, <1>2, <1>3
  <1>7. n \in Nat /\ DOMAIN files = 1..n /\ \A i \in 1..n : files[i] \in Good /\ files[i].hash \in Hashes
    BY <1>1, GoodRecords
  <1>8. CASE byHash[r.hash] # NoRecord
    <2>1. PICK p \in DOMAIN files : files[p].hash = r.hash
      BY <1>1, <1>3, <1>8 DEF Agree
    <2>2. Position(r.hash) = p
      BY <1>1, <2>1, PositionIs
    <2>3. files' = [files EXCEPT ![p] = r]
      BY <1>4, <1>8, <2>1, <2>2 DEF SetFiles
    <2>4. /\ files' \in Seq(Good) /\ DOMAIN files' = DOMAIN files
          /\ files'[p] = r
          /\ \A i \in DOMAIN files : i # p => files'[i] = files[i] /\ files[i].hash # r.hash
          /\ \A i \in DOMAIN files : files'[i].hash = files[i].hash
      <3>1. files' \in Seq(Good) /\ DOMAIN files' = DOMAIN files
        BY <1>1, <1>3, <2>1, <2>3, ExceptSeq
      <3>2. files'[p] = r /\ \A i \in DOMAIN files : i # p => files'[i] = files[i]
        BY <2>1, <2>3, <1>1
      <3>3. \A i \in DOMAIN files : i # p => files[i].hash # r.hash
        BY <1>1, <2>1 DEF Once
      <3> QED BY <3>1, <3>2, <3>3, <2>1
    <2>5. Once(files')
      BY <1>1, <2>4 DEF Once
    <2>6. Agree(files', byHash')
      BY <1>1, <1>2, <1>3, <1>7, <2>1, <2>4, SMTT(30) DEF Agree
    <2> QED BY <1>5, <1>6, <2>4, <2>5, <2>6 DEF CatalogInv, Once, Agree
  <1>9. CASE byHash[r.hash] = NoRecord
    <2>1. files' = Append(files, r)
      BY <1>4, <1>9 DEF SetFiles
    <2>2. /\ files' \in Seq(Good) /\ DOMAIN files' = 1..(n + 1)
          /\ files'[n + 1] = r
          /\ \A i \in 1..n : files'[i] = files[i]
      BY <1>1, <1>3, <2>1
    <2>3. \A i \in 1..n : files[i].hash # r.hash
      BY <1>1, <1>7, <1>9, GoodRecords DEF Agree
    <2> HIDE DEF n
    <2>4. Once(files')
      BY <1>1, <1>7, <2>2, <2>3 DEF Once
    <2>5. \A i \in DOMAIN files' : byHash'[files'[i].hash] = files'[i]
      BY <1>1, <1>2, <1>3, <1>7, <2>2, <2>3 DEF Agree
    <2>6. \A h \in Hashes : byHash'[h] # NoRecord => \E i \in DOMAIN files' : files'[i].hash = h
      <3> SUFFICES ASSUME NEW h \in Hashes, byHash'[h] # NoRecord
                   PROVE  \E i \in DOMAIN files' : files'[i].hash = h
        OBVIOUS
      <3>1. CASE h = r.hash
        BY <3>1, <1>7, <2>2
      <3>2. CASE h # r.hash
        <4>1. \E i \in 1..n : files[i].hash = h
          BY <3>2, <1>1, <1>2, <1>7 DEF Agree
        <4> QED BY <4>1, <1>7, <2>2
      <3> QED BY <3>1, <3>2
    <2> QED BY <1>5, <1>6, <2>2, <2>4, <2>5, <2>6 DEF CatalogInv, Once, Agree
  <1> QED BY <1>8, <1>9

\* Delete: nothing of the hash is left in the list, since it was there once.
LEMMA DeleteKeeps ==
    ASSUME CatalogInv, NEW h \in Hashes, Delete(h)
    PROVE  CatalogInv'
  <1> DEFINE n == Len(files)
  <1>1. /\ files \in Seq(Good) /\ byHash \in [Hashes -> Good \cup {NoRecord}]
        /\ Once(files) /\ Agree(files, byHash)
    BY DEF CatalogInv
  <1>2. /\ byHash[h] # NoRecord /\ byHash' = [byHash EXCEPT ![h] = NoRecord]
        /\ SetFiles(IF \E i \in DOMAIN files : files[i].hash = h
                    THEN Without(Position(h)) ELSE files)
    BY DEF Delete
  <1>3. n \in Nat /\ DOMAIN files = 1..n /\ \A i \in 1..n : files[i] \in Good /\ files[i].hash \in Hashes
    BY <1>1, GoodRecords
  <1>4. PICK p \in 1..n : files[p].hash = h
    BY <1>1, <1>2, <1>3 DEF Agree
  <1>5. Position(h) = p
    BY <1>1, <1>3, <1>4, PositionIs
  <1>6. files' = Without(p) /\ triIndex' = BuildIndex(files')
    BY <1>2, <1>3, <1>4, <1>5 DEF SetFiles
  <1>7. /\ files' \in Seq(Good) /\ Len(files') = n - 1
        /\ \A k \in 1..(n - 1) : files'[k] = IF k < p THEN files[k] ELSE files[k + 1]
    BY <1>1, <1>3, <1>6, WithoutIs
  <1>8. DOMAIN files' = 1..(n - 1)
    BY <1>7
  <1> HIDE DEF n
  <1> DEFINE at(k) == IF k < p THEN k ELSE k + 1
  <1>9. /\ \A k \in 1..(n - 1) : at(k) \in 1..n /\ at(k) # p /\ files'[k] = files[at(k)]
        /\ \A j, k \in 1..(n - 1) : at(j) = at(k) => j = k
        /\ \A i \in 1..n : i # p => \E k \in 1..(n - 1) : at(k) = i
    <2>1. \A k \in 1..(n - 1) : at(k) \in 1..n /\ at(k) # p /\ files'[k] = files[at(k)]
      BY <1>3, <1>7
    <2>2. \A j, k \in 1..(n - 1) : at(j) = at(k) => j = k
      BY <1>3
    <2>3. ASSUME NEW i \in 1..n, i # p PROVE \E k \in 1..(n - 1) : at(k) = i
      <3>1. CASE i < p
        <4>1. i \in 1..(n - 1) /\ at(i) = i
          BY <3>1, <1>3
        <4> QED BY <4>1
      <3>2. CASE i > p
        <4>1. i - 1 \in 1..(n - 1) /\ at(i - 1) = i
          BY <3>2, <1>3
        <4> QED BY <4>1
      <3> QED BY <3>1, <3>2, <2>3, <1>3
    <2> QED BY <2>1, <2>2, <2>3
  <1> HIDE DEF at
  <1>10. \A i \in 1..n : i # p => files[i].hash # h
    BY <1>1, <1>3, <1>4 DEF Once
  <1>11. Once(files')
    BY <1>1, <1>3, <1>8, <1>9 DEF Once
  <1>12. \A k \in DOMAIN files' : byHash'[files'[k].hash] = files'[k]
    <2> SUFFICES ASSUME NEW k \in 1..(n - 1) PROVE byHash'[files'[k].hash] = files'[k]
      BY <1>8
    <2>1. at(k) \in 1..n /\ files'[k] = files[at(k)] /\ files[at(k)].hash # h
      BY <1>9, <1>10
    <2>2. files[at(k)].hash \in Hashes /\ byHash[files[at(k)].hash] = files[at(k)]
      BY <2>1, <1>1, <1>3 DEF Agree
    <2> QED BY <2>1, <2>2, <1>1, <1>2
  <1>13. \A g \in Hashes : byHash'[g] # NoRecord => \E k \in DOMAIN files' : files'[k].hash = g
    <2> SUFFICES ASSUME NEW g \in Hashes, byHash'[g] # NoRecord
                 PROVE  \E k \in 1..(n - 1) : files'[k].hash = g
      BY <1>8
    <2>1. g # h /\ byHash[g] # NoRecord
      BY <1>1, <1>2
    <2>2. PICK i \in 1..n : files[i].hash = g
      BY <2>1, <1>1, <1>3 DEF Agree
    <2>3. i # p
      BY <2>1, <2>2, <1>4
    <2> QED BY <2>2, <2>3, <1>9
  <1>14. byHash' \in [Hashes -> Good \cup {NoRecord}]
    BY <1>1, <1>2
  <1> QED BY <1>6, <1>7, <1>11, <1>12, <1>13, <1>14 DEF CatalogInv, Once, Agree

LEMMA CatalogStep == CatalogInv /\ [ChangeCatalog]_catalog => CatalogInv'
  <1> SUFFICES ASSUME CatalogInv, [ChangeCatalog]_catalog PROVE CatalogInv'
    OBVIOUS
  <1>1. ASSUME NEW r \in RawRecords, Upsert(r) PROVE CatalogInv'
    BY <1>1, UpsertKeeps
  <1>2. ASSUME NEW h \in Hashes, Delete(h) PROVE CatalogInv'
    BY <1>2, DeleteKeeps
  <1>3. CASE UNCHANGED catalog
    BY <1>3 DEF CatalogInv, Once, Agree, catalog
  <1> QED BY <1>1, <1>2, <1>3 DEF ChangeCatalog

\* The invariant says what the property says.
LEMMA CatalogInvCoherent == CatalogInv => CatalogCoherent
  <1> SUFFICES ASSUME CatalogInv PROVE CatalogCoherent
    OBVIOUS
  <1>1. ASSUME NEW h \in Hashes, byHash[h] # NoRecord
        PROVE  Cardinality({i \in DOMAIN files : files[i].hash = h}) = 1
    <2>1. PICK p \in DOMAIN files : files[p].hash = h
      BY <1>1 DEF CatalogInv, Agree
    <2>2. {i \in DOMAIN files : files[i].hash = h} = {p}
      BY <2>1 DEF CatalogInv, Once
    <2> QED BY <2>2, FS_Singleton
  <1> QED BY <1>1 DEF CatalogInv, Agree, CatalogCoherent

\* The list, the map and the index of the catalog agree after any sequence of
\* Upsert and Delete, for any records, as long as the store it was loaded from
\* holds each hash once (ReplaceAll).
THEOREM CatalogStaysCoherent == ASSUME HashesOnce PROVE CatalogSpec => []CatalogCoherent
  <1>1. InitCatalog => CatalogInv
    BY CatalogInit
  <1> QED BY <1>1, CatalogStep, CatalogInvCoherent, PTL DEF CatalogSpec

----------------------------------------------------------------------------
(* Pages.                                                                  *)

\* The inductive invariant: what was sent is the answer up to the offset.
PagingInv(Entries) ==
    /\ searchResult \in [Clients -> Seq(Entries)]
    /\ searchOffset \in [Clients -> Nat]
    /\ received \in [Clients -> Seq(Entries)]
    /\ more \in [Clients -> BOOLEAN]
    /\ \A c \in Clients :
          /\ searchOffset[c] <= Len(searchResult[c])
          /\ received[c] = SubSeq(searchResult[c], 1, searchOffset[c])
          /\ more[c] <=> searchOffset[c] < Len(searchResult[c])

\* One page: from what was sent up to the offset to what is sent up to its end.
LEMMA PageIsNext ==
    ASSUME NEW Entries, NEW c \in Clients, NEW results \in Seq(Entries),
           NEW offset \in Nat, offset <= Len(results),
           NEW before, before = SubSeq(results, 1, offset),
           searchOffset \in [Clients -> Nat], received \in [Clients -> Seq(Entries)],
           more \in [Clients -> BOOLEAN],
           SendPage(c, results, offset, before)
    PROVE  /\ searchOffset' \in [Clients -> Nat]
           /\ received' \in [Clients -> Seq(Entries)]
           /\ more' \in [Clients -> BOOLEAN]
           /\ searchOffset'[c] <= Len(results)
           /\ received'[c] = SubSeq(results, 1, searchOffset'[c])
           /\ more'[c] <=> searchOffset'[c] < Len(results)
           /\ \A d \in Clients \ {c} :
                 /\ searchOffset'[d] = searchOffset[d]
                 /\ received'[d] = received[d]
                 /\ more'[d] = more[d]
  <1> DEFINE end == IF offset >= Len(results) THEN offset ELSE PageEnd(results, offset)
  <1>1. end \in Nat /\ offset <= end /\ end <= Len(results)
    BY BatchAssumption DEF PageEnd
  <1>2. /\ searchOffset' = [searchOffset EXCEPT ![c] = end]
        /\ received' = [received EXCEPT ![c] = before \o SubSeq(results, offset + 1, end)]
        /\ more' = [more EXCEPT ![c] = end < Len(results)]
    BY DEF SendPage
  <1> HIDE DEF end
  <1>3. before \o SubSeq(results, offset + 1, end) = SubSeq(results, 1, end)
    <2>1. Len(results) \in Nat
      OBVIOUS
    <2>2. /\ 1 \in 1..Len(results) + 1
          /\ offset \in (1 - 1)..Len(results)
          /\ end \in offset..Len(results)
      BY <2>1, <1>1
    <2> QED BY <2>2, ConcatAdjacentSubSeq
  <1>4. SubSeq(results, 1, end) \in Seq(Entries)
    BY <1>1
  <1>5. received' = [received EXCEPT ![c] = SubSeq(results, 1, end)]
    BY <1>2, <1>3
  <1>6. (end < Len(results)) \in BOOLEAN
    OBVIOUS
  <1> QED BY <1>1, <1>2, <1>4, <1>5, <1>6

LEMMA PagingInit == ASSUME NEW Entries, InitPaging PROVE PagingInv(Entries)
  <1>1. <<>> \in Seq(Entries) /\ Len(<<>>) = 0 /\ SubSeq(<<>>, 1, 0) = <<>>
    BY SubSeqEmpty
  <1> QED BY <1>1 DEF InitPaging, PagingInv

LEMMA PagingStep ==
    ASSUME NEW Entries, PagingInv(Entries), [PagingNext(Entries)]_session
    PROVE  PagingInv(Entries)'
  <1> USE DEF PagingInv
  <1>1. ASSUME NEW c \in Clients, ForgetResults(c) PROVE PagingInv(Entries)'
    <2>1. <<>> \in Seq(Entries) /\ Len(<<>>) = 0 /\ SubSeq(<<>>, 1, 0) = <<>>
      BY SubSeqEmpty
    <2> QED BY <1>1, <2>1 DEF ForgetResults
  <1>2. ASSUME NEW c \in Clients, NextPage(c) PROVE PagingInv(Entries)'
    <2>1. SendPage(c, searchResult[c], searchOffset[c], received[c]) /\ UNCHANGED searchResult
      BY <1>2 DEF NextPage
    <2>2. /\ searchOffset' \in [Clients -> Nat]
          /\ received' \in [Clients -> Seq(Entries)]
          /\ more' \in [Clients -> BOOLEAN]
          /\ searchOffset'[c] <= Len(searchResult[c])
          /\ received'[c] = SubSeq(searchResult[c], 1, searchOffset'[c])
          /\ more'[c] <=> searchOffset'[c] < Len(searchResult[c])
          /\ \A d \in Clients \ {c} :
                /\ searchOffset'[d] = searchOffset[d]
                /\ received'[d] = received[d]
                /\ more'[d] = more[d]
      BY <2>1, PageIsNext
    <2> QED BY <2>1, <2>2
  <1>3. ASSUME NEW c \in Clients, NEW results \in Seq(Entries), FirstPage(c, results)
        PROVE  PagingInv(Entries)'
    <2>1. /\ SendPage(c, results, 0, <<>>)
          /\ searchResult' = [searchResult EXCEPT ![c] = results]
      BY <1>3 DEF FirstPage
    <2>2. <<>> = SubSeq(results, 1, 0) /\ 0 <= Len(results)
      BY SubSeqEmpty
    <2>3. /\ searchOffset' \in [Clients -> Nat]
          /\ received' \in [Clients -> Seq(Entries)]
          /\ more' \in [Clients -> BOOLEAN]
          /\ searchOffset'[c] <= Len(results)
          /\ received'[c] = SubSeq(results, 1, searchOffset'[c])
          /\ more'[c] <=> searchOffset'[c] < Len(results)
          /\ \A d \in Clients \ {c} :
                /\ searchOffset'[d] = searchOffset[d]
                /\ received'[d] = received[d]
                /\ more'[d] = more[d]
      BY <2>1, <2>2, PageIsNext
    <2>4. /\ searchResult' \in [Clients -> Seq(Entries)]
          /\ searchResult'[c] = results
          /\ \A d \in Clients \ {c} : searchResult'[d] = searchResult[d]
      BY <2>1
    <2> QED BY <2>3, <2>4
  <1>4. CASE UNCHANGED session
    BY <1>4 DEF session
  <1> QED BY <1>1, <1>2, <1>3, <1>4 DEF PagingNext

\* For any batch size, any answers and any number of clients: the pages sent since
\* a search are its answer so far, in order and without gap or repetition, and the
\* last one says whether there is more (handleSearch, handleSearchMore).
THEOREM PagesStayExact ==
    ASSUME NEW Entries
    PROVE  InitPaging /\ [][PagingNext(Entries)]_session => []PagesExact
  <1>1. InitPaging => PagingInv(Entries)
    BY PagingInit
  <1>2. PagingInv(Entries) /\ [PagingNext(Entries)]_session => PagingInv(Entries)'
    BY PagingStep
  <1>3. PagingInv(Entries) => PagesExact
    <2> SUFFICES ASSUME PagingInv(Entries), NEW c \in Clients
                 PROVE  /\ received[c] = SubSeq(searchResult[c], 1, Len(received[c]))
                        /\ more[c] <=> Len(received[c]) < Len(searchResult[c])
      BY DEF PagesExact
    <2>1. /\ searchResult[c] \in Seq(Entries) /\ searchOffset[c] \in Nat
          /\ searchOffset[c] <= Len(searchResult[c])
          /\ received[c] = SubSeq(searchResult[c], 1, searchOffset[c])
          /\ more[c] <=> searchOffset[c] < Len(searchResult[c])
      BY DEF PagingInv
    <2>2. Len(received[c]) = searchOffset[c]
      BY <2>1
    <2> QED BY <2>1, <2>2
  <1> QED BY <1>1, <1>2, <1>3, PTL

----------------------------------------------------------------------------
(* What a selection keeps.                                                *)

\* Every nonempty set of naturals has a least member.
LEMMA LeastNat ==
    ASSUME NEW T, T \subseteq Nat, T # {}
    PROVE  \E x \in T : \A y \in T : x <= y
  <1> DEFINE R == OpToRel(<, Nat)
  <1>1. IsWellFoundedOn(R, Nat)
    BY NatLessThanWellFounded, Zenon
  <1>2. \A x, y \in Nat : y < x => <<y, x>> \in R
    BY Zenon DEF OpToRel
  <1> HIDE DEF R
  <1>3. PICK x \in T : \A y \in T : ~ (<<y, x>> \in R)
    BY <1>1, WFMin
  <1>4. \A y \in T : ~(y < x)
    BY <1>2, <1>3
  <1>5. x \in Nat /\ \A y \in T : y \in Nat
    OBVIOUS
  <1>6. \A y \in T : x <= y
    BY ONLY <1>4, <1>5
  <1> QED BY <1>3, <1>6

\* The ranks of a finite set of positions are 1, 2, ... up to its size, and they
\* grow with the positions.
LEMMA RanksAre ==
    ASSUME NEW n \in Nat, NEW P, P \subseteq 1..n
    PROVE  /\ Cardinality(P) \in Nat
           /\ Cardinality(P) <= n
           /\ \A i \in P : Rank(P, i) \in 1..Cardinality(P)
           /\ \A i, j \in P : i < j => Rank(P, i) < Rank(P, j)
           /\ \A k \in 1..Cardinality(P) : \E i \in P : Rank(P, i) = k
  <1> DEFINE below(i) == {j \in P : j <= i}
  <1>1. IsFiniteSet(1..n) /\ Cardinality(1..n) = n
    BY FS_Interval
  <1>2. IsFiniteSet(P) /\ Cardinality(P) <= n
    BY <1>1, FS_Subset
  <1>3. PICK m \in Nat : m = Cardinality(P)
    BY <1>2, FS_CardinalityType
  <1>4. \A i \in P : i \in Nat
    OBVIOUS
  <1>5. ASSUME NEW i \in P
        PROVE  IsFiniteSet(below(i)) /\ Rank(P, i) \in 1..m
    <2>1. IsFiniteSet(below(i)) /\ Cardinality(below(i)) <= m
      BY <1>2, <1>3, FS_Subset
    <2>2. Cardinality(below(i)) \in Nat
      BY <2>1, FS_CardinalityType
    <2>3. i \in below(i)
      BY <1>4
    <2>4. Cardinality(below(i)) # 0
      BY <2>1, <2>3, FS_EmptySet
    <2>5. Rank(P, i) = Cardinality(below(i))
      BY DEF Rank
    <2> HIDE DEF below
    <2> QED BY <2>1, <2>2, <2>4, <2>5, <1>3
  <1>6. ASSUME NEW i \in P, NEW j \in P, i < j
        PROVE  Rank(P, i) < Rank(P, j)
    <2>1. below(i) \subseteq below(j) /\ j \in below(j) /\ j \notin below(i)
      BY ONLY <1>4, <1>6, i \in P, j \in P
    <2>2. IsFiniteSet(below(j))
      BY <1>5
    <2>3. /\ Cardinality(below(i)) <= Cardinality(below(j))
          /\ Cardinality(below(j)) = Cardinality(below(i)) => below(j) = below(i)
      BY <2>1, <2>2, FS_Subset
    <2>4. below(j) # below(i)
      BY <2>1
    <2>5. Rank(P, i) = Cardinality(below(i)) /\ Rank(P, j) = Cardinality(below(j))
      BY DEF Rank
    <2>6. Rank(P, i) \in Nat /\ Rank(P, j) \in Nat
      <3>1. Rank(P, i) \in 1..m /\ Rank(P, j) \in 1..m
        BY <1>5
      <3> QED BY ONLY <3>1, m \in Nat
    <2> HIDE DEF below
    <2> QED BY <2>3, <2>4, <2>5, <2>6
  <1> DEFINE rank == [i \in P |-> Rank(P, i)]
  <1>7. rank \in [P -> 1..m]
    BY <1>5
  <1>8. \A i, j \in P : rank[i] = rank[j] => i = j
    <2> SUFFICES ASSUME NEW i \in P, NEW j \in P, Rank(P, i) = Rank(P, j) PROVE i = j
      OBVIOUS
    <2>1. Rank(P, i) \in Nat /\ Rank(P, j) \in Nat
      <3>1. Rank(P, i) \in 1..m /\ Rank(P, j) \in 1..m
        BY <1>5
      <3> QED BY ONLY <3>1, m \in Nat
    <2>2. ~(i < j) /\ ~(j < i)
      BY <2>1, <1>6
    <2> QED BY <2>2, <1>4
  <1>9. rank \in Injection(P, 1..m)
    BY <1>7, <1>8 DEF Injection, IsInjective
  <1>10. IsFiniteSet(1..m) /\ Cardinality(1..m) = m
    BY FS_Interval
  <1>11. rank \in Surjection(P, 1..m)
    BY <1>3, <1>9, <1>10, FS_Injection
  <1>12. \A k \in 1..m : \E i \in P : Rank(P, i) = k
    BY <1>11 DEF Surjection
  <1> HIDE DEF below
  <1> QED BY <1>2, <1>3, <1>5, <1>6, <1>12

\* t is what s has at the positions in P, which at gives in order.
IsSelection(t, s, P, n, at) ==
    /\ at \in [1..n -> P]
    /\ \A j, k \in 1..n : j < k => at[j] < at[k]
    /\ \A i \in P : \E k \in 1..n : at[k] = i
    /\ t = [k \in 1..n |-> s[at[k]]]

LEMMA SelectedIs ==
    ASSUME NEW S, NEW s \in Seq(S), NEW P, P \subseteq DOMAIN s
    PROVE  /\ Selected(s, P) \in Seq(S)
           /\ \E n \in Nat, at \in Seq(P) : IsSelection(Selected(s, P), s, P, n, at)
  <1>1. PICK n \in Nat : n = Cardinality(P)
    <2>1. Len(s) \in Nat /\ P \subseteq 1..Len(s)
      OBVIOUS
    <2> QED BY <2>1, RanksAre
  <1>2. /\ \A i \in P : Rank(P, i) \in 1..n
        /\ \A i, j \in P : i < j => Rank(P, i) < Rank(P, j)
        /\ \A k \in 1..n : \E i \in P : Rank(P, i) = k
    <2>1. Len(s) \in Nat /\ P \subseteq 1..Len(s)
      OBVIOUS
    <2> QED BY ONLY <1>1, <2>1, RanksAre
  <1> DEFINE at == [k \in 1..n |-> CHOOSE i \in P : Rank(P, i) = k]
  <1>3. \A k \in 1..n : at[k] \in P /\ Rank(P, at[k]) = k
    BY <1>2
  <1>4. at \in [1..n -> P]
    BY <1>3
  <1>5. Selected(s, P) = [k \in 1..n |-> s[at[k]]]
    BY <1>1 DEF Selected
  <1> HIDE DEF at
  <1>6. P \subseteq Nat
    OBVIOUS
  <1>7. \A i, j \in P : Rank(P, i) = Rank(P, j) => i = j
    <2> SUFFICES ASSUME NEW i \in P, NEW j \in P, Rank(P, i) = Rank(P, j) PROVE i = j
      OBVIOUS
    <2>1. Rank(P, i) \in Nat /\ Rank(P, j) \in Nat
      BY <1>2
    <2> QED BY <2>1, <1>2, <1>6
  <1>8. \A i \in P : at[Rank(P, i)] = i
    BY <1>2, <1>3, <1>7
  <1>9. ASSUME NEW j \in 1..n, NEW k \in 1..n, j < k PROVE at[j] < at[k]
    <2>1. /\ at[j] \in P /\ at[k] \in P /\ at[j] \in Nat /\ at[k] \in Nat
          /\ Rank(P, at[j]) = j /\ Rank(P, at[k]) = k
      BY <1>3, <1>6
    <2>2. at[k] < at[j] => k < j
      BY <2>1, <1>2
    <2>3. at[k] # at[j]
      BY <2>1, <1>9
    <2> QED BY ONLY <2>1, <2>2, <2>3, <1>9, n \in Nat, j \in 1..n, k \in 1..n
  <1>10. \A k \in 1..n : s[at[k]] \in S
    BY <1>3
  <1>11. Selected(s, P) \in Seq(S)
    BY <1>5, <1>10
  <1>12. IsSelection(Selected(s, P), s, P, n, at)
    <2>1. \A i \in P : \E k \in 1..n : at[k] = i
      BY ONLY <1>2, <1>8
    <2> QED BY <1>4, <1>5, <1>9, <2>1 DEF IsSelection
  <1>13. at \in Seq(P)
    BY <1>4
  <1> QED BY <1>11, <1>12, <1>13

----------------------------------------------------------------------------
(* Source replies.                                                        *)

\* The elements of a selection.
LEMMA SelectedElements ==
    ASSUME NEW S, NEW s \in Seq(S), NEW P, P \subseteq DOMAIN s
    PROVE  Elements(Selected(s, P)) = {s[i] : i \in P}
  <1>1. PICK n \in Nat, at \in Seq(P) : IsSelection(Selected(s, P), s, P, n, at)
    BY SelectedIs
  <1>2. /\ DOMAIN Selected(s, P) = 1..n
        /\ \A k \in 1..n : at[k] \in P /\ Selected(s, P)[k] = s[at[k]]
        /\ \A i \in P : \E k \in 1..n : at[k] = i
    BY <1>1 DEF IsSelection
  <1>3. ASSUME NEW x \in Elements(Selected(s, P)) PROVE x \in {s[i] : i \in P}
    <2>1. PICK k \in 1..n : x = Selected(s, P)[k]
      BY <1>2 DEF Elements
    <2> QED BY <1>2, <2>1
  <1>4. ASSUME NEW i \in P PROVE s[i] \in Elements(Selected(s, P))
    <2>1. PICK k \in 1..n : at[k] = i
      BY <1>2
    <2>2. k \in DOMAIN Selected(s, P) /\ Selected(s, P)[k] = s[i]
      BY <1>2, <2>1
    <2> QED BY <2>2, Zenon DEF Elements
  <1> QED BY <1>3, <1>4

\* A list without repetitions.
NoRepeats(list) == \A i, j \in DOMAIN list : list[i] = list[j] => i = j

\* It has as many elements as it is long.
LEMMA NoRepeatsCount ==
    ASSUME NEW S, NEW s \in Seq(S), NoRepeats(s)
    PROVE  Cardinality(Elements(s)) = Len(s)
  <1>1. PICK n \in Nat : n = Len(s) /\ DOMAIN s = 1..n
    OBVIOUS
  <1>2. s \in [1..n -> Elements(s)]
    BY <1>1 DEF Elements
  <1>3. s \in Surjection(1..n, Elements(s))
    BY <1>1, <1>2 DEF Surjection, Elements
  <1>4. s \in Injection(1..n, Elements(s))
    BY <1>1, <1>2 DEF Injection, IsInjective, NoRepeats
  <1>5. IsFiniteSet(1..n) /\ Cardinality(1..n) = n
    BY FS_Interval
  <1>6. Cardinality(Elements(s)) = Cardinality(1..n)
    BY <1>3, <1>4, <1>5, FS_Surjection
  <1> QED BY <1>1, <1>5, <1>6

\* Two lists one after the other.
LEMMA ConcatElements ==
    ASSUME NEW S, NEW s \in Seq(S), NEW t \in Seq(S)
    PROVE  s \o t \in Seq(S) /\ Elements(s \o t) = Elements(s) \cup Elements(t)
  <1>1. PICK m \in Nat, n \in Nat :
            /\ m = Len(s) /\ n = Len(t)
            /\ DOMAIN s = 1..m /\ DOMAIN t = 1..n
    OBVIOUS
  <1>2. /\ s \o t \in Seq(S)
        /\ Len(s \o t) = Len(s) + Len(t)
        /\ \A k \in 1..(Len(s) + Len(t)) :
              (s \o t)[k] = IF k <= Len(s) THEN s[k] ELSE t[k - Len(s)]
    BY ONLY s \in Seq(S), t \in Seq(S), ConcatProperties
  <1>3. PICK u : u = s \o t
    OBVIOUS
  <1>4. /\ u \in Seq(S) /\ Len(u) = m + n /\ DOMAIN u = 1..(m + n)
        /\ \A k \in 1..(m + n) : u[k] = IF k <= m THEN s[k] ELSE t[k - m]
    BY ONLY <1>1, <1>2, <1>3
  <1>5. ASSUME NEW k \in 1..(m + n) PROVE u[k] \in Elements(s) \cup Elements(t)
    <2>1. CASE k <= m
      <3>1. k \in 1..m
        BY ONLY <2>1, k \in 1..(m + n), m \in Nat, n \in Nat
      <3> QED BY <2>1, <3>1, <1>1, <1>4 DEF Elements
    <2>2. CASE ~(k <= m)
      <3>1. k - m \in 1..n
        BY ONLY <2>2, k \in 1..(m + n), m \in Nat, n \in Nat
      <3> QED BY <2>2, <3>1, <1>1, <1>4 DEF Elements
    <2> QED BY <2>1, <2>2
  <1>6. ASSUME NEW k \in 1..m PROVE s[k] \in Elements(u)
    <2>1. k \in 1..(m + n) /\ k <= m
      BY ONLY k \in 1..m, m \in Nat, n \in Nat
    <2> QED BY <2>1, <1>4 DEF Elements
  <1>7. ASSUME NEW k \in 1..n PROVE t[k] \in Elements(u)
    <2>1. m + k \in 1..(m + n) /\ ~(m + k <= m) /\ (m + k) - m = k
      BY ONLY k \in 1..n, m \in Nat, n \in Nat
    <2> QED BY <2>1, <1>4 DEF Elements
  <1>8. Elements(u) = Elements(s) \cup Elements(t)
    BY <1>1, <1>4, <1>5, <1>6, <1>7 DEF Elements
  <1> QED BY <1>2, <1>3, <1>8

\* Distinct keeps one of each.
LEMMA DistinctIs ==
    ASSUME NEW S, NEW s \in Seq(S)
    PROVE  /\ Distinct(s) \in Seq(S)
           /\ NoRepeats(Distinct(s))
           /\ Elements(Distinct(s)) = Elements(s)
  <1> DEFINE P == {i \in DOMAIN s : \A j \in 1..(i - 1) : s[j] # s[i]}
  <1>1. P \subseteq DOMAIN s /\ DOMAIN s = 1..Len(s) /\ Len(s) \in Nat
    OBVIOUS
  <1>a. Distinct(s) = Selected(s, P)
    BY DEF Distinct
  <1> HIDE DEF P
  <1>b. PICK n \in Nat, at \in Seq(P) : IsSelection(Distinct(s), s, P, n, at)
    BY <1>1, <1>a, SelectedIs
  <1>2. /\ at \in [1..n -> P]
        /\ \A j, k \in 1..n : j < k => at[j] < at[k]
        /\ \A i \in P : \E k \in 1..n : at[k] = i
        /\ Distinct(s) = [k \in 1..n |-> s[at[k]]]
        /\ Distinct(s) \in Seq(S)
    BY <1>1, <1>a, <1>b, SelectedIs DEF IsSelection
  <1>3. DOMAIN Distinct(s) = 1..n /\ \A k \in 1..n : Distinct(s)[k] = s[at[k]]
    BY <1>2
  <1> USE DEF P
  <1>4. ASSUME NEW j \in 1..n, NEW k \in 1..n, j < k PROVE s[at[j]] # s[at[k]]
    <2>1. at[j] \in P /\ at[k] \in P /\ at[j] < at[k]
      BY <1>2, <1>4
    <2>2. at[j] \in 1..(at[k] - 1)
      BY <2>1, <1>1
    <2> QED BY <2>1, <2>2
  <1>5. NoRepeats(Distinct(s))
    <2>1. ASSUME NEW j \in 1..n, NEW k \in 1..n, s[at[j]] = s[at[k]] PROVE j = k
      <3>1. ~(j < k) /\ ~(k < j)
        BY <1>4, <2>1
      <3> QED BY ONLY <3>1, n \in Nat, j \in 1..n, k \in 1..n
    <2>2. PICK u : u = Distinct(s)
      OBVIOUS
    <2>3. DOMAIN u = 1..n /\ \A k \in 1..n : u[k] = s[at[k]]
      BY ONLY <1>3, <2>2
    <2>4. \A j, k \in 1..n : u[j] = u[k] => j = k
      BY ONLY <2>1, <2>3
    <2>5. NoRepeats(u)
      BY ONLY <2>3, <2>4, Zenon DEF NoRepeats
    <2> QED BY ONLY <2>2, <2>5
  <1>6. ASSUME NEW i \in DOMAIN s PROVE \E k \in 1..n : s[at[k]] = s[i]
    <2> DEFINE T == {j \in DOMAIN s : s[j] = s[i]}
    <2>1. T \subseteq Nat /\ i \in T
      BY <1>1
    <2>2. PICK f \in T : \A j \in T : f <= j
      BY <2>1, LeastNat
    <2>3. f \in DOMAIN s /\ s[f] = s[i]
      BY <2>2
    <2>4. ASSUME NEW j \in 1..(f - 1), s[j] = s[f] PROVE FALSE
      <3>1. j \in DOMAIN s /\ ~(f <= j)
        BY <1>1, <2>3
      <3>2. j \in T
        BY <2>3, <2>4, <3>1
      <3> QED BY <2>2, <3>1, <3>2
    <2>5. f \in P
      BY <2>3, <2>4
    <2> QED BY <1>2, <2>3, <2>5
  <1>7. Elements(Distinct(s)) = Elements(s)
    <2>1. \A k \in 1..n : at[k] \in DOMAIN s
      BY <1>1, <1>2
    <2> HIDE DEF P
    <2>2. ASSUME NEW k \in 1..n PROVE Distinct(s)[k] \in Elements(s)
      BY <1>3, <2>1 DEF Elements
    <2>3. ASSUME NEW i \in DOMAIN s PROVE s[i] \in Elements(Distinct(s))
      <3>1. PICK k \in 1..n : s[at[k]] = s[i]
        BY <1>6
      <3>2. k \in DOMAIN Distinct(s) /\ Distinct(s)[k] = s[i]
        BY <1>3, <3>1
      <3> QED BY <3>2, Zenon DEF Elements
    <2>4. Elements(Distinct(s)) \subseteq Elements(s)
      BY ONLY <1>3, <2>2 DEF Elements
    <2>5. Elements(s) \subseteq Elements(Distinct(s))
      BY ONLY <2>3, Zenon DEF Elements
    <2> QED BY <2>4, <2>5
  <1> QED BY <1>2, <1>5, <1>7

\* The order: the same elements, those with a high ID first.
LEMMA HighIDFirstIs ==
    ASSUME NEW S, NEW s \in Seq(S), NoRepeats(s)
    PROVE  /\ HighIDFirst(s) \in Seq(S)
           /\ NoRepeats(HighIDFirst(s))
           /\ Elements(HighIDFirst(s)) = Elements(s)
           /\ \E h \in Nat : \A i \in DOMAIN HighIDFirst(s) :
                 HighID(HighIDFirst(s)[i]) <=> i <= h
  <1> DEFINE high == {i \in DOMAIN s : HighID(s[i])}
             low == DOMAIN s \ high
  <1>1. /\ high \subseteq DOMAIN s /\ low \subseteq DOMAIN s
        /\ high \cup low = DOMAIN s
        /\ \A i \in high : HighID(s[i])
        /\ \A i \in low : ~HighID(s[i])
    OBVIOUS
  <1>2. HighIDFirst(s) = Selected(s, high) \o Selected(s, low)
    BY DEF HighIDFirst
  <1> HIDE DEF high, low
  <1>3a. PICK m \in Nat, at \in Seq(high) : IsSelection(Selected(s, high), s, high, m, at)
    BY <1>1, SelectedIs
  <1>3. /\ at \in [1..m -> high]
        /\ \A j, k \in 1..m : j < k => at[j] < at[k]
        /\ \A i \in high : \E k \in 1..m : at[k] = i
        /\ Selected(s, high) = [k \in 1..m |-> s[at[k]]]
        /\ DOMAIN Selected(s, high) = 1..m
        /\ \A k \in 1..m : Selected(s, high)[k] = s[at[k]]
    BY <1>3a DEF IsSelection
  <1>3b. Selected(s, high) \in Seq(S) /\ Len(Selected(s, high)) = m
    BY <1>1, <1>3, SelectedIs
  <1>4a. PICK n \in Nat, bt \in Seq(low) : IsSelection(Selected(s, low), s, low, n, bt)
    BY <1>1, SelectedIs
  <1>4. /\ bt \in [1..n -> low]
        /\ \A j, k \in 1..n : j < k => bt[j] < bt[k]
        /\ \A i \in low : \E k \in 1..n : bt[k] = i
        /\ Selected(s, low) = [k \in 1..n |-> s[bt[k]]]
        /\ DOMAIN Selected(s, low) = 1..n
        /\ \A k \in 1..n : Selected(s, low)[k] = s[bt[k]]
    BY <1>4a DEF IsSelection
  <1>4b. Selected(s, low) \in Seq(S) /\ Len(Selected(s, low)) = n
    BY <1>1, <1>4, SelectedIs
  <1>5. PICK best : best = HighIDFirst(s)
    OBVIOUS
  <1>6. /\ best \in Seq(S)
        /\ Elements(best) = Elements(Selected(s, high)) \cup Elements(Selected(s, low))
    BY ONLY <1>2, <1>3b, <1>4b, <1>5, ConcatElements
  <1>7. /\ Len(best) = m + n
        /\ \A k \in 1..(m + n) :
              best[k] = IF k <= m THEN Selected(s, high)[k] ELSE Selected(s, low)[k - m]
    <2>1. PICK hs, ls : hs = Selected(s, high) /\ ls = Selected(s, low)
      OBVIOUS
    <2>2. /\ hs \in Seq(S) /\ ls \in Seq(S) /\ Len(hs) = m /\ Len(ls) = n
          /\ best = hs \o ls
      BY ONLY <2>1, <1>2, <1>3b, <1>4b, <1>5
    <2>3. /\ Len(hs \o ls) = Len(hs) + Len(ls)
          /\ \A k \in 1..(Len(hs) + Len(ls)) :
                (hs \o ls)[k] = IF k <= Len(hs) THEN hs[k] ELSE ls[k - Len(hs)]
      BY ONLY <2>2, ConcatProperties
    <2> QED BY ONLY <2>1, <2>2, <2>3, Zenon
  <1>8. DOMAIN best = 1..(m + n)
    BY ONLY <1>6, <1>7, best \in Seq(S)
  <1> DEFINE pos(k) == IF k <= m THEN at[k] ELSE bt[k - m]
  <1>9. ASSUME NEW k \in 1..(m + n)
        PROVE  /\ pos(k) \in DOMAIN s
               /\ best[k] = s[pos(k)]
               /\ k <= m => k \in 1..m /\ pos(k) = at[k] /\ pos(k) \in high
               /\ ~(k <= m) => k - m \in 1..n /\ pos(k) = bt[k - m] /\ pos(k) \in low
    <2>1. CASE k <= m
      <3>1. k \in 1..m
        BY ONLY <2>1, k \in 1..(m + n), m \in Nat, n \in Nat
      <3>2. at[k] \in high /\ best[k] = s[at[k]]
        BY ONLY <2>1, <3>1, <1>3, <1>7, k \in 1..(m + n)
      <3> QED BY <2>1, <3>1, <3>2, <1>1
    <2>2. CASE ~(k <= m)
      <3>1. k - m \in 1..n
        BY ONLY <2>2, k \in 1..(m + n), m \in Nat, n \in Nat
      <3>2. bt[k - m] \in low /\ best[k] = s[bt[k - m]]
        BY ONLY <2>2, <3>1, <1>4, <1>7, k \in 1..(m + n)
      <3> QED BY <2>2, <3>1, <3>2, <1>1
    <2> QED BY <2>1, <2>2
  <1>10. /\ \A j, k \in 1..m : at[j] = at[k] => j = k
         /\ \A j, k \in 1..n : bt[j] = bt[k] => j = k
    <2>1. \A i \in DOMAIN s : i \in Nat
      OBVIOUS
    <2>2. \A k \in 1..m : at[k] \in Nat
      BY ONLY <2>1, <1>1, <1>3
    <2>3. \A k \in 1..n : bt[k] \in Nat
      BY ONLY <2>1, <1>1, <1>4
    <2>4. ASSUME NEW j \in 1..m, NEW k \in 1..m, at[j] = at[k] PROVE j = k
      <3>1. ~(j < k) /\ ~(k < j)
        BY <2>2, <2>4, <1>3
      <3> QED BY ONLY <3>1, m \in Nat, j \in 1..m, k \in 1..m
    <2>5. ASSUME NEW j \in 1..n, NEW k \in 1..n, bt[j] = bt[k] PROVE j = k
      <3>1. ~(j < k) /\ ~(k < j)
        BY <2>3, <2>5, <1>4
      <3> QED BY ONLY <3>1, n \in Nat, j \in 1..n, k \in 1..n
    <2> QED BY <2>4, <2>5
  <1> HIDE DEF pos
  <1>11. ASSUME NEW j \in 1..(m + n), NEW k \in 1..(m + n), pos(j) = pos(k) PROVE j = k
    <2>1. high \cap low = {}
      BY DEF low
    <2>2. CASE j <= m /\ k <= m
      <3>1. j \in 1..m /\ k \in 1..m /\ at[j] = at[k]
        BY ONLY <2>2, <1>9, <1>11, j \in 1..(m + n), k \in 1..(m + n)
      <3> QED BY ONLY <3>1, <1>10
    <2>3. CASE ~(j <= m) /\ ~(k <= m)
      <3>1. j - m \in 1..n /\ k - m \in 1..n /\ bt[j - m] = bt[k - m]
        BY ONLY <2>3, <1>9, <1>11, j \in 1..(m + n), k \in 1..(m + n)
      <3>2. j - m = k - m
        BY ONLY <3>1, <1>10
      <3> QED BY ONLY <3>2, j \in 1..(m + n), k \in 1..(m + n), m \in Nat, n \in Nat
    <2>4. (j <= m) <=> (k <= m)
      BY <2>1, <1>9, <1>11
    <2> QED BY <2>2, <2>3, <2>4
  <1>12. NoRepeats(best)
    <2> SUFFICES ASSUME NEW j \in 1..(m + n), NEW k \in 1..(m + n), best[j] = best[k]
                 PROVE  j = k
      BY <1>8 DEF NoRepeats
    <2>1. s[pos(j)] = s[pos(k)] /\ pos(j) \in DOMAIN s /\ pos(k) \in DOMAIN s
      BY <1>9
    <2>2. pos(j) = pos(k)
      BY <2>1 DEF NoRepeats
    <2> QED BY <2>2, <1>11
  <1>13. Elements(best) = Elements(s)
    <2>1. Elements(Selected(s, high)) = {s[i] : i \in high}
      BY <1>1, SelectedElements
    <2>2. Elements(Selected(s, low)) = {s[i] : i \in low}
      BY <1>1, SelectedElements
    <2> QED BY ONLY <1>1, <1>6, <2>1, <2>2 DEF Elements
  <1>14. \A i \in DOMAIN best : HighID(best[i]) <=> i <= m
    BY <1>1, <1>8, <1>9
  <1> QED BY <1>5, <1>6, <1>12, <1>13, <1>14

LEMMA LimitNat == Limit \in Nat
  BY SourceAssumption DEF Limit

\* What SourcesBest says of one client.
Best(r, K) ==
    /\ Elements(r) \subseteq K
    /\ Cardinality(Elements(r)) = Len(r)
    /\ Len(r) = IF Cardinality(K) > Limit THEN Limit ELSE Cardinality(K)
    /\ \A i \in DOMAIN r : ~HighID(r[i]) =>
          \A e \in K : HighID(e) => \E j \in 1..(i - 1) : r[j] = e

LEMMA SourcesBestIs == SourcesBest <=> \A c \in Clients : Best(reply[c], known[c])
  BY DEF SourcesBest, Best

\* The reply to a lookup.
LEMMA OrderAndCapIs ==
    ASSUME NEW S, NEW static \in Seq(S), NEW dynamic \in Seq(S),
           NEW r, r = OrderAndCap(static \o dynamic),
           NEW K, K = Elements(static) \cup Elements(dynamic)
    PROVE  Best(r, K)
  <1>1. PICK best : best = HighIDFirst(Distinct(static \o dynamic))
    OBVIOUS
  <1>2. static \o dynamic \in Seq(S) /\ Elements(static \o dynamic) = K
    BY ConcatElements
  <1>3. /\ best \in Seq(S) /\ NoRepeats(best) /\ Elements(best) = K
        /\ \E h \in Nat : \A i \in DOMAIN best : HighID(best[i]) <=> i <= h
    BY <1>1, <1>2, DistinctIs, HighIDFirstIs
  <1>4. PICK n \in Nat : n = Len(best) /\ DOMAIN best = 1..n
    BY <1>3
  <1>5. Cardinality(K) = n
    BY <1>3, <1>4, NoRepeatsCount
  <1>6. PICK m \in Nat : m = (IF n > Limit THEN Limit ELSE n) /\ m <= n
    BY LimitNat
  <1>7. r = SubSeq(best, 1, m)
    BY <1>1, <1>4, <1>6 DEF OrderAndCap, Cap
  <1>8. /\ r \in Seq(S) /\ Len(r) = m /\ DOMAIN r = 1..m
        /\ \A i \in 1..m : r[i] = best[i]
    BY ONLY <1>3, <1>4, <1>6, <1>7, m \in Nat, n \in Nat
  <1>9. \A i \in 1..m : i \in 1..n
    BY ONLY <1>6, m \in Nat, n \in Nat
  <1>10. Elements(r) \subseteq K
    BY ONLY <1>3, <1>4, <1>8, <1>9 DEF Elements
  <1>11. NoRepeats(r)
    BY ONLY <1>3, <1>4, <1>8, <1>9 DEF NoRepeats
  <1>12. Cardinality(Elements(r)) = Len(r)
    BY <1>8, <1>11, NoRepeatsCount
  <1>13. Len(r) = IF Cardinality(K) > Limit THEN Limit ELSE Cardinality(K)
    BY <1>5, <1>6, <1>8
  <1>14. PICK h \in Nat : \A i \in 1..n : HighID(best[i]) <=> i <= h
    BY <1>3, <1>4
  <1>15. ASSUME NEW i \in 1..m, ~HighID(r[i]), NEW e \in K, HighID(e)
         PROVE  \E j \in 1..(i - 1) : r[j] = e
    <2>1. PICK j \in 1..n : best[j] = e
      BY <1>3, <1>4 DEF Elements
    <2>2. j <= h /\ ~(i <= h)
      BY <1>8, <1>9, <1>14, <1>15, <2>1
    <2>3. j \in 1..(i - 1) /\ j \in 1..m
      BY ONLY <2>2, j \in 1..n, i \in 1..m, m \in Nat, n \in Nat, h \in Nat
    <2> QED BY <2>1, <2>3, <1>8
  <1> QED BY <1>8, <1>10, <1>12, <1>13, <1>15 DEF Best

\* The inductive invariant: one reply and one set of sources for each client.
SourcesInv ==
    /\ reply = [c \in Clients |-> reply[c]]
    /\ known = [c \in Clients |-> known[c]]
    /\ \A c \in Clients : Best(reply[c], known[c])

\* A client that was told nothing.
LEMMA NothingTold == Best(<<>>, {})
  <1>1. DOMAIN <<>> = {} /\ Len(<<>>) = 0
    OBVIOUS
  <1>2. Elements(<<>>) = {}
    BY <1>1 DEF Elements
  <1>3. Cardinality({}) = 0
    BY FS_EmptySet
  <1>4. 0 = IF 0 > Limit THEN Limit ELSE 0
    BY LimitNat
  <1> QED BY <1>1, <1>2, <1>3, <1>4 DEF Best

LEMMA SourcesInit == InitSources => SourcesInv
  BY NothingTold DEF InitSources, SourcesInv

\* One client is told something, the others nothing new.
LEMMA OneTold ==
    ASSUME SourcesInv, NEW c \in Clients, NEW r, NEW K, Best(r, K),
           reply' = [reply EXCEPT ![c] = r], known' = [known EXCEPT ![c] = K]
    PROVE  SourcesInv'
  <1>1. /\ reply' = [d \in Clients |-> reply'[d]] /\ known' = [d \in Clients |-> known'[d]]
        /\ reply'[c] = r /\ known'[c] = K
        /\ \A d \in Clients \ {c} : reply'[d] = reply[d] /\ known'[d] = known[d]
    BY DEF SourcesInv
  <1>2. \A d \in Clients : Best(reply'[d], known'[d])
    BY <1>1 DEF SourcesInv
  <1> QED BY <1>1, <1>2 DEF SourcesInv, Best, Limit

LEMMA SourcesStep ==
    ASSUME NEW S, SourcesInv, [SourcesNext(S)]_replies
    PROVE  SourcesInv'
  <1>1. ASSUME NEW c \in Clients, ForgetReply(c) PROVE SourcesInv'
    BY <1>1, NothingTold, OneTold DEF ForgetReply
  <1>2. ASSUME NEW c \in Clients, NEW static \in Seq(S), NEW dynamic \in Seq(S),
               AnswerSources(c, static, dynamic)
        PROVE  SourcesInv'
    <2>1. PICK r, K : /\ r = OrderAndCap(static \o dynamic)
                      /\ K = Elements(static) \cup Elements(dynamic)
      OBVIOUS
    <2>2. Best(r, K)
      BY <2>1, OrderAndCapIs
    <2>3. reply' = [reply EXCEPT ![c] = r] /\ known' = [known EXCEPT ![c] = K]
      BY <1>2, <2>1 DEF AnswerSources
    <2> QED BY <2>2, <2>3, OneTold
  <1>3. CASE UNCHANGED replies
    BY <1>3 DEF SourcesInv, replies
  <1> QED BY <1>1, <1>2, <1>3 DEF SourcesNext

\* For any sources, in whatever order the maps give them, and any configured
\* limit: a reply has each source once, as many as the limit allows, and no
\* client that can be connected to is left out for one that cannot or comes
\* behind it (handleGetSources, sourcesAll, orderAndCapSources).
THEOREM SourcesStayBest ==
    ASSUME NEW S
    PROVE  InitSources /\ [][SourcesNext(S)]_replies => []SourcesBest
  <1>1. SourcesInv /\ [SourcesNext(S)]_replies => SourcesInv'
    BY SourcesStep
  <1>2. SourcesInv => SourcesBest
    BY SourcesBestIs DEF SourcesInv
  <1> QED BY SourcesInit, <1>1, <1>2, PTL

----------------------------------------------------------------------------
(* Strings, and the index of their trigrams.                               *)

\* Every nonempty set of positions has a first one.
LEMMA FirstOf ==
    ASSUME NEW n \in Nat, NEW P, P \subseteq 1..n, P # {}
    PROVE  \E i \in P : \A j \in P : i <= j
  <1>1. P \subseteq Nat
    OBVIOUS
  <1> QED BY <1>1, LeastNat

\* And one with the largest number of those that f gives them, the first of them.
LEMMA LargestOf ==
    ASSUME NEW n \in Nat, NEW P, P \subseteq 1..n, P # {}, NEW f, \A i \in P : f[i] \in Nat
    PROVE  \E i \in P : /\ \A j \in P : f[j] <= f[i]
                        /\ \A j \in P : j < i => f[j] < f[i]
  <1> DEFINE Bound(k, b) == \A j \in P : j <= k => f[j] <= b
             Bounds(k) == {b \in Nat : Bound(k, b)}
             T == {k \in 0..n : Bounds(k) = {}}
  <1>1. P \subseteq Nat /\ T \subseteq Nat
    OBVIOUS
  <1>2. T = {}
    <2> SUFFICES ASSUME T # {} PROVE FALSE
      OBVIOUS
    <2>1. PICK k \in T : \A y \in T : k <= y
      BY <1>1, LeastNat
    <2>2. k \in 0..n /\ Bounds(k) = {}
      OBVIOUS
    <2>3. k # 0
      <3>1. Bound(0, 0)
        OBVIOUS
      <3> QED BY <2>2, <3>1
    <2>4. k - 1 \in 0..n /\ ~(k <= k - 1)
      BY <2>2, <2>3
    <2>5. PICK b \in Nat : Bound(k - 1, b)
      <3>1. k - 1 \notin T
        BY <2>1, <2>4
      <3>2. Bounds(k - 1) # {}
        BY <2>4, <3>1
      <3> QED BY <3>2
    <2>6. \A j \in P : j <= k => j = k \/ j <= k - 1
      BY ONLY <1>1, <2>2, n \in Nat
    <2>7. CASE k \in P
      <3>1. PICK c \in Nat : c = (IF f[k] > b THEN f[k] ELSE b) /\ f[k] <= c /\ b <= c
        BY <2>7
      <3>2. Bound(k, c)
        BY <2>5, <2>6, <3>1
      <3> QED BY <2>2, <3>2
    <2>8. CASE k \notin P
      <3>1. Bound(k, b)
        BY <2>5, <2>6, <2>8
      <3> QED BY <2>2, <3>1
    <2> QED BY <2>7, <2>8
  <1>3. PICK b \in Bounds(n) : \A c \in Bounds(n) : b <= c
    <2>1. Bounds(n) # {}
      <3>1. n \in 0..n
        OBVIOUS
      <3> QED BY <1>2, <3>1, Zenon
    <2>2. Bounds(n) \subseteq Nat
      OBVIOUS
    <2> HIDE DEF Bounds
    <2> QED BY <2>1, <2>2, LeastNat
  <1>4. b \in Nat /\ \A j \in P : f[j] <= b
    BY <1>3
  <1> DEFINE L == {i \in P : f[i] = b}
  <1>5. L # {}
    <2> SUFFICES ASSUME L = {} PROVE FALSE
      OBVIOUS
    <2>1. \A j \in P : f[j] < b
      BY <1>4
    <2>2. b > 0
      BY ONLY <1>4, <2>1, P # {}, \A i \in P : f[i] \in Nat
    <2>3. b - 1 \in Nat /\ ~(b <= b - 1) /\ \A j \in P : f[j] <= b - 1
      BY ONLY <1>4, <2>1, <2>2, \A i \in P : f[i] \in Nat
    <2>4. b - 1 \in Bounds(n)
      BY <2>3
    <2> QED BY <1>3, <2>3, <2>4
  <1>6. PICK i \in L : \A j \in L : i <= j
    <2>1. L \subseteq Nat
      BY <1>1
    <2> HIDE DEF L
    <2> QED BY <1>5, <2>1, LeastNat
  <1>7. ASSUME NEW j \in P, j < i PROVE f[j] < f[i]
    <2>1. j \notin L
      BY <1>1, <1>6, <1>7
    <2> QED BY <1>4, <2>1
  <1> QED BY <1>4, <1>6, <1>7

\* A string without the blanks around it begins and ends with something else.
LEMMA TrimmedIs ==
    ASSUME NEW S, NEW s \in Seq(S)
    PROVE  \/ TrimSpace(s) = <<>>
           \/ \E a, b \in 1..Len(s) : /\ a <= b /\ s[a] # Space /\ s[b] # Space
                                      /\ TrimSpace(s) = SubSeq(s, a, b)
  <1> DEFINE ink == {i \in DOMAIN s : s[i] # Space}
  <1>1. PICK n \in Nat : n = Len(s) /\ DOMAIN s = 1..n
    OBVIOUS
  <1>2. ink \subseteq 1..n
    BY <1>1
  <1>3. CASE ink = {}
    BY <1>3 DEF TrimSpace
  <1>4. CASE ink # {}
    <2>1. PICK a : a = CHOOSE i \in ink : \A j \in ink : i <= j
      OBVIOUS
    <2>2. PICK b : b = CHOOSE i \in ink : \A j \in ink : i >= j
      OBVIOUS
    <2>3. TrimSpace(s) = SubSeq(s, a, b)
      BY <1>4, <2>1, <2>2 DEF TrimSpace
    <2>4. \E i \in ink : \A j \in ink : i <= j
      <3> HIDE DEF ink
      <3> QED BY <1>2, <1>4, FirstOf
    <2>5. \E i \in ink : \A j \in ink : i >= j
      <3> HIDE DEF ink
      <3>1. PICK f : f = [i \in ink |-> i]
        OBVIOUS
      <3>2. \A i \in ink : f[i] = i /\ i \in Nat
        BY <1>2, <3>1
      <3>3. PICK i \in ink : \A j \in ink : f[j] <= f[i]
        <4>1. \A i \in ink : f[i] \in Nat
          BY <3>2
        <4> QED BY ONLY <1>2, <1>4, <4>1, LargestOf, n \in Nat
      <3> QED BY <3>2, <3>3
    <2>6. a \in ink /\ b \in ink /\ a <= b
      <3> HIDE DEF ink
      <3> QED BY <2>1, <2>2, <2>4, <2>5
    <2>7. a \in 1..n /\ b \in 1..n /\ s[a] # Space /\ s[b] # Space
      BY <1>2, <2>6
    <2> QED BY ONLY <1>1, <2>3, <2>6, <2>7
  <1> QED BY <1>3, <1>4

\* It has none left.
LEMMA TrimmedTwice ==
    ASSUME NEW S, NEW s \in Seq(S)
    PROVE  TrimSpace(TrimSpace(s)) = TrimSpace(s)
  <1>1. CASE TrimSpace(s) = <<>>
    <2>1. {i \in DOMAIN <<>> : <<>>[i] # Space} = {}
      OBVIOUS
    <2>2. TrimSpace(<<>>) = <<>>
      BY <2>1 DEF TrimSpace
    <2> QED BY <1>1, <2>2
  <1>2. ASSUME NEW a \in 1..Len(s), NEW b \in 1..Len(s),
               a <= b, s[a] # Space, s[b] # Space, TrimSpace(s) = SubSeq(s, a, b)
        PROVE  TrimSpace(TrimSpace(s)) = TrimSpace(s)
    <2>1. PICK n \in Nat : n = Len(s) /\ DOMAIN s = 1..n
      OBVIOUS
    <2>2. PICK m \in Nat : m = b - a + 1 /\ m >= 1
      BY ONLY <1>2, <2>1
    <2>3. PICK u : u = SubSeq(s, a, b)
      OBVIOUS
    <2>4. u \in Seq(S) /\ Len(u) = m /\ DOMAIN u = 1..m /\ \A i \in 1..m : u[i] = s[a + i - 1]
      <3>1. /\ SubSeq(s, a, b) \in Seq(S)
            /\ Len(SubSeq(s, a, b)) = b - a + 1
            /\ \A i \in 1..(b - a + 1) : SubSeq(s, a, b)[i] = s[a + i - 1]
        BY ONLY <1>2, <2>1, s \in Seq(S), n \in Nat
      <3> QED BY ONLY <3>1, <2>2, <2>3, m \in Nat
    <2>5. 1 \in 1..m /\ m \in 1..m /\ a + 1 - 1 = a /\ a + m - 1 = b
      BY ONLY <1>2, <2>1, <2>2, m \in Nat
    <2>6. u[1] # Space /\ u[m] # Space
      BY ONLY <1>2, <2>4, <2>5
    <2>7. PICK ink : ink = {i \in DOMAIN u : u[i] # Space}
      OBVIOUS
    <2>8. 1 \in ink /\ m \in ink /\ ink \subseteq 1..m
      BY ONLY <2>4, <2>5, <2>6, <2>7
    <2>9. (CHOOSE i \in ink : \A j \in ink : i <= j) = 1
      <3>1. \A j \in ink : 1 <= j
        BY ONLY <2>8, m \in Nat
      <3>2. ASSUME NEW i \in ink, \A j \in ink : i <= j PROVE i = 1
        BY ONLY <2>8, <3>2, i \in ink, m \in Nat
      <3> QED BY ONLY <2>8, <3>1, <3>2
    <2>10. (CHOOSE i \in ink : \A j \in ink : i >= j) = m
      <3>1. \A j \in ink : m >= j
        BY ONLY <2>8, m \in Nat
      <3>2. ASSUME NEW i \in ink, \A j \in ink : i >= j PROVE i = m
        BY ONLY <2>8, <3>2, i \in ink, m \in Nat
      <3> QED BY ONLY <2>8, <3>1, <3>2
    <2>11. TrimSpace(u) = SubSeq(u, 1, m)
      <3>1. ink # {}
        BY ONLY <2>8
      <3> QED BY ONLY <3>1, <2>7, <2>9, <2>10 DEF TrimSpace
    <2>12. SubSeq(u, 1, m) = u
      BY ONLY <2>4, m \in Nat
    <2> QED BY ONLY <1>2, <2>3, <2>11, <2>12
  <1> QED BY <1>1, <1>2, TrimmedIs

\* It is a string.
LEMMA TrimmedString ==
    ASSUME NEW S, NEW s \in Seq(S)
    PROVE  TrimSpace(s) \in Seq(S)
  <1>1. CASE TrimSpace(s) = <<>>
    BY <1>1
  <1>2. ASSUME NEW a \in 1..Len(s), NEW b \in 1..Len(s), a <= b, TrimSpace(s) = SubSeq(s, a, b)
        PROVE  TrimSpace(s) \in Seq(S)
    <2>1. SubSeq(s, a, b) \in Seq(S)
      BY ONLY <1>2, s \in Seq(S)
    <2> QED BY <1>2, <2>1
  <1> QED BY <1>1, <1>2, TrimmedIs

\* In lower case it is as long.
LEMMA LowerString ==
    ASSUME NEW S, NEW s \in Seq(S)
    PROVE  /\ ToLower(s) \in Seq(Elements(ToLower(s)))
           /\ Len(ToLower(s)) = Len(s)
  <1>1. PICK n \in Nat : n = Len(s) /\ DOMAIN s = 1..n
    OBVIOUS
  <1>2. PICK t : t = ToLower(s)
    OBVIOUS
  <1>3. t = [i \in 1..n |-> t[i]]
    BY <1>1, <1>2 DEF ToLower
  <1>4. \A i \in 1..n : t[i] \in Elements(t)
    BY <1>3 DEF Elements
  <1>5. t \in Seq(Elements(t))
    BY <1>3, <1>4, IsASeq
  <1>6. DOMAIN t = 1..n
    BY ONLY <1>3
  <1> QED BY ONLY <1>1, <1>2, <1>5, <1>6, n \in Nat

\* What occurs in a string has no trigram that the string has not.
LEMMA SubstringTrigrams ==
    ASSUME NEW S, NEW s \in Seq(S), NEW t \in Seq(S), HasSubstring(s, t)
    PROVE  Trigrams(t) \subseteq Trigrams(s)
  <1>1. PICK m \in Nat, n \in Nat : m = Len(s) /\ n = Len(t) /\ DOMAIN s = 1..m /\ DOMAIN t = 1..n
    OBVIOUS
  <1>2. PICK k \in 0..m : k + n <= m /\ \A j \in 1..n : s[k + j] = t[j]
    BY <1>1 DEF HasSubstring
  <1>3. ASSUME NEW i \in 1..n, i + 2 <= n PROVE SubSeq(t, i, i + 2) \in Trigrams(s)
    <2>1. k + i \in 1..m /\ (k + i) + 2 <= m
      BY ONLY <1>2, <1>3, m \in Nat, n \in Nat, k \in 0..m, i \in 1..n
    <2>2. PICK a : a = SubSeq(t, i, i + 2)
      OBVIOUS
    <2>3. PICK b : b = SubSeq(s, k + i, (k + i) + 2)
      OBVIOUS
    <2>4. a \in Seq(S) /\ Len(a) = 3 /\ \A j \in 1..3 : a[j] = t[i + j - 1]
      BY ONLY <1>1, <1>3, <2>2, m \in Nat, n \in Nat, i \in 1..n, t \in Seq(S)
    <2>5. b \in Seq(S) /\ Len(b) = 3 /\ \A j \in 1..3 : b[j] = s[(k + i) + j - 1]
      BY ONLY <1>1, <2>1, <2>3, m \in Nat, n \in Nat, k \in 0..m, i \in 1..n, s \in Seq(S)
    <2>6. \A j \in 1..3 : a[j] = b[j]
      <3> SUFFICES ASSUME NEW j \in 1..3 PROVE a[j] = b[j]
        OBVIOUS
      <3>1. i + j - 1 \in 1..n /\ (k + i) + j - 1 = k + (i + j - 1)
        BY ONLY <1>3, m \in Nat, n \in Nat, k \in 0..m, i \in 1..n, j \in 1..3
      <3> QED BY <3>1, <1>2, <2>4, <2>5
    <2>7. a = b
      BY ONLY <2>4, <2>5, <2>6, SeqEqual
    <2>8. SubSeq(s, k + i, (k + i) + 2) \in Trigrams(s)
      BY <1>1, <2>1 DEF Trigrams
    <2> QED BY <2>2, <2>3, <2>7, <2>8
  <1> QED BY <1>1, <1>3 DEF Trigrams

\* The inductive invariant: the index is the one of the list, whose records are
\* all taken ones.  Nothing is asked of the stores.
IndexInv == files \in Seq(Good) /\ triIndex = BuildIndex(files)

\* The name of a record that was taken is a string.
LEMMA GoodName ==
    ASSUME NEW r \in Good
    PROVE  r.name \in Seq(STRING)
  <1>1. PICK s \in RawRecords \cup UNION {{list[i] : i \in DOMAIN list} : list \in Loads} :
            Valid(s) /\ r = Normalize(s)
    BY DEF Good
  <1>2. "name" \in DOMAIN s /\ s.name \in Seq(STRING)
    BY RecordAssumption
  <1>3. r.name = TrimSpace(s.name)
    BY <1>1, <1>2 DEF Normalize
  <1> QED BY <1>2, <1>3, TrimmedString

\* The first record of a hash that is there.
LEMMA PositionFirst ==
    ASSUME files \in Seq(Good), NEW h, \E i \in DOMAIN files : files[i].hash = h
    PROVE  Position(h) \in DOMAIN files
  <1> DEFINE P == {i \in DOMAIN files : files[i].hash = h}
  <1>1. PICK n \in Nat : DOMAIN files = 1..n
    OBVIOUS
  <1>2. P \subseteq 1..n /\ P # {}
    BY <1>1
  <1>3. PICK i \in P : \A j \in P : i <= j
    <2> HIDE DEF P
    <2> QED BY ONLY <1>2, FirstOf, n \in Nat
  <1>4. i \in DOMAIN files /\ files[i].hash = h
    BY <1>3
  <1>5. ASSUME NEW j \in 1..(i - 1), files[j].hash = h PROVE FALSE
    <2>1. j \in DOMAIN files /\ ~(i <= j)
      BY <1>1, <1>4
    <2>2. j \in P
      BY <1>5, <2>1
    <2> QED BY <1>3, <2>1, <2>2
  <1> QED BY <1>4, <1>5 DEF Position

LEMMA IndexInit == InitCatalog => IndexInv
  <1> SUFFICES ASSUME InitCatalog PROVE IndexInv
    OBVIOUS
  <1>1. PICK list \in Loads :
            /\ \A i \in DOMAIN list : Valid(list[i])
            /\ files = [i \in DOMAIN list |-> Normalize(list[i])]
            /\ triIndex = BuildIndex([i \in DOMAIN list |-> Normalize(list[i])])
    BY DEF InitCatalog
  <1>2. PICK n \in Nat : DOMAIN list = 1..n
    <2>1. list \in Seq(RawRecords \cup UNION {{l[i] : i \in DOMAIN l} : l \in Loads})
      BY RecordAssumption
    <2> QED BY <2>1
  <1>3. \A i \in DOMAIN list : files[i] \in Good
    BY <1>1, NormalizeKeepsHash
  <1>4. files \in Seq(Good)
    BY <1>1, <1>2, <1>3, IsASeq
  <1> QED BY <1>1, <1>4 DEF IndexInv

LEMMA IndexStep == IndexInv /\ [ChangeCatalog]_catalog => IndexInv'
  <1> SUFFICES ASSUME IndexInv, [ChangeCatalog]_catalog PROVE IndexInv'
    OBVIOUS
  <1>1. files \in Seq(Good)
    BY DEF IndexInv
  <1>2. ASSUME NEW fs \in Seq(Good), SetFiles(fs) PROVE IndexInv'
    BY <1>2 DEF IndexInv, SetFiles
  <1>3. ASSUME NEW raw \in RawRecords, Upsert(raw) PROVE IndexInv'
    <2>1. PICK r : r = Normalize(raw)
      OBVIOUS
    <2>2. r \in Good
      BY <1>3, <2>1, NormalizeKeepsHash DEF Upsert
    <2>3. \/ SetFiles(IF \E i \in DOMAIN files : files[i].hash = r.hash
                      THEN [files EXCEPT ![Position(r.hash)] = r] ELSE files)
          \/ SetFiles(Append(files, r))
      BY <1>3, <2>1 DEF Upsert
    <2>4. Append(files, r) \in Seq(Good)
      BY <1>1, <2>2
    <2>5. (\E i \in DOMAIN files : files[i].hash = r.hash) =>
              [files EXCEPT ![Position(r.hash)] = r] \in Seq(Good)
      BY <1>1, <2>2, PositionFirst, ExceptSeq
    <2> QED BY <1>1, <1>2, <2>3, <2>4, <2>5
  <1>4. ASSUME NEW h \in Hashes, Delete(h) PROVE IndexInv'
    <2>1. SetFiles(IF \E i \in DOMAIN files : files[i].hash = h
                   THEN Without(Position(h)) ELSE files)
      BY <1>4 DEF Delete
    <2>2. (\E i \in DOMAIN files : files[i].hash = h) => Without(Position(h)) \in Seq(Good)
      BY <1>1, PositionFirst, WithoutIs
    <2> QED BY <1>1, <1>2, <2>1, <2>2
  <1>5. CASE UNCHANGED catalog
    BY <1>5 DEF IndexInv, catalog
  <1> QED BY <1>3, <1>4, <1>5 DEF ChangeCatalog

\* A file whose name has all the keywords of a search is one that it looks at.
IndexComplete ==
    \A summarized \in BOOLEAN, keywords \in Seq(Seq(STRING)) : \A i \in DOMAIN files :
        (\A k \in DOMAIN keywords : NameMatches(files[i], keywords[k])) =>
            i \in Candidates(summarized, keywords)

LEMMA IndexInvComplete == IndexInv => IndexComplete
  <1> SUFFICES ASSUME IndexInv, NEW summarized \in BOOLEAN, NEW keywords \in Seq(Seq(STRING)),
                      NEW i \in DOMAIN files,
                      \A k \in DOMAIN keywords : NameMatches(files[i], keywords[k])
               PROVE  i \in Candidates(summarized, keywords)
    BY DEF IndexComplete
  <1>1. PICK n \in Nat : DOMAIN keywords = 1..n
    OBVIOUS
  <1>2. PICK keys : keys = [k \in DOMAIN keywords |-> ToLower(TrimSpace(keywords[k]))]
    OBVIOUS
  <1>3. PICK long : long = {k \in DOMAIN keys : Len(keys[k]) >= 3}
    OBVIOUS
  <1>4. \A k \in 1..n : Len(keys[k]) \in Nat /\ keys[k] \in Seq(Elements(keys[k]))
    <2> SUFFICES ASSUME NEW k \in 1..n
                 PROVE  Len(keys[k]) \in Nat /\ keys[k] \in Seq(Elements(keys[k]))
      OBVIOUS
    <2>1. TrimSpace(keywords[k]) \in Seq(STRING)
      BY <1>1, TrimmedString
    <2>2. keys[k] = ToLower(TrimSpace(keywords[k]))
      BY <1>1, <1>2
    <2>3. keys[k] \in Seq(Elements(keys[k]))
      BY <2>1, <2>2, LowerString
    <2> QED BY ONLY <2>3
  <1>5. Candidates(summarized, keywords) =
            IF ~summarized \/ DOMAIN triIndex = {} \/ long = {} THEN DOMAIN files
            ELSE Intersection(Trigrams(Longest(keys, long)))
    BY <1>2, <1>3 DEF Candidates
  <1>6. ASSUME long # {} PROVE i \in Intersection(Trigrams(Longest(keys, long)))
    <2>1. long \subseteq 1..n
      BY <1>1, <1>2, <1>3
    <2>2. PICK m \in long : Longest(keys, long) = keys[m]
      <3>1. PICK f : f = [k \in long |-> Len(keys[k])]
        OBVIOUS
      <3>2. \A k \in long : f[k] = Len(keys[k]) /\ f[k] \in Nat
        BY <1>4, <2>1, <3>1
      <3>3. \E k \in long : /\ \A j \in long : f[j] <= f[k]
                            /\ \A j \in long : j < k => f[j] < f[k]
        BY ONLY <1>6, <2>1, <3>2, LargestOf, n \in Nat
      <3>4. \E k \in long : /\ \A j \in long : Len(keys[j]) <= Len(keys[k])
                            /\ \A j \in long : j < k => Len(keys[j]) < Len(keys[k])
        BY ONLY <3>2, <3>3
      <3> QED BY <3>4, Zenon DEF Longest
    <2>3. PICK name : name = ToLower(files[i].name)
      OBVIOUS
    <2>4. m \in DOMAIN keywords /\ keys[m] = ToLower(TrimSpace(keywords[m]))
      BY <1>1, <1>2, <2>1, <2>2
    <2>5. HasSubstring(name, keys[m])
      BY <2>3, <2>4 DEF NameMatches
    <2>6. name \in Seq(Elements(name))
      <3>1. files[i] \in Good
        BY DEF IndexInv
      <3> QED BY <2>3, <3>1, GoodName, LowerString
    <2>7. Trigrams(keys[m]) \subseteq Trigrams(name)
      <3>1. PICK S : S = Elements(name) \cup Elements(keys[m])
        OBVIOUS
      <3>2. keys[m] \in Seq(Elements(keys[m]))
        BY <1>4, <2>1, <2>2
      <3>3. name \in Seq(S)
        BY ONLY <2>6, <3>1
      <3>4. keys[m] \in Seq(S)
        <4>1. PICK key : key = keys[m]
          OBVIOUS
        <4>2. key \in Seq(S)
          BY ONLY <3>1, <3>2, <4>1
        <4> QED BY <4>1, <4>2
      <3> QED BY <2>5, <3>3, <3>4, SubstringTrigrams
    <2>8. ASSUME NEW g \in Trigrams(name) PROVE g \in DOMAIN triIndex /\ i \in triIndex[g]
      BY <2>3 DEF IndexInv, BuildIndex
    <2> QED BY <2>2, <2>7, <2>8 DEF Intersection
  <1> QED BY <1>5, <1>6

\* The index loses nothing: for any catalog, whether or not its store holds a
\* hash more than once, and after any sequence of changes, every file whose name
\* has all the keywords of a search is among those that the search looks at
\* (rebuildSearchIndexLocked, searchCandidatesLocked).
THEOREM IndexStaysComplete == CatalogSpec => []IndexComplete
  BY IndexInit, IndexStep, IndexInvComplete, PTL DEF CatalogSpec

----------------------------------------------------------------------------
(* Summaries.                                                              *)

\* The expressions of a set, with a height that bounds how deep they are.
AreExpressions(Exprs, height) ==
    /\ height \in [Exprs -> Nat]
    /\ \A e \in Exprs :
          \/ e.kind \in {"all", "none"}
          \/ e.kind = "keyword" /\ e.value \in Seq(STRING)
          \/ /\ e.kind = "string" /\ e.value \in Seq(STRING)
             /\ e.tag \in {"type", "format", "codec"}
          \/ /\ e.kind = "number" /\ Signed(e.number) \in Int
             /\ e.tag \in NumericTags("id") /\ e.op \in NumericOps
          \/ /\ e.kind = "bool"
             /\ e.left \in Exprs /\ height[e.left] < height[e]
             /\ e.right \in Exprs /\ height[e.right] < height[e]

\* The summaries.
Summaries ==
    [ok : BOOLEAN, keywords : Seq(Seq(STRING)),
     str : [{"type", "format", "codec"} -> Seq(STRING)],
     min : [NumericTags("id") -> Int], max : [NumericTags("id") -> Int]]

\* What a summary asks of a record by its keywords, and by its other fields.
KeywordsFit(r, q) == \A i \in DOMAIN q.keywords : KeywordMatches(r, q.keywords[i])
FieldsFit(r, q) ==
    /\ \A t \in {"type", "format", "codec"} : q.str[t] # <<>> => EqualFold(r.str[t], q.str[t])
    /\ \A t \in NumericTags("id") : q.min[t] > 0 => r.num[t] >= q.min[t]
    /\ \A t \in NumericTags("id") : q.max[t] > 0 => r.num[t] <= q.max[t]

\* A summary that collects a term of e holds what e asks of a record and what
\* was collected before.
Collects(r, matches, q, p) ==
    /\ p \in Summaries
    /\ p.ok /\ matches /\ KeywordsFit(r, q) => KeywordsFit(r, p)
    /\ p.ok /\ matches /\ FieldsFit(r, q) /\ (\A t \in NumericTags("id") : r.num[t] \in Int) =>
          FieldsFit(r, p)

\* p is q with the lower bounds lo and the upper bounds hi, of which that of tag
\* may be v if op allows it and the others are as before.
NewBounds(p, q, tag, op, v, lo, hi) ==
    /\ lo \in [NumericTags("id") -> Int] /\ hi \in [NumericTags("id") -> Int]
    /\ p = [q EXCEPT !.min = lo, !.max = hi]
    /\ \A t \in NumericTags("id") :
          lo[t] = q.min[t] \/ (t = tag /\ lo[t] = v /\ op \in {"=", ">", ">="})
    /\ \A t \in NumericTags("id") :
          hi[t] = q.max[t] \/ (t = tag /\ hi[t] = v /\ op \in {"=", "<", "<="})

\* A bound that a comparison gives holds of a record that satisfies it.
LEMMA BoundsFit ==
    ASSUME NEW q \in Summaries, NEW tag \in NumericTags("id"), NEW op, NEW v \in Int,
           NEW r, NEW p, NEW lo, NEW hi, NewBounds(p, q, tag, op, v, lo, hi)
    PROVE  /\ p \in Summaries
           /\ p.keywords = q.keywords
           /\ FieldsFit(r, q) /\ Compare(r.num[tag], op, v)
              /\ (\A t \in NumericTags("id") : r.num[t] \in Int) => FieldsFit(r, p)
  <1>1. p \in Summaries /\ p.keywords = q.keywords
    BY DEF Summaries, NewBounds
  <1>2. p.str = q.str /\ p.min = lo /\ p.max = hi
    BY DEF Summaries, NewBounds
  <1>3. ASSUME FieldsFit(r, q), Compare(r.num[tag], op, v),
               \A t \in NumericTags("id") : r.num[t] \in Int
        PROVE  FieldsFit(r, p)
    <2>1. /\ op \in {"=", ">", ">="} => r.num[tag] >= v
          /\ op \in {"=", "<", "<="} => r.num[tag] <= v
      <3>1. r.num[tag] \in Int
        BY <1>3
      <3>2. PICK x \in Int : x = r.num[tag]
        BY <3>1
      <3>3. Compare(x, op, v)
        BY <1>3, <3>2
      <3>4. /\ op \in {"=", ">", ">="} => x >= v
            /\ op \in {"=", "<", "<="} => x <= v
        <4>1. /\ op = "=" => x = v
              /\ op = ">" => x > v
              /\ op = ">=" => x >= v
              /\ op = "<" => x < v
              /\ op = "<=" => x <= v
          BY ONLY <3>3, Zenon DEF Compare
        <4> QED BY ONLY <4>1, x \in Int, v \in Int
      <3> QED BY <3>2, <3>4
    <2>2. \A t \in NumericTags("id") : lo[t] > 0 => r.num[t] >= lo[t]
      BY <1>3, <2>1 DEF FieldsFit, NewBounds
    <2>3. \A t \in NumericTags("id") : hi[t] > 0 => r.num[t] <= hi[t]
      BY <1>3, <2>1 DEF FieldsFit, NewBounds
    <2> QED BY <1>2, <1>3, <2>2, <2>3 DEF FieldsFit
  <1> QED BY <1>1, <1>3

LEMMA NumberSummarized ==
    ASSUME NEW q \in Summaries, NEW tag \in NumericTags("id"), NEW op, NEW v \in Int,
           NEW r, NEW p, p = SummarizeNumber(q, tag, op, v)
    PROVE  /\ p \in Summaries
           /\ p.keywords = q.keywords
           /\ FieldsFit(r, q) /\ Compare(r.num[tag], op, v)
              /\ (\A t \in NumericTags("id") : r.num[t] \in Int) => FieldsFit(r, p)
  <1>1. \/ p = q
        \/ op = "=" /\ p = [q EXCEPT !.min[tag] = v, !.max[tag] = v]
        \/ op \in {"=", ">", ">="} /\ p = [q EXCEPT !.min[tag] = v]
        \/ op \in {"<", "<="} /\ p = [q EXCEPT !.max[tag] = v]
    BY Zenon DEF SummarizeNumber
  <1>2. q.min \in [NumericTags("id") -> Int] /\ q.max \in [NumericTags("id") -> Int]
    BY DEF Summaries
  <1>3. PICK lo \in [NumericTags("id") -> Int] : lo = [q.min EXCEPT ![tag] = v]
    BY <1>2
  <1>4. PICK hi \in [NumericTags("id") -> Int] : hi = [q.max EXCEPT ![tag] = v]
    BY <1>2
  <1>5. /\ lo[tag] = v /\ \A t \in NumericTags("id") : t # tag => lo[t] = q.min[t]
        /\ hi[tag] = v /\ \A t \in NumericTags("id") : t # tag => hi[t] = q.max[t]
    BY <1>2, <1>3, <1>4
  <1>6. CASE p = q
    BY <1>6
  <1>7. CASE op = "=" /\ p = [q EXCEPT !.min[tag] = v, !.max[tag] = v]
    <2>1. p = [q EXCEPT !.min = lo, !.max = hi]
      BY <1>3, <1>4, <1>7 DEF Summaries
    <2>2. NewBounds(p, q, tag, op, v, lo, hi)
      BY <1>5, <1>7, <2>1 DEF NewBounds
    <2> QED BY <2>2, BoundsFit
  <1>8. CASE op \in {"=", ">", ">="} /\ p = [q EXCEPT !.min[tag] = v]
    <2>1. p = [q EXCEPT !.min = lo, !.max = q.max]
      BY <1>3, <1>8 DEF Summaries
    <2>2. NewBounds(p, q, tag, op, v, lo, q.max)
      BY <1>2, <1>5, <1>8, <2>1 DEF NewBounds
    <2> QED BY <2>2, BoundsFit
  <1>9. CASE op \in {"<", "<="} /\ p = [q EXCEPT !.max[tag] = v]
    <2>1. p = [q EXCEPT !.min = q.min, !.max = hi]
      BY <1>4, <1>9 DEF Summaries
    <2>2. NewBounds(p, q, tag, op, v, q.min, hi)
      BY <1>2, <1>5, <1>9, <2>1 DEF NewBounds
    <2> QED BY <2>2, BoundsFit
  <1> QED BY <1>1, <1>6, <1>7, <1>8, <1>9

\* A term.
LEMMA TermCollected ==
    ASSUME NEW Exprs, NEW height, AreExpressions(Exprs, height),
           NEW e \in Exprs, e.kind # "bool", NEW q \in Summaries, NEW r
    PROVE  Collects(r, TermMatches(e, r), q, TermSummary(e, q))
  <1>1. PICK p : p = TermSummary(e, q)
    OBVIOUS
  <1>2. CASE e.kind = "all"
    <2>1. p = [q EXCEPT !.ok = TRUE]
      BY <1>1, <1>2, Zenon DEF TermSummary
    <2> QED BY <1>1, <2>1 DEF Collects, Summaries, KeywordsFit, FieldsFit
  <1>3. CASE e.kind = "none"
    <2>1. p = [q EXCEPT !.ok = FALSE]
      BY <1>1, <1>3, Zenon DEF TermSummary
    <2> QED BY <1>1, <2>1 DEF Collects, Summaries
  <1>4. CASE e.kind = "keyword"
    <2>1. PICK ks : ks = Append(q.keywords, e.value)
      OBVIOUS
    <2>2. p = [q EXCEPT !.ok = TRUE, !.keywords = ks]
      <3>1. p = [q EXCEPT !.ok = TRUE, !.keywords = Append(@, e.value)]
        BY <1>1, <1>4, Zenon DEF TermSummary
      <3> QED BY <2>1, <3>1 DEF Summaries
    <2>3. TermMatches(e, r) <=> KeywordMatches(r, e.value)
      BY <1>4, Zenon DEF TermMatches
    <2>4. e.value \in Seq(STRING)
      BY <1>4 DEF AreExpressions
    <2>5. q.keywords \in Seq(Seq(STRING))
      BY DEF Summaries
    <2>6. PICK n \in Nat : n = Len(q.keywords) /\ DOMAIN q.keywords = 1..n
      BY <2>5
    <2>7. /\ ks \in Seq(Seq(STRING)) /\ DOMAIN ks = 1..(n + 1) /\ ks[n + 1] = e.value
          /\ \A i \in 1..n : ks[i] = q.keywords[i]
      BY ONLY <2>1, <2>4, <2>5, <2>6, n \in Nat
    <2>8. \A i \in 1..(n + 1) : i \in 1..n \/ i = n + 1
      BY ONLY n \in Nat
    <2>9. /\ p \in Summaries /\ p.keywords = ks
          /\ p.str = q.str /\ p.min = q.min /\ p.max = q.max
      BY <2>2, <2>7 DEF Summaries
    <2>10. TermMatches(e, r) /\ KeywordsFit(r, q) => KeywordsFit(r, p)
      BY ONLY <2>3, <2>6, <2>7, <2>8, <2>9 DEF KeywordsFit
    <2>11. FieldsFit(r, q) => FieldsFit(r, p)
      BY ONLY <2>9 DEF FieldsFit
    <2> QED BY ONLY <1>1, <2>9, <2>10, <2>11 DEF Collects
  <1>5. CASE e.kind = "string"
    <2>1. PICK v : v = IF e.tag = "format" THEN TrimPrefix(e.value, Dot) ELSE e.value
      OBVIOUS
    <2>2. e.value \in Seq(STRING) /\ e.tag \in {"type", "format", "codec"}
      BY <1>5 DEF AreExpressions
    <2>3. p = [q EXCEPT !.ok = TRUE, !.str[e.tag] = v]
      BY <1>1, <1>5, <2>1, Zenon DEF TermSummary
    <2>4. TermMatches(e, r) <=> EqualFold(r.str[e.tag], v)
      BY <1>5, <2>1, Zenon DEF TermMatches, StringMatches
    <2>5. v \in Seq(STRING)
      <3>1. TrimPrefix(e.value, Dot) \in Seq(STRING)
        <4>1. PICK s \in Seq(STRING) : s = e.value
          BY <2>2
        <4>2. Len(Dot) = 1
          BY DEF Dot
        <4>3. HasPrefix(s, Dot) => SubSeq(s, 2, Len(s)) \in Seq(STRING)
          BY <4>2 DEF HasPrefix
        <4>4. Len(Dot) + 1 = 2
          BY <4>2
        <4>5. TrimPrefix(s, Dot) = IF HasPrefix(s, Dot) THEN SubSeq(s, 2, Len(s)) ELSE s
          BY <4>4 DEF TrimPrefix
        <4> QED BY ONLY <4>1, <4>3, <4>5, s \in Seq(STRING)
      <3> QED BY <2>1, <2>2, <3>1
    <2>6. /\ p \in Summaries /\ p.keywords = q.keywords /\ p.min = q.min /\ p.max = q.max
          /\ p.str = [q.str EXCEPT ![e.tag] = v]
      BY <2>2, <2>3, <2>5 DEF Summaries
    <2>7. /\ p.str[e.tag] = v
          /\ \A t \in {"type", "format", "codec"} : t # e.tag => p.str[t] = q.str[t]
      BY <2>2, <2>6 DEF Summaries
    <2>8. KeywordsFit(r, q) => KeywordsFit(r, p)
      BY ONLY <2>6 DEF KeywordsFit
    <2>9. TermMatches(e, r) /\ FieldsFit(r, q) => FieldsFit(r, p)
      BY ONLY <2>4, <2>6, <2>7 DEF FieldsFit
    <2> QED BY ONLY <1>1, <2>6, <2>8, <2>9 DEF Collects
  <1>6. CASE e.kind = "number"
    <2>1. /\ Signed(e.number) \in Int
          /\ e.tag \in NumericTags("id") /\ e.op \in NumericOps
      BY <1>6 DEF AreExpressions
    <2>2. PICK v \in Int : v = Signed(e.number)
      BY <2>1
    <2>3. PICK s : s = SummarizeNumber(q, e.tag, e.op, v)
      OBVIOUS
    <2>4. p = [s EXCEPT !.ok = TRUE]
      BY <1>1, <1>6, <2>2, <2>3, Zenon DEF TermSummary
    <2>5. TermMatches(e, r) <=> Compare(r.num[e.tag], e.op, v)
      BY <1>6, <2>2, Zenon DEF TermMatches
    <2>6. /\ s \in Summaries
          /\ s.keywords = q.keywords
          /\ FieldsFit(r, q) /\ Compare(r.num[e.tag], e.op, v)
             /\ (\A t \in NumericTags("id") : r.num[t] \in Int) => FieldsFit(r, s)
      BY <2>1, <2>3, NumberSummarized
    <2>7. /\ p \in Summaries /\ p.keywords = s.keywords
          /\ p.str = s.str /\ p.min = s.min /\ p.max = s.max
      BY <2>4, <2>6 DEF Summaries
    <2>8. KeywordsFit(r, q) => KeywordsFit(r, p)
      BY ONLY <2>6, <2>7 DEF KeywordsFit
    <2>9. FieldsFit(r, s) => FieldsFit(r, p)
      BY ONLY <2>7 DEF FieldsFit
    <2> QED BY ONLY <1>1, <2>5, <2>6, <2>7, <2>8, <2>9 DEF Collects
  <1> QED BY <1>2, <1>3, <1>4, <1>5, <1>6 DEF AreExpressions

\* What fits a summary matches it, but for a format that is asked for with a dot.
LEMMA FitsSummary ==
    ASSUME NEW r, NEW q \in Summaries, KeywordsFit(r, q), FieldsFit(r, q)
    PROVE  MatchesSummary(r, AsCollected(q))
  <1>1. PICK f : f = IF HasPrefix(q.str["format"], Dot) THEN <<>> ELSE q.str["format"]
    OBVIOUS
  <1>2. PICK p : p = [q EXCEPT !.str["format"] = f]
    OBVIOUS
  <1>3. AsCollected(q) = p
    BY <1>1, <1>2 DEF AsCollected, Summaries
  <1>4. /\ p.str = [q.str EXCEPT !["format"] = f]
        /\ p.min = q.min /\ p.max = q.max /\ p.keywords = q.keywords
        /\ DOMAIN q.str = {"type", "format", "codec"}
        /\ DOMAIN q.min = NumericTags("id") /\ DOMAIN q.max = NumericTags("id")
    BY <1>2 DEF Summaries
  <1>5. /\ DOMAIN p.str = {"type", "format", "codec"} /\ p.str["format"] = f
        /\ p.str["type"] = q.str["type"] /\ p.str["codec"] = q.str["codec"]
    BY <1>4
  <1>6. ASSUME NEW t \in {"type", "format", "codec"}, p.str[t] # <<>>
        PROVE  EqualFold(r.str[t], IF t = "format" THEN TrimPrefix(p.str[t], Dot) ELSE p.str[t])
    <2>1. CASE t = "format"
      <3>1. f # <<>>
        BY <1>5, <1>6, <2>1
      <3>2. ~HasPrefix(q.str["format"], Dot) /\ f = q.str["format"]
        BY <1>1, <3>1
      <3>3. TrimPrefix(f, Dot) = f
        BY <3>2 DEF TrimPrefix
      <3>4. EqualFold(r.str["format"], f)
        BY <3>1, <3>2 DEF FieldsFit
      <3> QED BY <2>1, <3>3, <3>4, <1>5
    <2>2. CASE t # "format"
      <3>1. p.str[t] = q.str[t]
        BY <1>5, <1>6, <2>2
      <3> QED BY <1>6, <2>2, <3>1 DEF FieldsFit
    <2> QED BY <2>1, <2>2
  <1> QED BY <1>3, <1>4, <1>5, <1>6 DEF MatchesSummary, KeywordsFit, FieldsFit

\* The equation of Match, for the expressions of a set and the records of another.
IsMatch(Exprs, Records, match) ==
    \A e \in Exprs, r \in Records :
        match[e][r] = IF e.kind = "bool" THEN Combine(e.op, match[e.left][r], match[e.right][r])
                      ELSE TermMatches(e, r)

\* The equation of CollectSummary.
IsCollectSummary(Exprs, collect) ==
    \A e \in Exprs, q \in Summaries :
        collect[e][q] =
            IF e.kind # "bool" THEN TermSummary(e, q)
            ELSE IF ~Conjunction(e.op) THEN [q EXCEPT !.ok = FALSE]
            ELSE LET left == collect[e.left][q]
                     right == collect[e.right][left] IN
                 [right EXCEPT !.ok = left.ok /\ right.ok]

\* An expression, by induction on its height.
LEMMA ExpressionCollected ==
    ASSUME NEW Exprs, NEW height, AreExpressions(Exprs, height),
           NEW Records, NEW match, IsMatch(Exprs, Records, match),
           NEW collect, IsCollectSummary(Exprs, collect),
           NEW r \in Records
    PROVE  \A e \in Exprs, q \in Summaries : Collects(r, match[e][r], q, collect[e][q])
  <1> DEFINE Holds(e) == \A q \in Summaries : Collects(r, match[e][r], q, collect[e][q])
             T == {n \in Nat : \E e \in Exprs : height[e] = n /\ ~Holds(e)}
  <1>1. ASSUME NEW e \in Exprs, e.kind # "bool" PROVE Holds(e)
    <2>1. match[e][r] = TermMatches(e, r)
      BY <1>1 DEF IsMatch
    <2>2. ASSUME NEW q \in Summaries PROVE collect[e][q] = TermSummary(e, q)
      BY <1>1 DEF IsCollectSummary
    <2>3. ASSUME NEW q \in Summaries PROVE Collects(r, match[e][r], q, collect[e][q])
      BY <1>1, <2>1, <2>2, TermCollected
    <2> QED BY <2>3
  <1>2. ASSUME NEW e \in Exprs, e.kind = "bool", Holds(e.left), Holds(e.right)
        PROVE  Holds(e)
    <2> SUFFICES ASSUME NEW q \in Summaries PROVE Collects(r, match[e][r], q, collect[e][q])
      OBVIOUS
    <2>1. CASE ~Conjunction(e.op)
      <3>1. collect[e][q] = [q EXCEPT !.ok = FALSE]
        BY <1>2, <2>1 DEF IsCollectSummary
      <3>2. collect[e][q] \in Summaries /\ ~collect[e][q].ok
        BY <3>1 DEF Summaries
      <3> QED BY <3>2 DEF Collects
    <2>2. CASE Conjunction(e.op)
      <3>1. PICK left : left = collect[e.left][q]
        OBVIOUS
      <3>2. PICK right : right = collect[e.right][left]
        OBVIOUS
      <3>3. PICK p : p = [right EXCEPT !.ok = left.ok /\ right.ok]
        OBVIOUS
      <3>4. collect[e][q] = p
        BY <1>2, <2>2, <3>1, <3>2, <3>3 DEF IsCollectSummary
      <3>5. PICK a, b : a = match[e.left][r] /\ b = match[e.right][r]
        OBVIOUS
      <3>6. match[e][r] = (a /\ b)
        <4>1. match[e][r] = Combine(e.op, a, b)
          BY <1>2, <3>5 DEF IsMatch
        <4>2. e.op = "and"
          BY <2>2 DEF Conjunction
        <4> QED BY <4>1, <4>2, Zenon DEF Combine
      <3>7. Collects(r, a, q, left)
        BY <1>2, <3>1, <3>5
      <3>8. left \in Summaries
        BY <3>7 DEF Collects
      <3>9. Collects(r, b, left, right)
        BY <1>2, <3>2, <3>5, <3>8
      <3>10. right \in Summaries /\ left.ok \in BOOLEAN /\ right.ok \in BOOLEAN
        BY <3>8, <3>9 DEF Collects, Summaries
      <3>11. /\ p \in Summaries /\ p.keywords = right.keywords
             /\ p.str = right.str /\ p.min = right.min /\ p.max = right.max
             /\ p.ok = (left.ok /\ right.ok)
        BY <3>3, <3>10 DEF Summaries
      <3>12. KeywordsFit(r, right) => KeywordsFit(r, p)
        BY ONLY <3>11 DEF KeywordsFit
      <3>13. FieldsFit(r, right) => FieldsFit(r, p)
        BY ONLY <3>11 DEF FieldsFit
      <3>14. Collects(r, a /\ b, q, p)
        BY ONLY <3>7, <3>9, <3>11, <3>12, <3>13 DEF Collects
      <3> QED BY <3>4, <3>6, <3>14
    <2> QED BY <2>1, <2>2
  <1> HIDE DEF Holds
  <1>3. height \in [Exprs -> Nat]
    BY DEF AreExpressions
  <1>4. T = {}
    <2> SUFFICES ASSUME T # {} PROVE FALSE
      OBVIOUS
    <2>1. T \subseteq Nat
      OBVIOUS
    <2>2. PICK n \in T : \A m \in T : n <= m
      <3> HIDE DEF T
      <3> QED BY <2>1, LeastNat
    <2>3. PICK e \in Exprs : height[e] = n /\ ~Holds(e)
      BY <2>2
    <2>4. e.kind = "bool"
      BY <1>1, <2>3
    <2>5. /\ e.left \in Exprs /\ height[e.left] < height[e]
          /\ e.right \in Exprs /\ height[e.right] < height[e]
      BY <2>4 DEF AreExpressions
    <2>6. ASSUME NEW d \in Exprs, height[d] < height[e] PROVE Holds(d)
      <3>1. height[d] \in Nat /\ n \in Nat /\ ~(n <= height[d])
        BY <1>3, <2>1, <2>3, <2>6
      <3>2. height[d] \notin T
        BY <2>2, <3>1
      <3> QED BY <3>1, <3>2
    <2> QED BY <1>2, <2>3, <2>4, <2>5, <2>6
  <1>5. ASSUME NEW e \in Exprs PROVE Holds(e)
    <2>1. height[e] \in Nat /\ height[e] \notin T
      BY <1>3, <1>4
    <2> QED BY <2>1
  <1> QED BY <1>5 DEF Holds

LEMMA NoSummaryFits ==
    /\ NoSummary \in Summaries
    /\ \A r : KeywordsFit(r, NoSummary) /\ FieldsFit(r, NoSummary)
  <1>1. NoSummary \in Summaries
    BY DEF NoSummary, Summaries
  <1>2. NoSummary.keywords = <<>> /\ DOMAIN NoSummary.keywords = {}
    BY DEF NoSummary
  <1>3. /\ \A t \in {"type", "format", "codec"} : NoSummary.str[t] = <<>>
        /\ \A t \in NumericTags("id") : NoSummary.min[t] = 0 /\ NoSummary.max[t] = 0
    BY DEF NoSummary
  <1> QED BY <1>1, <1>2, <1>3 DEF KeywordsFit, FieldsFit

\* "the whole expression is a pure-AND tree, so every entry in Keywords is
\* REQUIRED for a match" (protocol.go:46-47), and so is every other field: for
\* expressions of any size and any record, a summary that was collected in full
\* never excludes a record that the expression matches, but for a format that was
\* asked for with two dots.  Match and CollectSummary are given by their equations.
THEOREM SummaryIsRequired ==
    ASSUME NEW Exprs, NEW height, AreExpressions(Exprs, height),
           NEW Records, NEW match, IsMatch(Exprs, Records, match),
           NEW collect, IsCollectSummary(Exprs, collect),
           NEW e \in Exprs, NEW r \in Records, \A t \in NumericTags("id") : r.num[t] \in Int
    PROVE  collect[e][NoSummary].ok /\ match[e][r] =>
               MatchesSummary(r, AsCollected(collect[e][NoSummary]))
  <1> SUFFICES ASSUME collect[e][NoSummary].ok, match[e][r]
               PROVE  MatchesSummary(r, AsCollected(collect[e][NoSummary]))
    OBVIOUS
  <1>1. Collects(r, match[e][r], NoSummary, collect[e][NoSummary])
    BY NoSummaryFits, ExpressionCollected
  <1>2. PICK q : q = collect[e][NoSummary]
    OBVIOUS
  <1>3. q \in Summaries /\ KeywordsFit(r, q) /\ FieldsFit(r, q)
    BY <1>1, <1>2, NoSummaryFits DEF Collects
  <1> QED BY <1>2, <1>3, FitsSummary

\* For any expression, a file that it matches is one that its search looks at,
\* unless one of the keywords fits the file by its hash and not by its name.
IndexLosesHashesOnly(Exprs, match, collect) ==
    \A e \in Exprs : \A i \in DOMAIN files :
        LET q == collect[e][NoSummary] IN
        match[e][files[i]] =>
            \/ i \in Candidates(q.ok, q.keywords)
            \/ \E k \in DOMAIN q.keywords :
                  HashMatches(files[i], q.keywords[k]) /\ ~NameMatches(files[i], q.keywords[k])

\* The index and the scan of all files agree (catalog.go:150) but for files that
\* are asked for by their hash, after any sequence of changes of any catalog and
\* for expressions of any size (Search, searchCandidatesLocked).
THEOREM IndexLosesOnlyHashes ==
    ASSUME NEW Exprs, NEW height, AreExpressions(Exprs, height),
           NEW match, IsMatch(Exprs, Good, match),
           NEW collect, IsCollectSummary(Exprs, collect)
    PROVE  CatalogSpec => []IndexLosesHashesOnly(Exprs, match, collect)
  <1>1. IndexInv => IndexLosesHashesOnly(Exprs, match, collect)
    <2> SUFFICES ASSUME IndexInv, NEW e \in Exprs, NEW i \in DOMAIN files,
                        NEW q, q = collect[e][NoSummary], match[e][files[i]],
                        \A k \in DOMAIN q.keywords :
                            HashMatches(files[i], q.keywords[k]) => NameMatches(files[i], q.keywords[k])
                 PROVE  i \in Candidates(q.ok, q.keywords)
      BY Zenon DEF IndexLosesHashesOnly
    <2>1. files[i] \in Good
      BY ONLY IndexInv, i \in DOMAIN files DEF IndexInv
    <2>2. Collects(files[i], match[e][files[i]], NoSummary, q)
      BY <2>1, NoSummaryFits, ExpressionCollected
    <2>3. q \in Summaries /\ (q.ok => KeywordsFit(files[i], q))
      BY <2>2, NoSummaryFits DEF Collects
    <2>4. q.ok \in BOOLEAN /\ q.keywords \in Seq(Seq(STRING))
      BY <2>3 DEF Summaries
    <2>5. CASE q.ok
      <3>1. \A k \in DOMAIN q.keywords : NameMatches(files[i], q.keywords[k])
        BY <2>3, <2>5 DEF KeywordsFit, KeywordMatches
      <3> QED BY <2>4, <3>1, IndexInvComplete DEF IndexComplete
    <2>6. CASE ~q.ok
      BY <2>6 DEF Candidates
    <2> QED BY <2>5, <2>6
  <1> QED BY IndexInit, IndexStep, <1>1, PTL DEF CatalogSpec

----------------------------------------------------------------------------
(* Requests.                                                               *)

\* The token of an operator.
BoolToken(op) == [term |-> "bool", op |-> op]

\* The terms, and the fields that are read of one.
IsTerm(t) ==
    \/ t.term \in {"keyword", "string"} /\ t.value \in Seq(STRING)
    \/ t.term \in {"number", "broken"}

\* A term can be read if and only if it is well-formed.
LEMMA TermReadable ==
    ASSUME NEW t, IsTerm(t), NEW linear \in BOOLEAN
    PROVE  Term(t, linear) # Failed <=> WellFormed(t, linear)
  <1>1. CASE t.term = "keyword"
    <2>1. t.term # "bool" /\ t.term # "broken" /\ t.term # "string" /\ t.term # "number"
      BY <1>1
    <2>2. Term(t, linear) = KeywordExpr(t.value) /\ WellFormed(t, linear)
      BY <1>1, <2>1, Zenon DEF Term, WellFormed
    <2>3. KeywordExpr(t.value).kind \in {"all", "keyword"}
      BY DEF KeywordExpr, MatchAll
    <2> QED BY <2>2, <2>3 DEF Failed
  <1>2. CASE t.term = "string"
    <2>1. t.term # "bool" /\ t.term # "broken" /\ t.term # "keyword" /\ t.term # "number"
      BY <1>2
    <2>2. Term(t, linear) = IF linear => t.tag.by = "id" THEN StringExpr(t.value, t.parts, t.tag)
                            ELSE Failed
      BY <1>2, <2>1, Zenon DEF Term
    <2>3. WellFormed(t, linear) <=>
              /\ linear => t.tag.by = "id"
              /\ TrimSpace(t.value) # <<>> =>
                    /\ t.tag.name \in StringTags(t.tag.by)
                    /\ t.tag.name = "length" => ValidLength(t.parts)
      BY <1>2, <2>1, Zenon DEF WellFormed
    <2>4. StringExpr(t.value, t.parts, t.tag) # Failed <=>
              (TrimSpace(t.value) # <<>> =>
                    /\ t.tag.name \in StringTags(t.tag.by)
                    /\ t.tag.name = "length" => ValidLength(t.parts))
      BY DEF StringExpr, MatchAll, Failed
    <2> QED BY <2>2, <2>3, <2>4
  <1>3. CASE t.term = "number"
    <2>1. t.term # "bool" /\ t.term # "broken" /\ t.term # "keyword" /\ t.term # "string"
      BY <1>3
    <2>2. Term(t, linear) = IF linear => t.tag.by = "id" THEN NumberExpr(t.number, t.op, t.tag)
                            ELSE Failed
      BY <1>3, <2>1, Zenon DEF Term
    <2>3. WellFormed(t, linear) <=>
              /\ linear => t.tag.by = "id"
              /\ t.op \in NumericOps /\ t.tag.name \in NumericTags(t.tag.by)
      BY <1>3, <2>1, Zenon DEF WellFormed
    <2>4. NumberExpr(t.number, t.op, t.tag) # Failed <=>
              t.op \in NumericOps /\ t.tag.name \in NumericTags(t.tag.by)
      BY DEF NumberExpr, Failed
    <2> QED BY <2>2, <2>3, <2>4
  <1>4. CASE t.term = "broken"
    <2>1. t.term # "bool" /\ t.term # "keyword" /\ t.term # "string" /\ t.term # "number"
      BY <1>4
    <2> QED BY <1>4, <2>1, Zenon DEF Term, WellFormed
  <1> QED BY <1>1, <1>2, <1>3, <1>4 DEF IsTerm

\* The trees of a set, with a height that bounds how deep they are.
AreTrees(Trees, height) ==
    /\ height \in [Trees -> Nat]
    /\ \A t \in Trees :
          IF t.term = "bool"
          THEN /\ t.left \in Trees /\ height[t.left] < height[t]
               /\ t.right \in Trees /\ height[t.right] < height[t]
          ELSE IsTerm(t)

\* The equation of Encode: an operator comes before its two sides.
IsEncode(Trees, Tokens, encode) ==
    /\ encode \in [Trees -> Seq(Tokens)]
    /\ \A t \in Trees :
          encode[t] = IF t.term = "bool"
                      THEN <<BoolToken(t.op)>> \o encode[t.left] \o encode[t.right]
                      ELSE <<t>>

\* The body of ParsePrefix, and its equation.
ParseStep(parse, body, i, depth) ==
    IF TooDeep(depth) \/ i > Len(body) THEN [expr |-> Failed, next |-> i]
    ELSE IF body[i].term # "bool" THEN [expr |-> Term(body[i], FALSE), next |-> i + 1]
    ELSE IF body[i].op \notin BoolOps THEN [expr |-> Failed, next |-> i]
    ELSE LET left == parse[body][i + 1][depth + 1]
             right == parse[body][left.next][depth + 1] IN
         IF left.expr = Failed \/ right.expr = Failed THEN [expr |-> Failed, next |-> i]
         ELSE [expr |-> Compound(body[i].op, left.expr, right.expr), next |-> right.next]
IsParsePrefix(Tokens, parse) ==
    \A body \in Seq(Tokens), i \in Nat, depth \in Nat :
        parse[body][i][depth] = ParseStep(parse, body, i, depth)

\* What trees are read as, and whether all of a tree is well-formed: an operator,
\* and a term in either form.
AreCompounds(Trees, expr, readable) ==
    /\ readable \in [Trees -> BOOLEAN]
    /\ \A t \in Trees : t.term = "bool" =>
          /\ expr[t] = Compound(t.op, expr[t.left], expr[t.right])
          /\ readable[t] <=> t.op \in BoolOps /\ readable[t.left] /\ readable[t.right]
IsPrefixReading(Trees, expr, readable) ==
    /\ AreCompounds(Trees, expr, readable)
    /\ \A t \in Trees : t.term # "bool" =>
          expr[t] = Term(t, FALSE) /\ (readable[t] <=> WellFormed(t, FALSE))
IsLinearReading(Trees, expr, readable) ==
    /\ AreCompounds(Trees, expr, readable)
    /\ \A t \in Trees : t.term # "bool" =>
          expr[t] = Term(t, TRUE) /\ (readable[t] <=> WellFormed(t, TRUE))

\* The equation of Height: how deep a tree is.
IsHeight(Trees, deep) ==
    /\ deep \in [Trees -> Nat]
    /\ \A t \in Trees :
          deep[t] = IF t.term # "bool" THEN 0
                    ELSE 1 + (IF deep[t.left] > deep[t.right] THEN deep[t.left]
                              ELSE deep[t.right])

LEMMA PrefixLeaf ==
    ASSUME NEW Trees, NEW height, AreTrees(Trees, height),
           NEW expr, NEW readable, IsPrefixReading(Trees, expr, readable),
           NEW t \in Trees, t.term # "bool"
    PROVE  /\ expr[t] = Term(t, FALSE) /\ readable[t] \in BOOLEAN
           /\ readable[t] <=> Term(t, FALSE) # Failed
  <1>1. \A linear \in BOOLEAN : Term(t, linear) # Failed <=> WellFormed(t, linear)
    <2>1. IsTerm(t)
      BY DEF AreTrees
    <2> QED BY <2>1, TermReadable
  <1>2. Term(t, FALSE) # Failed <=> WellFormed(t, FALSE)
    BY ONLY <1>1, Zenon
  <1>3. /\ expr[t] = Term(t, FALSE) /\ readable[t] \in BOOLEAN
        /\ readable[t] <=> WellFormed(t, FALSE)
    BY DEF IsPrefixReading, AreCompounds
  <1> QED BY ONLY <1>2, <1>3

LEMMA LinearLeaf ==
    ASSUME NEW Trees, NEW height, AreTrees(Trees, height),
           NEW expr, NEW readable, IsLinearReading(Trees, expr, readable),
           NEW t \in Trees, t.term # "bool"
    PROVE  /\ expr[t] = Term(t, TRUE) /\ readable[t] \in BOOLEAN
           /\ readable[t] <=> Term(t, TRUE) # Failed
  <1>1. \A linear \in BOOLEAN : Term(t, linear) # Failed <=> WellFormed(t, linear)
    <2>1. IsTerm(t)
      BY DEF AreTrees
    <2> QED BY <2>1, TermReadable
  <1>2. Term(t, TRUE) # Failed <=> WellFormed(t, TRUE)
    BY ONLY <1>1, Zenon
  <1>3. /\ expr[t] = Term(t, TRUE) /\ readable[t] \in BOOLEAN
        /\ readable[t] <=> WellFormed(t, TRUE)
    BY DEF IsLinearReading, AreCompounds
  <1> QED BY ONLY <1>2, <1>3

\* What can be read has a meaning.
LEMMA ReadableMeans ==
    ASSUME NEW Trees, NEW height, AreTrees(Trees, height),
           NEW expr, NEW readable, IsPrefixReading(Trees, expr, readable),
           NEW t \in Trees, readable[t]
    PROVE  expr[t] # Failed
  <1>1. CASE t.term = "bool"
    <2>1. expr[t] = Compound(t.op, expr[t.left], expr[t.right])
      BY <1>1 DEF IsPrefixReading, AreCompounds
    <2> QED BY <2>1 DEF Failed, Compound
  <1>2. CASE t.term # "bool"
    BY <1>2, PrefixLeaf
  <1> QED BY <1>1, <1>2

\* A body reads as the tokens s from position i on, as far as it goes.
Along(body, i, s) ==
    \A k \in 1..Len(s) : i + (k - 1) <= Len(body) => body[i + (k - 1)] = s[k]

\* s is an operator's token and its two sides.
IsCompound(s, token, a, b) == s = <<token>> \o a \o b

\* What they leave in a body.
LEMMA AlongCompound ==
    ASSUME NEW Tokens, NEW body \in Seq(Tokens), NEW i \in Nat \ {0},
           NEW token, NEW a \in Seq(Tokens), NEW b \in Seq(Tokens), NEW s \in Seq(Tokens),
           IsCompound(s, token, a, b), Along(body, i, s)
    PROVE  /\ Len(s) = 1 + Len(a) + Len(b)
           /\ i <= Len(body) => body[i] = token
           /\ Along(body, i + 1, a)
           /\ Along(body, i + 1 + Len(a), b)
  <1>1. PICK m \in Nat, n \in Nat, l \in Nat :
            /\ m = Len(a) /\ n = Len(b) /\ l = Len(body)
            /\ DOMAIN a = 1..m /\ DOMAIN b = 1..n
    OBVIOUS
  <1>2. PICK T : T = Tokens \cup {token}
    OBVIOUS
  <1>3. /\ <<token>> \in Seq(T) /\ Len(<<token>>) = 1 /\ <<token>>[1] = token
        /\ a \in Seq(T) /\ b \in Seq(T)
    BY ONLY <1>2, a \in Seq(Tokens), b \in Seq(Tokens)
  <1>4. PICK h : h = <<token>>
    OBVIOUS
  <1>5. PICK u : u = h \o a
    OBVIOUS
  <1>6. /\ u \in Seq(T) /\ Len(u) = 1 + m
        /\ \A k \in 1..(1 + m) : u[k] = IF k <= 1 THEN h[k] ELSE a[k - 1]
    <2>0. h \in Seq(T) /\ a \in Seq(T)
      BY <1>3, <1>4
    <2>1. /\ h \o a \in Seq(T) /\ Len(h \o a) = Len(h) + Len(a)
          /\ \A k \in 1..(Len(h) + Len(a)) :
                (h \o a)[k] = IF k <= Len(h) THEN h[k] ELSE a[k - Len(h)]
      BY ONLY <2>0, ConcatProperties
    <2>2. Len(h) = 1 /\ Len(a) = m
      BY <1>1, <1>3, <1>4
    <2> QED BY ONLY <2>1, <2>2, <1>5, Zenon
  <1>7. /\ Len(s) = 1 + m + n
        /\ \A k \in 1..(1 + m + n) : s[k] = IF k <= 1 + m THEN u[k] ELSE b[k - (1 + m)]
    <2>0. u \in Seq(T) /\ b \in Seq(T)
      BY <1>3, <1>6
    <2>1. /\ Len(u \o b) = Len(u) + Len(b)
          /\ \A k \in 1..(Len(u) + Len(b)) :
                (u \o b)[k] = IF k <= Len(u) THEN u[k] ELSE b[k - Len(u)]
      BY ONLY <2>0, ConcatProperties
    <2>2. s = u \o b
      BY <1>4, <1>5 DEF IsCompound
    <2>3. Len(u) = 1 + m /\ Len(b) = n
      BY <1>1, <1>6
    <2> QED BY ONLY <2>1, <2>2, <2>3, Zenon
  <1>8. \A k \in 1..(1 + m + n) : i + (k - 1) <= l => body[i + (k - 1)] = s[k]
    BY <1>1, <1>7 DEF Along
  <1>9. i <= l => body[i] = token
    <2>1. 1 \in 1..(1 + m + n) /\ 1 \in 1..(1 + m) /\ 1 <= 1 + m
          /\ i + (1 - 1) = i
      BY ONLY m \in Nat, n \in Nat, l \in Nat, i \in Nat \ {0}
    <2>2. s[1] = token
      BY ONLY <2>1, <1>3, <1>4, <1>6, <1>7
    <2> QED BY ONLY <2>1, <2>2, <1>8
  <1>10. Along(body, i + 1, a)
    <2>1. ASSUME NEW k \in 1..m, (i + 1) + (k - 1) <= l PROVE body[(i + 1) + (k - 1)] = a[k]
      <3>1. /\ 1 + k \in 1..(1 + m + n) /\ 1 + k \in 1..(1 + m) /\ 1 + k <= 1 + m
            /\ ~(1 + k <= 1) /\ (1 + k) - 1 = k /\ (i + 1) + (k - 1) = i + ((1 + k) - 1)
        BY ONLY m \in Nat, n \in Nat, i \in Nat \ {0}, k \in 1..m
      <3>2. s[1 + k] = u[1 + k] /\ u[1 + k] = a[(1 + k) - 1]
        BY ONLY <3>1, <1>6, <1>7
      <3>3. body[i + ((1 + k) - 1)] = s[1 + k]
        BY ONLY <2>1, <3>1, <1>8
      <3>4. a[(1 + k) - 1] = a[k]
        BY ONLY <3>1
      <3> QED BY ONLY <3>1, <3>2, <3>3, <3>4
    <2> QED BY <1>1, <2>1 DEF Along
  <1>11. Along(body, i + 1 + m, b)
    <2>1. ASSUME NEW k \in 1..n, (i + 1 + m) + (k - 1) <= l
          PROVE  body[(i + 1 + m) + (k - 1)] = b[k]
      <3>1. /\ 1 + m + k \in 1..(1 + m + n) /\ ~(1 + m + k <= 1 + m)
            /\ (1 + m + k) - (1 + m) = k /\ (i + 1 + m) + (k - 1) = i + ((1 + m + k) - 1)
        BY ONLY m \in Nat, n \in Nat, i \in Nat \ {0}, k \in 1..n
      <3>2. s[1 + m + k] = b[(1 + m + k) - (1 + m)]
        BY ONLY <3>1, <1>7
      <3>3. body[i + ((1 + m + k) - 1)] = s[1 + m + k]
        BY ONLY <2>1, <3>1, <1>8
      <3>4. b[(1 + m + k) - (1 + m)] = b[k]
        BY ONLY <3>1
      <3> QED BY ONLY <3>1, <3>2, <3>3, <3>4
    <2> QED BY <1>1, <2>1 DEF Along
  <1> QED BY ONLY <1>1, <1>7, <1>9, <1>10, <1>11

\* What is read where a body goes along a tree: all of the tree, or nothing.
Reads(p, body, i, depth, s, expr, readable, deep) ==
    /\ p.expr = IF readable /\ depth + deep <= MaxDepth /\ i + Len(s) <= Len(body) + 1
                THEN expr ELSE Failed
    /\ p.expr # Failed => p.next = i + Len(s)

\* A tree at any place and depth, by induction on its height.
LEMMA ReadAlong ==
    ASSUME NEW Trees, NEW height, AreTrees(Trees, height),
           NEW Tokens, NEW encode, IsEncode(Trees, Tokens, encode),
           NEW parse, IsParsePrefix(Tokens, parse),
           NEW expr, NEW readable, NEW deep,
           IsPrefixReading(Trees, expr, readable),
           IsHeight(Trees, deep),
           NEW body \in Seq(Tokens)
    PROVE  \A t \in Trees, i \in Nat \ {0}, depth \in Nat :
               Along(body, i, encode[t]) =>
                   Reads(parse[body][i][depth], body, i, depth, encode[t],
                         expr[t], readable[t], deep[t])
  <1> DEFINE Holds(t) == \A i \in Nat \ {0}, depth \in Nat :
                 Along(body, i, encode[t]) =>
                     Reads(parse[body][i][depth], body, i, depth, encode[t],
                           expr[t], readable[t], deep[t])
             T == {n \in Nat : \E t \in Trees : height[t] = n /\ ~Holds(t)}
  <1>1. PICK l \in Nat : l = Len(body) /\ DOMAIN body = 1..l
    OBVIOUS
  <1>2. ASSUME NEW t \in Trees, t.term # "bool" PROVE Holds(t)
    <2> SUFFICES ASSUME NEW i \in Nat \ {0}, NEW depth \in Nat, Along(body, i, encode[t])
                 PROVE  Reads(parse[body][i][depth], body, i, depth, encode[t],
                              expr[t], readable[t], deep[t])
      OBVIOUS
    <2>1. /\ expr[t] = Term(t, FALSE) /\ readable[t] = (Term(t, FALSE) # Failed)
          /\ deep[t] = 0
      <3>1. deep[t] = 0
        BY <1>2 DEF IsHeight
      <3>2. /\ expr[t] = Term(t, FALSE) /\ readable[t] \in BOOLEAN
            /\ readable[t] <=> Term(t, FALSE) # Failed
        BY <1>2, PrefixLeaf
      <3> QED BY ONLY <3>1, <3>2
    <2>2. encode[t] = <<t>> /\ Len(encode[t]) = 1
      <3>1. encode[t] = <<t>>
        BY <1>2 DEF IsEncode
      <3>2. Len(<<t>>) = 1
        OBVIOUS
      <3> QED BY <3>1, <3>2
    <2>3. i <= l => body[i] = t
      <3>1. 1 \in 1..Len(encode[t]) /\ i + (1 - 1) = i /\ encode[t][1] = t
        BY <2>2
      <3> QED BY <1>1, <3>1 DEF Along
    <2>4. PICK p : p = parse[body][i][depth]
      OBVIOUS
    <2>5. p = IF depth > MaxDepth \/ i > l THEN [expr |-> Failed, next |-> i]
              ELSE [expr |-> Term(t, FALSE), next |-> i + 1]
      <3>1. i \in Nat
        OBVIOUS
      <3>2. p = ParseStep(parse, body, i, depth)
        BY <2>4, <3>1 DEF IsParsePrefix
      <3>3. ~(i > l) => i <= l
        BY ONLY i \in Nat \ {0}, l \in Nat
      <3> QED BY ONLY <1>1, <1>2, <2>3, <3>2, <3>3 DEF ParseStep, TooDeep
    <2>6. CASE depth > MaxDepth \/ i > l
      <3>1. p.expr = Failed
        BY <2>5, <2>6
      <3>2. ~(depth + 0 <= MaxDepth /\ i + 1 <= l + 1)
        BY ONLY <2>6, DepthAssumption, l \in Nat, i \in Nat \ {0}, depth \in Nat
      <3> QED BY ONLY <1>1, <2>1, <2>2, <2>4, <3>1, <3>2 DEF Reads
    <2>7. CASE ~(depth > MaxDepth \/ i > l)
      <3>1. p.expr = Term(t, FALSE) /\ p.next = i + 1
        BY <2>5, <2>7
      <3>2. depth + 0 <= MaxDepth /\ i + 1 <= l + 1
        BY ONLY <2>7, DepthAssumption, l \in Nat, i \in Nat \ {0}, depth \in Nat
      <3> QED BY ONLY <1>1, <2>1, <2>2, <2>4, <3>1, <3>2 DEF Reads
    <2> QED BY <2>6, <2>7
  <1>3. ASSUME NEW t \in Trees, t.term = "bool", Holds(t.left), Holds(t.right)
        PROVE  Holds(t)
    <2> SUFFICES ASSUME NEW i \in Nat \ {0}, NEW depth \in Nat, Along(body, i, encode[t])
                 PROVE  Reads(parse[body][i][depth], body, i, depth, encode[t],
                              expr[t], readable[t], deep[t])
      OBVIOUS
    <2>1. t.left \in Trees /\ t.right \in Trees
      BY <1>3 DEF AreTrees
    <2>2. PICK s \in Seq(Tokens), a \in Seq(Tokens), b \in Seq(Tokens) :
              s = encode[t] /\ a = encode[t.left] /\ b = encode[t.right]
      BY <2>1 DEF IsEncode
    <2>3. s = <<BoolToken(t.op)>> \o a \o b
      BY <1>3, <2>2 DEF IsEncode
    <2>4. /\ Len(s) = 1 + Len(a) + Len(b)
          /\ i <= Len(body) => body[i] = BoolToken(t.op)
          /\ Along(body, i + 1, a)
          /\ Along(body, i + 1 + Len(a), b)
      <3>1. PICK token : token = BoolToken(t.op)
        OBVIOUS
      <3>2. Along(body, i, s) /\ IsCompound(s, token, a, b)
        BY <2>2, <2>3, <3>1 DEF IsCompound
      <3>3. /\ Len(s) = 1 + Len(a) + Len(b)
            /\ i <= Len(body) => body[i] = token
            /\ Along(body, i + 1, a)
            /\ Along(body, i + 1 + Len(a), b)
        BY ONLY <3>2, AlongCompound, body \in Seq(Tokens), i \in Nat \ {0},
                s \in Seq(Tokens), a \in Seq(Tokens), b \in Seq(Tokens)
      <3> QED BY <3>1, <3>3
    <2>5. PICK m \in Nat, n \in Nat : m = Len(a) /\ n = Len(b)
      OBVIOUS
    <2>6. PICK x \in Nat, y \in Nat, z \in Nat :
              x = deep[t.left] /\ y = deep[t.right] /\ z = deep[t]
      BY <2>1 DEF IsPrefixReading, AreCompounds, IsHeight
    <2>7. /\ expr[t] = Compound(t.op, expr[t.left], expr[t.right])
          /\ readable[t] = (t.op \in BoolOps /\ readable[t.left] /\ readable[t.right])
      BY <1>3 DEF IsPrefixReading, AreCompounds, IsHeight
    <2>7a. z = 1 + (IF x > y THEN x ELSE y)
      BY <1>3, <2>6 DEF IsPrefixReading, AreCompounds, IsHeight
    <2>8. PICK p : p = parse[body][i][depth]
      OBVIOUS
    <2>9. PICK left : left = parse[body][i + 1][depth + 1]
      OBVIOUS
    <2>10. PICK right : right = parse[body][left.next][depth + 1]
      OBVIOUS
    <2>11. CASE depth > MaxDepth \/ i > l
      <3>1. p.expr = Failed
        <4>1. p = ParseStep(parse, body, i, depth)
          BY <2>8 DEF IsParsePrefix
        <4>2. p = [expr |-> Failed, next |-> i]
          BY ONLY <1>1, <2>11, <4>1 DEF ParseStep, TooDeep
        <4> QED BY ONLY <4>2
      <3>2. ~(depth + z <= MaxDepth /\ i + (1 + m + n) <= l + 1)
        BY ONLY <2>11, <2>7a, DepthAssumption, l \in Nat, i \in Nat \ {0}, depth \in Nat,
                m \in Nat, n \in Nat, x \in Nat, y \in Nat
      <3> QED BY ONLY <1>1, <2>2, <2>4, <2>5, <2>6, <2>8, <3>1, <3>2 DEF Reads
    <2>12. CASE depth <= MaxDepth /\ i <= l /\ t.op \notin BoolOps
      <3>1. body[i].term = "bool" /\ body[i].op = t.op
        BY <1>1, <2>4, <2>12 DEF BoolToken
      <3>2. ~(depth > MaxDepth) /\ ~(i > l)
        BY ONLY <2>12, DepthAssumption, l \in Nat, i \in Nat \ {0}, depth \in Nat
      <3>3. p.expr = Failed
        <4>1. p = ParseStep(parse, body, i, depth)
          BY <2>8 DEF IsParsePrefix
        <4>2. p = [expr |-> Failed, next |-> i]
          BY ONLY <1>1, <2>12, <3>1, <3>2, <4>1 DEF ParseStep, TooDeep
        <4> QED BY ONLY <4>2
      <3>4. ~readable[t]
        BY <2>7, <2>12
      <3> QED BY ONLY <2>8, <3>3, <3>4 DEF Reads
    <2>13. CASE depth <= MaxDepth /\ i <= l /\ t.op \in BoolOps
      <3>1. body[i].term = "bool" /\ body[i].op = t.op
        BY <1>1, <2>4, <2>13 DEF BoolToken
      <3>2. /\ ~(depth > MaxDepth) /\ ~(i > l)
            /\ i + 1 \in Nat \ {0} /\ depth + 1 \in Nat /\ i + 1 + m \in Nat \ {0}
        BY ONLY <2>13, DepthAssumption, l \in Nat, i \in Nat \ {0}, depth \in Nat, m \in Nat
      <3>3. p = IF left.expr = Failed \/ right.expr = Failed
                THEN [expr |-> Failed, next |-> i]
                ELSE [expr |-> Compound(t.op, left.expr, right.expr), next |-> right.next]
        <4>1. i \in Nat
          OBVIOUS
        <4>2. p = ParseStep(parse, body, i, depth)
          BY <2>8, <4>1 DEF IsParsePrefix
        <4> QED BY ONLY <1>1, <2>9, <2>10, <2>13, <3>1, <3>2, <4>2 DEF ParseStep, TooDeep
      <3>4. Reads(left, body, i + 1, depth + 1, a, expr[t.left], readable[t.left], x)
        BY <1>3, <2>2, <2>4, <2>6, <2>9, <3>2
      <3>5. /\ left.expr = IF readable[t.left] /\ (depth + 1) + x <= MaxDepth
                              /\ (i + 1) + m <= l + 1
                           THEN expr[t.left] ELSE Failed
            /\ left.expr # Failed => left.next = (i + 1) + m
        BY ONLY <1>1, <2>5, <3>4 DEF Reads
      <3>6. CASE left.expr = Failed
        <4>1. p.expr = Failed
          BY <3>3, <3>6
        <4>2. CASE ~(readable[t.left] /\ (depth + 1) + x <= MaxDepth /\ (i + 1) + m <= l + 1)
          <5>1. ~(readable[t.left] /\ depth + z <= MaxDepth /\ i + (1 + m + n) <= l + 1)
            <6>1. depth + z <= MaxDepth /\ i + (1 + m + n) <= l + 1 =>
                      (depth + 1) + x <= MaxDepth /\ (i + 1) + m <= l + 1
              BY ONLY <2>7a, DepthAssumption, l \in Nat, i \in Nat \ {0}, depth \in Nat,
                      m \in Nat, n \in Nat, x \in Nat, y \in Nat
            <6> QED BY <4>2, <6>1
          <5>2. readable[t] => readable[t.left]
            BY <2>7
          <5> QED BY ONLY <1>1, <2>2, <2>4, <2>5, <2>6, <2>8, <4>1, <5>1, <5>2 DEF Reads
        <4>3. CASE expr[t.left] = Failed
          <5>1. ~readable[t.left]
            BY <2>1, <4>3, ReadableMeans
          <5>2. ~readable[t]
            BY <2>7, <5>1
          <5> QED BY ONLY <2>8, <4>1, <5>2 DEF Reads
        <4> QED BY <3>5, <3>6, <4>2, <4>3
      <3>7. CASE left.expr # Failed
        <4>1. left.expr = expr[t.left] /\ readable[t.left] /\ left.next = (i + 1) + m
          BY <3>5, <3>7
        <4>1a. (depth + 1) + x <= MaxDepth
          BY <3>5, <3>7
        <4>2. Reads(right, body, i + 1 + m, depth + 1, b, expr[t.right], readable[t.right], y)
          BY <1>3, <2>2, <2>4, <2>5, <2>6, <2>10, <3>2, <4>1
        <4>3. /\ right.expr = IF readable[t.right] /\ (depth + 1) + y <= MaxDepth
                                 /\ (i + 1 + m) + n <= l + 1
                              THEN expr[t.right] ELSE Failed
              /\ right.expr # Failed => right.next = (i + 1 + m) + n
          BY ONLY <1>1, <2>5, <4>2 DEF Reads
        <4>4. /\ depth + z <= MaxDepth <=> (depth + 1) + y <= MaxDepth
              /\ i + (1 + m + n) <= l + 1 <=> (i + 1 + m) + n <= l + 1
              /\ (i + 1 + m) + n = i + (1 + m + n)
          BY ONLY <2>7a, <4>1a, DepthAssumption, l \in Nat, i \in Nat \ {0}, depth \in Nat,
                  m \in Nat, n \in Nat, x \in Nat, y \in Nat
        <4>5. CASE right.expr = Failed
          <5>1. p.expr = Failed
            BY <3>3, <4>5
          <5>2. CASE ~(readable[t.right] /\ (depth + 1) + y <= MaxDepth
                       /\ (i + 1 + m) + n <= l + 1)
            <6>1. ~(readable[t] /\ depth + z <= MaxDepth /\ i + (1 + m + n) <= l + 1)
              BY <2>7, <4>4, <5>2
            <6> QED BY ONLY <1>1, <2>2, <2>4, <2>5, <2>6, <2>8, <5>1, <6>1 DEF Reads
          <5>3. CASE expr[t.right] = Failed
            <6>1. ~readable[t.right]
              BY <2>1, <5>3, ReadableMeans
            <6>2. ~readable[t]
              BY <2>7, <6>1
            <6> QED BY ONLY <2>8, <5>1, <6>2 DEF Reads
          <5> QED BY <4>3, <4>5, <5>2, <5>3
        <4>6. CASE right.expr # Failed
          <5>1. /\ right.expr = expr[t.right] /\ readable[t.right]
                /\ (depth + 1) + y <= MaxDepth /\ (i + 1 + m) + n <= l + 1
                /\ right.next = (i + 1 + m) + n
            BY <4>3, <4>6
          <5>2. p.expr = expr[t] /\ p.next = i + (1 + m + n)
            BY <2>7, <3>3, <3>7, <4>1, <4>4, <4>6, <5>1
          <5>3. readable[t] /\ depth + z <= MaxDepth /\ i + (1 + m + n) <= l + 1
            BY <2>7, <2>13, <4>1, <4>4, <5>1
          <5> QED BY ONLY <1>1, <2>2, <2>4, <2>5, <2>6, <2>8, <5>2, <5>3 DEF Reads
        <4> QED BY <4>5, <4>6
      <3> QED BY <3>6, <3>7
    <2>14. (depth > MaxDepth \/ i > l) \/ (depth <= MaxDepth /\ i <= l)
      BY ONLY DepthAssumption, l \in Nat, i \in Nat \ {0}, depth \in Nat
    <2> QED BY <2>11, <2>12, <2>13, <2>14
  <1> HIDE DEF Holds
  <1>4. height \in [Trees -> Nat]
    BY DEF AreTrees
  <1>5. T = {}
    <2> SUFFICES ASSUME T # {} PROVE FALSE
      OBVIOUS
    <2>1. T \subseteq Nat
      OBVIOUS
    <2>2. PICK n \in T : \A m \in T : n <= m
      <3> HIDE DEF T
      <3> QED BY <2>1, LeastNat
    <2>3. PICK t \in Trees : height[t] = n /\ ~Holds(t)
      BY <2>2
    <2>4. t.term = "bool"
      BY <1>2, <2>3
    <2>5. /\ t.left \in Trees /\ height[t.left] < height[t]
          /\ t.right \in Trees /\ height[t.right] < height[t]
      BY <2>4 DEF AreTrees
    <2>6. ASSUME NEW u \in Trees, height[u] < height[t] PROVE Holds(u)
      <3>1. height[u] \in Nat /\ n \in Nat /\ ~(n <= height[u])
        BY <1>4, <2>1, <2>3, <2>6
      <3>2. height[u] \notin T
        BY <2>2, <3>1
      <3> QED BY <3>1, <3>2
    <2> QED BY <1>3, <2>3, <2>4, <2>5, <2>6
  <1>6. ASSUME NEW t \in Trees PROVE Holds(t)
    <2>1. height[t] \in Nat /\ height[t] \notin T
      BY <1>4, <1>5
    <2> QED BY <2>1
  <1> QED BY <1>6 DEF Holds

\* The body of LinearRequest, and its equation.
LinearStep(linear, body) ==
    LET n == Len(body)
        left == linear[SubSeq(body, 1, n - 2)]
        right == Term(body[n], TRUE) IN
    IF n = 0 THEN Failed
    ELSE IF n = 1 THEN right
    ELSE IF body[n - 1].term = "bool" /\ body[n - 1].op \in BoolOps
            /\ left # Failed /\ right # Failed
         THEN Compound(body[n - 1].op, left, right) ELSE Failed
IsLinearRequest(Tokens, linear) ==
    \A body \in Seq(Tokens) : linear[body] = LinearStep(linear, body)

\* PrefixRequest and Parse.
ParsedPrefix(parse, body) ==
    IF parse[body][1][0].next = Len(body) + 1 THEN parse[body][1][0].expr ELSE Failed
Parsed(parse, linear, body) ==
    IF body = <<>> THEN MatchAll
    ELSE IF ParsedPrefix(parse, body) # Failed THEN ParsedPrefix(parse, body)
    ELSE linear[body]

\* The linear form reads a term as the prefix form does, or not at all; an
\* operator is no term.
LEMMA TermForms ==
    ASSUME NEW token
    PROVE  /\ Term(token, TRUE) \in {Term(token, FALSE), Failed}
           /\ token.term = "bool" => \A l \in BOOLEAN : Term(token, l) = Failed
  <1>1. ASSUME token.term = "bool", NEW l PROVE Term(token, l) = Failed
    <2>1. token.term # "keyword" /\ token.term # "string" /\ token.term # "number"
      BY <1>1
    <2> QED BY <2>1, Zenon DEF Term
  <1>2. Term(token, TRUE) \in {Term(token, FALSE), Failed}
    <2>1. CASE token.term = "keyword"
      BY <2>1, Zenon DEF Term
    <2>2. CASE token.term = "string"
      <3>1. token.term # "keyword" /\ token.term # "number"
        BY <2>2
      <3> QED BY <2>2, <3>1, Zenon DEF Term
    <2>3. CASE token.term = "number"
      <3>1. token.term # "keyword" /\ token.term # "string"
        BY <2>3
      <3> QED BY <2>3, <3>1, Zenon DEF Term
    <2>4. CASE token.term \notin {"keyword", "string", "number"}
      <3>1. token.term # "keyword" /\ token.term # "string" /\ token.term # "number"
        BY <2>4
      <3> QED BY <3>1, Zenon DEF Term
    <2> QED BY <2>1, <2>2, <2>3, <2>4
  <1> QED BY <1>1, <1>2

\* What the linear form reads starts with a term, by induction on the length.
LEMMA LinearHead ==
    ASSUME NEW Tokens, NEW linear, IsLinearRequest(Tokens, linear)
    PROVE  \A body \in Seq(Tokens) :
               linear[body] # Failed => Len(body) > 0 /\ body[1].term # "bool"
  <1> DEFINE Holds(body) == linear[body] # Failed => Len(body) > 0 /\ body[1].term # "bool"
             T == {n \in Nat : \E body \in Seq(Tokens) : Len(body) = n /\ ~Holds(body)}
  <1>1. ASSUME NEW body \in Seq(Tokens), linear[body] # Failed,
               \A b \in Seq(Tokens) : Len(b) < Len(body) => Holds(b)
        PROVE  Len(body) > 0 /\ body[1].term # "bool"
    <2>1. PICK n \in Nat : n = Len(body) /\ DOMAIN body = 1..n
      OBVIOUS
    <2>2. linear[body] = LinearStep(linear, body)
      BY DEF IsLinearRequest
    <2>3. n # 0
      BY ONLY <1>1, <2>1, <2>2 DEF LinearStep
    <2>4. CASE n = 1
      <3>1. linear[body] = Term(body[1], TRUE)
        BY ONLY <2>1, <2>2, <2>4 DEF LinearStep
      <3>2. body[1].term # "bool"
        BY <1>1, <3>1, TermForms
      <3> QED BY <2>1, <2>4, <3>2
    <2>5. CASE n >= 2
      <3>1. PICK b : b = SubSeq(body, 1, n - 2)
        OBVIOUS
      <3>2. /\ b \in Seq(Tokens) /\ Len(b) = n - 2
            /\ n > 2 => b[1] = body[1]
        BY ONLY <2>1, <2>5, <3>1, body \in Seq(Tokens), n \in Nat
      <3>3. linear[b] # Failed
        <4>1. n # 0 /\ n # 1
          BY <2>5
        <4>2. linear[b] = Failed => LinearStep(linear, body) = Failed
          BY ONLY <2>1, <3>1, <4>1, Zenon DEF LinearStep
        <4> QED BY <1>1, <2>2, <4>2
      <3>4. Len(b) < Len(body)
        BY <2>1, <3>2
      <3>5. Holds(b)
        <4> HIDE DEF Holds
        <4> QED BY <1>1, <3>2, <3>4
      <3>6. Len(b) > 0 /\ b[1].term # "bool"
        BY <3>3, <3>5
      <3> QED BY <2>1, <3>2, <3>6
    <2>6. n \in Nat => n = 0 \/ n = 1 \/ n >= 2
      OBVIOUS
    <2> QED BY <2>3, <2>4, <2>5, <2>6
  <1>2. T = {}
    <2> SUFFICES ASSUME T # {} PROVE FALSE
      OBVIOUS
    <2>1. T \subseteq Nat
      OBVIOUS
    <2>2. PICK n \in T : \A m \in T : n <= m
      <3> HIDE DEF T
      <3> QED BY <2>1, LeastNat
    <2>3. PICK body \in Seq(Tokens) : Len(body) = n /\ ~Holds(body)
      BY <2>2
    <2> HIDE DEF Holds
    <2>4. ASSUME NEW b \in Seq(Tokens), Len(b) < Len(body) PROVE Holds(b)
      <3>1. Len(b) \in Nat /\ n \in Nat /\ ~(n <= Len(b))
        BY <2>1, <2>3, <2>4
      <3>2. Len(b) \notin T
        BY <2>2, <3>1
      <3> QED BY <3>1, <3>2
    <2>5. Holds(body)
      <3>1. linear[body] # Failed => Len(body) > 0 /\ body[1].term # "bool"
        BY <1>1, <2>4
      <3> QED BY <3>1 DEF Holds
    <2> QED BY <2>3, <2>5
  <1> HIDE DEF Holds
  <1>3. ASSUME NEW body \in Seq(Tokens) PROVE Holds(body)
    <2>1. Len(body) \in Nat /\ Len(body) \notin T
      BY <1>2
    <2> QED BY <2>1
  <1> QED BY <1>3 DEF Holds

\* A request in prefix form, of any size and for any limit of the depth, is read
\* as it was meant if each of its terms can be read and it is not too deep, and
\* not at all otherwise: neither the fallback to the linear form nor the loss of
\* its end or something behind it ever turns an expression with an operator into
\* another one (ParseSearchRequestLimited).  The parsers are given by their
\* equations.
THEOREM PrefixUnderstood ==
    ASSUME NEW Trees, NEW height, AreTrees(Trees, height),
           NEW Tokens, NEW encode, IsEncode(Trees, Tokens, encode),
           NEW parse, IsParsePrefix(Tokens, parse),
           NEW linear, IsLinearRequest(Tokens, linear),
           NEW expr, NEW readable, NEW deep,
           IsPrefixReading(Trees, expr, readable),
           IsHeight(Trees, deep),
           NEW t \in Trees
    PROVE  /\ Parsed(parse, linear, encode[t]) =
                  IF readable[t] /\ deep[t] <= MaxDepth THEN expr[t] ELSE Failed
           /\ t.term = "bool" => \A body \in Seq(Tokens) \ {<<>>, encode[t]} :
                  Along(body, 1, encode[t]) => Parsed(parse, linear, body) = Failed
  <1>1. PICK s \in Seq(Tokens) : s = encode[t]
    BY DEF IsEncode
  <1>2. PICK m \in Nat : m = Len(s)
    OBVIOUS
  <1>3. PICK d \in Nat : d = deep[t]
    BY DEF IsPrefixReading, AreCompounds, IsHeight
  <1>4. ASSUME NEW body \in Seq(Tokens), body # <<>>, Along(body, 1, s)
        PROVE  ParsedPrefix(parse, body) =
                   IF readable[t] /\ d <= MaxDepth /\ Len(body) = m THEN expr[t] ELSE Failed
    <2>1. PICK n \in Nat : n = Len(body)
      OBVIOUS
    <2>2. PICK p : p = parse[body][1][0]
      OBVIOUS
    <2>3. Reads(p, body, 1, 0, s, expr[t], readable[t], d)
      <3>1. 1 \in Nat \ {0} /\ 0 \in Nat
        OBVIOUS
      <3> QED BY <1>1, <1>3, <1>4, <2>2, <3>1, ReadAlong
    <2>4. /\ p.expr = IF readable[t] /\ 0 + d <= MaxDepth /\ 1 + m <= n + 1
                      THEN expr[t] ELSE Failed
          /\ p.expr # Failed => p.next = 1 + m
      BY ONLY <1>2, <2>1, <2>3 DEF Reads
    <2>5. ParsedPrefix(parse, body) = IF p.next = n + 1 THEN p.expr ELSE Failed
      BY <2>1, <2>2 DEF ParsedPrefix
    <2>6. 0 + d = d /\ (1 + m = n + 1 <=> n = m) /\ (n = m => 1 + m <= n + 1)
      BY ONLY m \in Nat, n \in Nat, d \in Nat
    <2>7. CASE p.expr = Failed
      <3>1. ParsedPrefix(parse, body) = Failed
        BY <2>5, <2>7
      <3>2. readable[t] /\ d <= MaxDepth /\ n = m => expr[t] = Failed
        BY ONLY <2>4, <2>6, <2>7
      <3> QED BY ONLY <2>1, <3>1, <3>2
    <2>8. CASE p.expr # Failed
      <3>1. readable[t] /\ d <= MaxDepth /\ p.expr = expr[t] /\ p.next = 1 + m
        BY ONLY <2>4, <2>6, <2>8
      <3> QED BY ONLY <2>1, <2>5, <2>6, <3>1
    <2> QED BY <2>7, <2>8
  <1>5. Along(s, 1, s)
    <2>1. \A k \in 1..Len(s) : 1 + (k - 1) = k
      OBVIOUS
    <2> QED BY <2>1 DEF Along
  <1>6. CASE t.term # "bool"
    <2>1. s = <<t>> /\ Len(s) = 1 /\ s[1] = t
      <3>1. s = <<t>>
        BY <1>1, <1>6 DEF IsEncode
      <3>2. Len(<<t>>) = 1 /\ <<t>>[1] = t
        OBVIOUS
      <3> QED BY <3>1, <3>2
    <2>2. s # <<>>
      BY <2>1
    <2>3. expr[t] = Term(t, FALSE) /\ readable[t] = (Term(t, FALSE) # Failed) /\ d = 0
      <3>1. d = 0
        BY <1>3, <1>6 DEF IsHeight
      <3>2. /\ expr[t] = Term(t, FALSE) /\ readable[t] \in BOOLEAN
            /\ readable[t] <=> Term(t, FALSE) # Failed
        BY <1>6, PrefixLeaf
      <3> QED BY ONLY <3>1, <3>2
    <2>4. d <= MaxDepth
      BY <2>3, DepthAssumption
    <2>5. ParsedPrefix(parse, s) = Term(t, FALSE)
      BY <1>2, <1>4, <1>5, <2>2, <2>3, <2>4
    <2>6. linear[s] = Term(t, TRUE)
      <3>1. linear[s] = LinearStep(linear, s)
        BY DEF IsLinearRequest
      <3> QED BY ONLY <2>1, <3>1 DEF LinearStep
    <2>7. Parsed(parse, linear, s) = Term(t, FALSE)
      BY <2>2, <2>5, <2>6, TermForms DEF Parsed
    <2> QED BY <1>1, <1>3, <1>6, <2>3, <2>4, <2>7
  <1>7. CASE t.term = "bool"
    <2>1. PICK a \in Seq(Tokens), b \in Seq(Tokens) :
              s = <<BoolToken(t.op)>> \o a \o b
      <3>1. t.left \in Trees /\ t.right \in Trees
        BY <1>7 DEF AreTrees
      <3>2. encode[t.left] \in Seq(Tokens) /\ encode[t.right] \in Seq(Tokens)
        BY <3>1 DEF IsEncode
      <3>3. s = <<BoolToken(t.op)>> \o encode[t.left] \o encode[t.right]
        BY <1>1, <1>7 DEF IsEncode
      <3> QED BY <3>2, <3>3
    <2>2. ASSUME NEW body \in Seq(Tokens), body # <<>>, Along(body, 1, s)
          PROVE  linear[body] = Failed
      <3>1. PICK token : token = BoolToken(t.op)
        OBVIOUS
      <3>2. IsCompound(s, token, a, b) /\ 1 \in Nat \ {0}
        BY <2>1, <3>1 DEF IsCompound
      <3>3. 1 <= Len(body) => body[1] = token
        BY ONLY <2>2, <3>2, AlongCompound, body \in Seq(Tokens),
                s \in Seq(Tokens), a \in Seq(Tokens), b \in Seq(Tokens)
      <3>4. 1 <= Len(body)
        BY <2>2
      <3>5. body[1].term = "bool"
        BY <3>1, <3>3, <3>4 DEF BoolToken
      <3> QED BY <3>5, LinearHead
    <2>3. s # <<>>
      <3>1. PICK token : token = BoolToken(t.op)
        OBVIOUS
      <3>2. IsCompound(s, token, a, b) /\ 1 \in Nat \ {0}
        BY <2>1, <3>1 DEF IsCompound
      <3>3. Len(s) = 1 + Len(a) + Len(b)
        BY ONLY <1>5, <3>2, AlongCompound, s \in Seq(Tokens), a \in Seq(Tokens), b \in Seq(Tokens)
      <3> QED BY <3>3
    <2>4. Parsed(parse, linear, s) = IF readable[t] /\ d <= MaxDepth THEN expr[t] ELSE Failed
      BY <1>2, <1>4, <1>5, <2>2, <2>3 DEF Parsed
    <2>5. ASSUME NEW body \in Seq(Tokens), body # <<>>, body # s, Along(body, 1, s)
          PROVE  Parsed(parse, linear, body) = Failed
      <3>1. Len(body) # m
        <4> SUFFICES ASSUME Len(body) = m PROVE FALSE
          OBVIOUS
        <4>1. \A k \in 1..Len(s) : 1 + (k - 1) = k /\ k <= Len(body)
          BY ONLY <1>2, Len(body) = m, m \in Nat
        <4>2. \A k \in 1..Len(s) : body[k] = s[k]
          BY <2>5, <4>1 DEF Along
        <4>3. body = s
          BY ONLY <1>2, <4>2, Len(body) = m, SeqEqual, body \in Seq(Tokens), s \in Seq(Tokens)
        <4> QED BY <2>5, <4>3
      <3>2. ParsedPrefix(parse, body) = Failed
        BY <1>4, <2>5, <3>1
      <3> QED BY <2>2, <2>5, <3>2 DEF Parsed
    <2> QED BY <1>1, <1>3, <2>4, <2>5
  <1> QED BY <1>6, <1>7

\* Trees that the linear form can express: an operator has any such tree on its
\* left and one token on its right.
AreCombs(Combs, height) ==
    AreTrees(Combs, height) /\ \A t \in Combs : t.term = "bool" => t.right.term # "bool"

\* The equation of EncodeLinear.
IsEncodeLinear(Combs, Tokens, encode) ==
    /\ encode \in [Combs -> Seq(Tokens)]
    /\ \A t \in Combs :
          encode[t] = IF t.term = "bool" THEN encode[t.left] \o <<BoolToken(t.op), t.right>>
                      ELSE <<t>>

\* A list with two more elements.
LEMMA TwoMore ==
    ASSUME NEW Tokens, NEW a \in Seq(Tokens), NEW x, NEW y, NEW s \in Seq(Tokens),
           s = a \o <<x, y>>
    PROVE  /\ Len(s) = Len(a) + 2
           /\ SubSeq(s, 1, Len(s) - 2) = a
           /\ s[Len(s) - 1] = x /\ s[Len(s)] = y
           /\ a # <<>> => s[1] = a[1]
  <1>1. PICK n \in Nat : n = Len(a) /\ DOMAIN a = 1..n
    OBVIOUS
  <1>2. PICK T, b : T = Tokens \cup {x, y} /\ b = <<x, y>>
    OBVIOUS
  <1>3. a \in Seq(T) /\ b \in Seq(T) /\ Len(b) = 2 /\ b[1] = x /\ b[2] = y
    BY ONLY <1>2, a \in Seq(Tokens)
  <1>4. /\ Len(a \o b) = Len(a) + Len(b)
        /\ \A k \in 1..(Len(a) + Len(b)) :
              (a \o b)[k] = IF k <= Len(a) THEN a[k] ELSE b[k - Len(a)]
    BY ONLY <1>3, ConcatProperties
  <1>5. /\ Len(s) = n + 2
        /\ \A k \in 1..(n + 2) : s[k] = IF k <= n THEN a[k] ELSE b[k - n]
    <2>1. s = a \o b /\ Len(b) = 2
      BY <1>2, <1>3
    <2> QED BY ONLY <1>1, <1>4, <2>1, Zenon
  <1>6. s[n + 1] = x /\ s[n + 2] = y
    <2>1. /\ n + 1 \in 1..(n + 2) /\ ~(n + 1 <= n) /\ (n + 1) - n = 1
          /\ n + 2 \in 1..(n + 2) /\ ~(n + 2 <= n) /\ (n + 2) - n = 2
      BY ONLY n \in Nat
    <2>2. s[n + 1] = b[(n + 1) - n] /\ s[n + 2] = b[(n + 2) - n]
      BY ONLY <1>5, <2>1
    <2>3. b[(n + 1) - n] = b[1] /\ b[(n + 2) - n] = b[2]
      BY ONLY <2>1
    <2> QED BY ONLY <1>3, <2>2, <2>3
  <1>7. \A k \in 1..n : s[k] = a[k]
    <2>1. \A k \in 1..n : k \in 1..(n + 2) /\ k <= n
      BY ONLY n \in Nat
    <2> QED BY ONLY <1>5, <2>1
  <1>8. SubSeq(s, 1, n) = a
    <2>1. PICK c : c = SubSeq(s, 1, n)
      OBVIOUS
    <2>2. c \in Seq(Tokens) /\ Len(c) = n /\ \A k \in 1..n : c[k] = s[k]
      BY ONLY <1>5, <2>1, s \in Seq(Tokens), n \in Nat
    <2>3. c = a
      BY ONLY <1>1, <1>7, <2>2, SeqEqual, a \in Seq(Tokens)
    <2> QED BY <2>1, <2>3
  <1>9. Len(s) - 2 = n /\ Len(s) - 1 = n + 1 /\ Len(s) = n + 2
    BY ONLY <1>5, n \in Nat
  <1>10. a # <<>> => s[1] = a[1]
    <2>1. a # <<>> => 1 \in 1..n
      BY <1>1
    <2> QED BY <1>7, <2>1
  <1> QED BY ONLY <1>1, <1>6, <1>8, <1>9, <1>10

\* The linear form reads such a tree as it was meant, by induction on its height.
LEMMA LinearRead ==
    ASSUME NEW Combs, NEW height, AreCombs(Combs, height),
           NEW Tokens, NEW encode, IsEncodeLinear(Combs, Tokens, encode),
           NEW linear, IsLinearRequest(Tokens, linear),
           NEW expr, NEW readable, IsLinearReading(Combs, expr, readable)
    PROVE  \A t \in Combs :
               /\ encode[t] # <<>> /\ encode[t][1].term # "bool"
               /\ linear[encode[t]] = IF readable[t] THEN expr[t] ELSE Failed
               /\ readable[t] => expr[t] # Failed
  <1> DEFINE Holds(t) ==
                 /\ encode[t] # <<>> /\ encode[t][1].term # "bool"
                 /\ linear[encode[t]] = IF readable[t] THEN expr[t] ELSE Failed
                 /\ readable[t] => expr[t] # Failed
             T == {n \in Nat : \E t \in Combs : height[t] = n /\ ~Holds(t)}
  <1>1. ASSUME NEW t \in Combs, t.term # "bool" PROVE Holds(t)
    <2>1. encode[t] = <<t>>
      BY <1>1 DEF IsEncodeLinear
    <2>2. <<t>> # <<>> /\ Len(<<t>>) = 1 /\ <<t>>[1] = t
      OBVIOUS
    <2>3. expr[t] = Term(t, TRUE) /\ readable[t] = (Term(t, TRUE) # Failed)
      <3>1. /\ expr[t] = Term(t, TRUE) /\ readable[t] \in BOOLEAN
            /\ readable[t] <=> Term(t, TRUE) # Failed
        BY <1>1, LinearLeaf DEF AreCombs
      <3> QED BY ONLY <3>1
    <2>4. PICK s \in Seq(Tokens) : s = encode[t]
      BY DEF IsEncodeLinear
    <2>5. Len(s) = 1 /\ Len(s) # 0 /\ s[1] = t
      BY <2>1, <2>2, <2>4
    <2>6. linear[s] = LinearStep(linear, s)
      BY DEF IsLinearRequest
    <2>7. linear[s] = Term(t, TRUE)
      BY ONLY <2>5, <2>6, Zenon DEF LinearStep
    <2> QED BY <1>1, <2>1, <2>2, <2>3, <2>4, <2>7
  <1>2. ASSUME NEW t \in Combs, t.term = "bool", Holds(t.left) PROVE Holds(t)
    <2>1. t.left \in Combs
      BY <1>2 DEF AreCombs, AreTrees
    <2>2. PICK s \in Seq(Tokens), a \in Seq(Tokens) : s = encode[t] /\ a = encode[t.left]
      BY <2>1 DEF IsEncodeLinear
    <2>3. PICK x, y : x = BoolToken(t.op) /\ y = t.right
      OBVIOUS
    <2>4. s = a \o <<x, y>>
      BY <1>2, <2>2, <2>3 DEF IsEncodeLinear
    <2>5. PICK n \in Nat : n = Len(s)
      OBVIOUS
    <2>6. /\ a # <<>> /\ a[1].term # "bool"
          /\ linear[a] = IF readable[t.left] THEN expr[t.left] ELSE Failed
          /\ readable[t.left] => expr[t.left] # Failed
      BY <1>2, <2>2
    <2>7. /\ n = Len(a) + 2 /\ SubSeq(s, 1, n - 2) = a
          /\ s[n - 1] = x /\ s[n] = y /\ s[1] = a[1]
      BY <2>4, <2>5, <2>6, TwoMore
    <2>8. n # 0 /\ n # 1 /\ s # <<>>
      <3>1. PICK m \in Nat : m = Len(a)
        OBVIOUS
      <3>2. n # 0 /\ n # 1
        <4>1. a # <<>> => m > 0
          BY <3>1
        <4> QED BY ONLY <2>6, <2>7, <3>1, <4>1, m \in Nat
      <3>3. Len(s) # 0 => s # <<>>
        OBVIOUS
      <3> QED BY ONLY <2>5, <3>2, <3>3
    <2>9. s[n - 1].term = "bool" /\ s[n - 1].op = t.op
      BY <2>3, <2>7 DEF BoolToken
    <2>10. linear[s] = LinearStep(linear, s)
      BY DEF IsLinearRequest
    <2>11. LinearStep(linear, s) =
               IF t.op \in BoolOps /\ linear[a] # Failed /\ Term(y, TRUE) # Failed
               THEN Compound(t.op, linear[a], Term(y, TRUE)) ELSE Failed
      BY ONLY <2>5, <2>7, <2>8, <2>9 DEF LinearStep
    <2>12. /\ expr[t] = Compound(t.op, expr[t.left], Term(y, TRUE))
           /\ readable[t] = (t.op \in BoolOps /\ readable[t.left] /\ Term(y, TRUE) # Failed)
           /\ readable[t.left] \in BOOLEAN
      <3>1. y \in Combs /\ y.term # "bool"
        BY <1>2, <2>3 DEF AreCombs, AreTrees
      <3>2. /\ expr[y] = Term(y, TRUE) /\ readable[y] \in BOOLEAN
            /\ readable[y] <=> Term(y, TRUE) # Failed
        BY <3>1, LinearLeaf DEF AreCombs
      <3>3. /\ expr[t] = Compound(t.op, expr[t.left], expr[y])
            /\ readable[t] <=> t.op \in BoolOps /\ readable[t.left] /\ readable[y]
            /\ readable[t] \in BOOLEAN /\ readable[t.left] \in BOOLEAN
        BY <1>2, <2>1, <2>3 DEF IsLinearReading, AreCompounds
      <3> QED BY ONLY <3>2, <3>3
    <2>13. linear[s] = IF readable[t] THEN expr[t] ELSE Failed
      BY ONLY <2>6, <2>10, <2>11, <2>12
    <2>14. expr[t] # Failed
      BY <2>12 DEF Compound, Failed
    <2> QED BY <2>2, <2>6, <2>7, <2>8, <2>13, <2>14
  <1> HIDE DEF Holds
  <1>3. height \in [Combs -> Nat]
    BY DEF AreCombs, AreTrees
  <1>4. T = {}
    <2> SUFFICES ASSUME T # {} PROVE FALSE
      OBVIOUS
    <2>1. T \subseteq Nat
      OBVIOUS
    <2>2. PICK n \in T : \A m \in T : n <= m
      <3> HIDE DEF T
      <3> QED BY <2>1, LeastNat
    <2>3. PICK t \in Combs : height[t] = n /\ ~Holds(t)
      BY <2>2
    <2>4. t.term = "bool"
      BY <1>1, <2>3
    <2>5. t.left \in Combs /\ height[t.left] < height[t]
      BY <2>4 DEF AreCombs, AreTrees
    <2>6. Holds(t.left)
      <3>1. PICK u \in Combs : u = t.left
        BY <2>5
      <3>2. height[u] \in Nat /\ n \in Nat /\ ~(n <= height[u])
        BY <1>3, <2>1, <2>3, <2>5, <3>1
      <3>3. height[u] \notin T
        BY <2>2, <3>2
      <3> QED BY <3>1, <3>2, <3>3
    <2> QED BY <1>2, <2>3, <2>4, <2>6
  <1>5. ASSUME NEW t \in Combs PROVE Holds(t)
    <2>1. height[t] \in Nat /\ height[t] \notin T
      BY <1>3, <1>4
    <2> QED BY <2>1
  <1> QED BY <1>5 DEF Holds

\* A request in linear form with an operator is read as it was meant if each of
\* its terms can be read, however long it is, and not at all otherwise: the
\* attempt to read it as a prefix form, which comes first, never succeeds with
\* something else (ParseSearchRequestLimited, parseLegacySearchRequest).
THEOREM LinearUnderstood ==
    ASSUME NEW Combs, NEW height, AreCombs(Combs, height),
           NEW Tokens, NEW encode, IsEncodeLinear(Combs, Tokens, encode),
           NEW parse, IsParsePrefix(Tokens, parse),
           NEW linear, IsLinearRequest(Tokens, linear),
           NEW expr, NEW readable, IsLinearReading(Combs, expr, readable),
           NEW t \in Combs, t.term = "bool"
    PROVE  Parsed(parse, linear, encode[t]) = IF readable[t] THEN expr[t] ELSE Failed
  <1>1. PICK s \in Seq(Tokens) : s = encode[t]
    BY DEF IsEncodeLinear
  <1>2. /\ s # <<>> /\ s[1].term # "bool"
        /\ linear[s] = IF readable[t] THEN expr[t] ELSE Failed
    <2>1. \A u \in Combs :
              /\ encode[u] # <<>> /\ encode[u][1].term # "bool"
              /\ linear[encode[u]] = IF readable[u] THEN expr[u] ELSE Failed
      BY LinearRead
    <2> QED BY ONLY <1>1, <2>1, t \in Combs
  <1>3. PICK n \in Nat : n = Len(s) /\ n > 1
    <2>1. t.left \in Combs
      BY DEF AreCombs, AreTrees
    <2>2. PICK a \in Seq(Tokens) : a = encode[t.left]
      BY <2>1 DEF IsEncodeLinear
    <2>3. s = a \o <<BoolToken(t.op), t.right>>
      BY <1>1, <2>2 DEF IsEncodeLinear
    <2>4. Len(s) = Len(a) + 2
      BY <2>3, TwoMore
    <2> QED BY <2>4
  <1>4. ParsedPrefix(parse, s) = Failed
    <2>1. PICK p : p = parse[s][1][0]
      OBVIOUS
    <2>2. p = ParseStep(parse, s, 1, 0)
      BY <2>1 DEF IsParsePrefix
    <2>3. ~(1 > Len(s))
      BY <1>3
    <2>4. \/ p = [expr |-> Failed, next |-> 1]
          \/ p = [expr |-> Term(s[1], FALSE), next |-> 1 + 1]
      BY ONLY <1>2, <2>2, <2>3 DEF ParseStep
    <2>5. ParsedPrefix(parse, s) = IF p.next = n + 1 THEN p.expr ELSE Failed
      BY <1>3, <2>1 DEF ParsedPrefix
    <2>6. CASE p = [expr |-> Failed, next |-> 1]
      BY ONLY <2>5, <2>6
    <2>7. CASE p = [expr |-> Term(s[1], FALSE), next |-> 1 + 1]
      <3>1. p.next = 1 + 1
        BY ONLY <2>7
      <3>2. 1 + 1 # n + 1
        BY ONLY <1>3, n \in Nat
      <3> QED BY ONLY <2>5, <3>1, <3>2
    <2> QED BY <2>4, <2>6, <2>7
  <1> QED BY ONLY <1>1, <1>2, <1>4 DEF Parsed

\* Numbers that int64 leaves as they are.
SmallNumbers(t) ==
    /\ t.term = "number" => Signed(t.number) = t.number
    /\ t.term = "string" => Signed(MediaLength(t.parts)) = MediaLength(t.parts)

\* A blank keyword is in every name.
LEMMA BlankMatches ==
    ASSUME NEW r, r.name \in Seq(STRING), NEW v, TrimSpace(v) = <<>>
    PROVE  KeywordMatches(r, v)
  <1>1. PICK n \in Nat : n = Len(ToLower(r.name))
    BY LowerString
  <1>2. PICK e : e = ToLower(<<>>)
    OBVIOUS
  <1>3. Len(e) = 0
    <2>1. <<>> \in Seq(STRING) /\ Len(<<>>) = 0
      OBVIOUS
    <2> QED BY ONLY <1>2, <2>1, LowerString
  <1>4. 0 \in 0..n /\ 0 + 0 <= n /\ 1..0 = {}
    BY ONLY n \in Nat
  <1>5. HasSubstring(ToLower(r.name), e)
    BY ONLY <1>1, <1>3, <1>4 DEF HasSubstring
  <1> QED BY <1>2, <1>5 DEF KeywordMatches, NameMatches

LEMMA Comparison ==
    ASSUME NEW left, NEW op \in NumericOps, NEW right
    PROVE  Compare(left, op, right) \in BOOLEAN
  <1>1. op \in {"=", ">", "<", ">=", "<=", "#"}
    BY DEF NumericOps
  <1>2. CASE op = "="
    BY <1>2 DEF Compare
  <1>3. CASE op = ">"
    BY <1>3 DEF Compare
  <1>4. CASE op = "<"
    BY <1>4 DEF Compare
  <1>5. CASE op = ">="
    BY <1>5 DEF Compare
  <1>6. CASE op = "<="
    BY <1>6 DEF Compare
  <1>7. CASE op = "#"
    BY <1>7 DEF Compare
  <1> QED BY <1>1, <1>2, <1>3, <1>4, <1>5, <1>6, <1>7

\* An operator combines matches as it combines the sets of what is matched.
LEMMA OperatorMeant ==
    ASSUME NEW op \in BoolOps, NEW left \in BOOLEAN, NEW right \in BOOLEAN,
           NEW L, NEW R, NEW r, left <=> r \in L, right <=> r \in R
    PROVE  /\ Combine(op, left, right) \in BOOLEAN
           /\ Combine(op, left, right) <=> r \in CombineSets(op, L, R)
  <1>1. op \in {"and", "or", "andnot", "xor", "notand"}
    BY DEF BoolOps
  <1>2. CASE op = "and"
    <2>1. Combine(op, left, right) = (left /\ right) /\ CombineSets(op, L, R) = L \cap R
      BY <1>2 DEF Combine, CombineSets
    <2> QED BY <2>1
  <1>3. CASE op = "or"
    <2>1. Combine(op, left, right) = (left \/ right) /\ CombineSets(op, L, R) = L \cup R
      BY <1>3 DEF Combine, CombineSets
    <2> QED BY <2>1
  <1>4. CASE op = "andnot"
    <2>1. Combine(op, left, right) = (left /\ ~right) /\ CombineSets(op, L, R) = L \ R
      BY <1>4 DEF Combine, CombineSets
    <2> QED BY <2>1
  <1>5. CASE op = "xor"
    <2>1. /\ Combine(op, left, right) = (left # right)
          /\ CombineSets(op, L, R) = (L \ R) \cup (R \ L)
      BY <1>5 DEF Combine, CombineSets
    <2> QED BY <2>1
  <1>6. CASE op = "notand"
    <2>1. Combine(op, left, right) = (~left /\ right) /\ CombineSets(op, L, R) = R \ L
      BY <1>6 DEF Combine, CombineSets
    <2> QED BY <2>1
  <1> QED BY <1>1, <1>2, <1>3, <1>4, <1>5, <1>6

\* What a term is read as matches the records that it denotes.
LEMMA TermMeant ==
    ASSUME NEW t, IsTerm(t), SmallNumbers(t), NEW linear \in BOOLEAN, WellFormed(t, linear),
           NEW rs, NEW r \in rs, r.name \in Seq(STRING)
    PROVE  /\ Term(t, linear).kind # "bool"
           /\ TermMatches(Term(t, linear), r) \in BOOLEAN
           /\ TermMatches(Term(t, linear), r) <=> r \in TermDenotes(t, rs)
  <1> DEFINE e == Term(t, linear)
  <1>1. CASE t.term = "keyword"
    <2>1. t.term # "string" /\ t.term # "number"
      BY <1>1
    <2>2. e = KeywordExpr(t.value)
      BY <1>1, <2>1, Zenon DEF Term
    <2>3. TermDenotes(t, rs) = {x \in rs : KeywordMatches(x, t.value)}
      BY <1>1, <2>1, Zenon DEF TermDenotes
    <2> HIDE DEF e
    <2>4. CASE TrimSpace(t.value) = <<>>
      <3>1. e.kind = "all"
        BY <2>2, <2>4 DEF KeywordExpr, MatchAll
      <3>2. TermMatches(e, r) = TRUE
        BY <3>1, Zenon DEF TermMatches
      <3>3. KeywordMatches(r, t.value)
        BY <2>4, BlankMatches
      <3> QED BY <2>3, <3>1, <3>2, <3>3 DEF e
    <2>5. CASE TrimSpace(t.value) # <<>>
      <3>1. e.kind = "keyword" /\ e.value = TrimSpace(t.value)
        BY <2>2, <2>5 DEF KeywordExpr
      <3>2. e.kind # "all" /\ e.kind # "none" /\ e.kind # "string" /\ e.kind # "number"
        BY <3>1
      <3>3. TermMatches(e, r) = KeywordMatches(r, e.value)
        BY <3>1, <3>2, Zenon DEF TermMatches
      <3>4. t.value \in Seq(STRING)
        BY <1>1 DEF IsTerm
      <3>5. KeywordMatches(r, e.value) <=> KeywordMatches(r, t.value)
        <4>1. TrimSpace(e.value) = TrimSpace(t.value)
          BY <3>1, <3>4, TrimmedTwice
        <4> QED BY <4>1, Zenon DEF KeywordMatches, NameMatches, HashMatches
      <3>6. KeywordMatches(r, e.value) \in BOOLEAN
        BY Zenon DEF KeywordMatches
      <3> QED BY <2>3, <3>1, <3>3, <3>5, <3>6 DEF e
    <2> QED BY <2>4, <2>5
  <1>2. CASE t.term = "string"
    <2>1. t.term # "bool" /\ t.term # "broken" /\ t.term # "keyword" /\ t.term # "number"
      BY <1>2
    <2>2. /\ linear => t.tag.by = "id"
          /\ TrimSpace(t.value) # <<>> =>
                /\ t.tag.name \in StringTags(t.tag.by)
                /\ t.tag.name = "length" => ValidLength(t.parts)
      BY <1>2, <2>1, Zenon DEF WellFormed
    <2>3. e = StringExpr(t.value, t.parts, t.tag)
      BY <1>2, <2>1, <2>2, Zenon DEF Term
    <2>4. TermDenotes(t, rs) =
              {x \in rs : \/ TrimSpace(t.value) = <<>>
                          \/ IF t.tag.name = "length" THEN x.num["length"] = MediaLength(t.parts)
                             ELSE StringMatches(x, t.tag.name, TrimSpace(t.value))}
      BY <1>2, <2>1, Zenon DEF TermDenotes
    <2> HIDE DEF e
    <2>5. CASE TrimSpace(t.value) = <<>>
      <3>1. e.kind = "all"
        BY <2>3, <2>5 DEF StringExpr, MatchAll
      <3>2. TermMatches(e, r) = TRUE
        BY <3>1, Zenon DEF TermMatches
      <3> QED BY <2>4, <2>5, <3>1, <3>2 DEF e
    <2>6. CASE TrimSpace(t.value) # <<>> /\ t.tag.name # "length"
      <3>1. e.kind = "string" /\ e.tag = t.tag.name /\ e.value = TrimSpace(t.value)
        BY <2>2, <2>3, <2>6 DEF StringExpr
      <3>2. e.kind # "all" /\ e.kind # "none" /\ e.kind # "keyword" /\ e.kind # "number"
        BY <3>1
      <3>3. TermMatches(e, r) = StringMatches(r, e.tag, e.value)
        BY <3>1, <3>2, Zenon DEF TermMatches
      <3>4. StringMatches(r, e.tag, e.value) \in BOOLEAN
        BY Zenon DEF StringMatches, EqualFold
      <3> QED BY <2>4, <2>6, <3>1, <3>3, <3>4 DEF e
    <2>7. CASE TrimSpace(t.value) # <<>> /\ t.tag.name = "length"
      <3>1. e.kind = "number" /\ e.tag = "length" /\ e.op = "=" /\ e.number = MediaLength(t.parts)
        BY <2>2, <2>3, <2>7 DEF StringExpr
      <3>2. e.kind # "all" /\ e.kind # "none" /\ e.kind # "keyword" /\ e.kind # "string"
        BY <3>1
      <3>3. TermMatches(e, r) = Compare(r.num[e.tag], e.op, Signed(e.number))
        BY <3>1, <3>2, Zenon DEF TermMatches
      <3>4. Signed(MediaLength(t.parts)) = MediaLength(t.parts)
        BY <1>2 DEF SmallNumbers
      <3>5. Compare(r.num["length"], "=", MediaLength(t.parts)) <=>
                r.num["length"] = MediaLength(t.parts)
        BY Zenon DEF Compare
      <3>6. Compare(r.num["length"], "=", MediaLength(t.parts)) \in BOOLEAN
        BY Comparison DEF NumericOps
      <3> QED BY <2>4, <2>7, <3>1, <3>3, <3>4, <3>5, <3>6 DEF e
    <2> QED BY <2>5, <2>6, <2>7
  <1>3. CASE t.term = "number"
    <2>1. t.term # "bool" /\ t.term # "broken" /\ t.term # "keyword" /\ t.term # "string"
      BY <1>3
    <2>2. /\ linear => t.tag.by = "id"
          /\ t.op \in NumericOps /\ t.tag.name \in NumericTags(t.tag.by)
      BY <1>3, <2>1, Zenon DEF WellFormed
    <2>3. e = NumberExpr(t.number, t.op, t.tag)
      BY <1>3, <2>1, <2>2, Zenon DEF Term
    <2>4. TermDenotes(t, rs) = {x \in rs : Compare(x.num[t.tag.name], t.op, t.number)}
      BY <1>3, <2>1, Zenon DEF TermDenotes
    <2> HIDE DEF e
    <2>5. e.kind = "number" /\ e.tag = t.tag.name /\ e.op = t.op /\ e.number = t.number
      BY <2>2, <2>3 DEF NumberExpr
    <2>6. e.kind # "all" /\ e.kind # "none" /\ e.kind # "keyword" /\ e.kind # "string"
      BY <2>5
    <2>7. TermMatches(e, r) = Compare(r.num[e.tag], e.op, Signed(e.number))
      BY <2>5, <2>6, Zenon DEF TermMatches
    <2>8. Signed(t.number) = t.number
      BY <1>3 DEF SmallNumbers
    <2>9. Compare(r.num[t.tag.name], t.op, t.number) \in BOOLEAN
      BY <2>2, Comparison
    <2> QED BY <2>4, <2>5, <2>7, <2>8, <2>9 DEF e
  <1>4. CASE t.term = "broken"
    <2>1. t.term # "bool" /\ t.term # "keyword" /\ t.term # "string" /\ t.term # "number"
      BY <1>4
    <2> QED BY <1>4, <2>1, Zenon DEF WellFormed
  <1> QED BY <1>1, <1>2, <1>3, <1>4 DEF IsTerm

\* The equation of Denotes: those of the records that a tree denotes.
IsDenotes(Trees, Records, denotes) ==
    \A t \in Trees :
        denotes[t] = IF t.term = "bool" THEN CombineSets(t.op, denotes[t.left], denotes[t.right])
                     ELSE TermDenotes(t, Records)

\* Together with the two theorems before: the expression that a request is read
\* as, of any size and in either form, matches exactly the records that the request
\* denotes, as long as its numbers are below 2^63 (makeKeywordExpr, makeStringTagExpr,
\* makeNumericTagExpr, and the match methods).
THEOREM MatchedAsMeant ==
    ASSUME NEW Trees, NEW height, AreTrees(Trees, height), \A t \in Trees : SmallNumbers(t),
           NEW expr, NEW readable,
           IsPrefixReading(Trees, expr, readable) \/ IsLinearReading(Trees, expr, readable),
           NEW Records, \A r \in Records : r.name \in Seq(STRING),
           NEW Exprs, \A t \in Trees : readable[t] => expr[t] \in Exprs,
           NEW match, IsMatch(Exprs, Records, match),
           NEW denotes, IsDenotes(Trees, Records, denotes)
    PROVE  \A t \in Trees : readable[t] =>
               \A r \in Records : match[expr[t]][r] <=> r \in denotes[t]
  <1> DEFINE Holds(t) ==
                 readable[t] => \A r \in Records :
                     match[expr[t]][r] \in BOOLEAN /\ (match[expr[t]][r] <=> r \in denotes[t])
             T == {n \in Nat : \E t \in Trees : height[t] = n /\ ~Holds(t)}
  <1>1. ASSUME NEW t \in Trees, t.term # "bool" PROVE Holds(t)
    <2> SUFFICES ASSUME readable[t], NEW r \in Records
                 PROVE  match[expr[t]][r] \in BOOLEAN /\ (match[expr[t]][r] <=> r \in denotes[t])
      OBVIOUS
    <2>1. IsTerm(t)
      BY <1>1 DEF AreTrees
    <2>2. /\ expr[t] \in Exprs
          /\ \E linear \in BOOLEAN : WellFormed(t, linear) /\ expr[t] = Term(t, linear)
      BY <1>1 DEF IsPrefixReading, IsLinearReading
    <2>3. PICK linear \in BOOLEAN : WellFormed(t, linear) /\ expr[t] = Term(t, linear)
      BY <2>2
    <2> DEFINE e == expr[t]
    <2>4. /\ e.kind # "bool" /\ TermMatches(e, r) \in BOOLEAN
          /\ TermMatches(e, r) <=> r \in TermDenotes(t, Records)
      BY <2>1, <2>2, <2>3, TermMeant
    <2>5. match[e][r] = TermMatches(e, r)
      BY <2>2, <2>3, <2>4 DEF IsMatch
    <2>6. denotes[t] = TermDenotes(t, Records)
      BY <1>1 DEF IsDenotes
    <2> QED BY ONLY <2>2, <2>3, <2>4, <2>5, <2>6
  <1>2. ASSUME NEW t \in Trees, t.term = "bool", Holds(t.left), Holds(t.right) PROVE Holds(t)
    <2> SUFFICES ASSUME readable[t], NEW r \in Records
                 PROVE  match[expr[t]][r] \in BOOLEAN /\ (match[expr[t]][r] <=> r \in denotes[t])
      OBVIOUS
    <2>1. /\ expr[t] = Compound(t.op, expr[t.left], expr[t.right]) /\ expr[t] \in Exprs
          /\ t.op \in BoolOps /\ readable[t.left] /\ readable[t.right]
      BY <1>2 DEF IsPrefixReading, IsLinearReading, AreCompounds
    <2>2. PICK a, b : a = match[expr[t.left]][r] /\ b = match[expr[t.right]][r]
      OBVIOUS
    <2>3. /\ a \in BOOLEAN /\ (a <=> r \in denotes[t.left])
          /\ b \in BOOLEAN /\ (b <=> r \in denotes[t.right])
      BY <1>2, <2>1, <2>2
    <2>4. PICK e : e = expr[t]
      OBVIOUS
    <2>5. /\ e.kind = "bool" /\ e.op = t.op
          /\ e.left = expr[t.left] /\ e.right = expr[t.right]
      BY ONLY <2>1, <2>4 DEF Compound
    <2>6. match[e][r] = Combine(e.op, match[e.left][r], match[e.right][r])
      BY <2>1, <2>4, <2>5 DEF IsMatch
    <2>7. denotes[t] = CombineSets(t.op, denotes[t.left], denotes[t.right])
      BY <1>2 DEF IsDenotes
    <2>8. /\ Combine(t.op, a, b) \in BOOLEAN
          /\ Combine(t.op, a, b) <=> r \in CombineSets(t.op, denotes[t.left], denotes[t.right])
      BY ONLY <2>1, <2>3, OperatorMeant
    <2> QED BY ONLY <2>2, <2>4, <2>5, <2>6, <2>7, <2>8
  <1> HIDE DEF Holds
  <1>3. height \in [Trees -> Nat]
    BY DEF AreTrees
  <1>4. T = {}
    <2> SUFFICES ASSUME T # {} PROVE FALSE
      OBVIOUS
    <2>1. T \subseteq Nat
      OBVIOUS
    <2>2. PICK n \in T : \A m \in T : n <= m
      <3> HIDE DEF T
      <3> QED BY <2>1, LeastNat
    <2>3. PICK t \in Trees : height[t] = n /\ ~Holds(t)
      BY <2>2
    <2>4. t.term = "bool"
      BY <1>1, <2>3
    <2>5. /\ t.left \in Trees /\ height[t.left] < height[t]
          /\ t.right \in Trees /\ height[t.right] < height[t]
      BY <2>4 DEF AreTrees
    <2>6. ASSUME NEW u \in Trees, height[u] < height[t] PROVE Holds(u)
      <3>1. height[u] \in Nat /\ n \in Nat /\ ~(n <= height[u])
        BY <1>3, <2>1, <2>3, <2>6
      <3>2. height[u] \notin T
        BY <2>2, <3>1
      <3> QED BY <3>1, <3>2
    <2> QED BY <1>2, <2>3, <2>4, <2>5, <2>6
  <1>5. ASSUME NEW t \in Trees PROVE Holds(t)
    <2>1. height[t] \in Nat /\ height[t] \notin T
      BY <1>3, <1>4
    <2> QED BY <2>1
  <1> QED BY <1>5 DEF Holds
=============================================================================
