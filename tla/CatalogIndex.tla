---------------------------- MODULE CatalogIndex ----------------------------
(***************************************************************************)
(* The catalog in memory (ed2ksrv/catalog.go): the list of file records,   *)
(* the map from a hash to its record, and the index from the trigrams of a *)
(* name to the files that bear it.  The three are changed together, under  *)
(* Catalog.mu, by Upsert and Delete, after ReplaceAll has filled them once;  *)
(* Search reads the list and the index, Get reads the map.                 *)
(***************************************************************************)
EXTENDS Text, FiniteSets

CONSTANTS
    Hashes,        \* file hashes
    ZeroHash,      \* the hash of a record that has none
    NoRecord,      \* byHash has no entry
    BadEndpoint,   \* an endpoint that EndpointFromString refuses
    RawRecords,    \* the records admin requests may carry
    Loads,         \* the lists a store may hold
    MaxFiles       \* bound: length of the list of files

ASSUME HashAssumption == ZeroHash \notin Hashes
ASSUME MaxFilesAssumption == MaxFiles \in Nat

VARIABLES
    files,      \* Catalog.files
    byHash,     \* Catalog.byHash
    triIndex    \* Catalog.triIndex: trigram -> positions in files

catalog == <<files, byHash, triIndex>>

----------------------------------------------------------------------------
(* normalizeFileRecord.                                                    *)

\* What the record is refused for.
Valid(r) ==
    /\ r.hash # ZeroHash
    /\ TrimSpace(r.name) # <<>>
    /\ r.num["size"] > 0
    /\ \A i \in DOMAIN r.endpoints : r.endpoints[i] # BadEndpoint

\* Blanks go, and the counts that are missing are taken from the endpoints.
Normalize(r) ==
    LET sources == IF r.num["sources"] <= 0 THEN Len(r.endpoints) ELSE r.num["sources"]
        complete == IF r.num["complete"] <= 0 THEN sources ELSE r.num["complete"] IN
    [r EXCEPT !.name = TrimSpace(@),
              !.str = [t \in DOMAIN @ |-> TrimSpace(@[t])],
              !.num = [@ EXCEPT !["sources"] = sources, !["complete"] = complete]]

\* Everything a request or a store holds is a record with a hash and a name.
ASSUME RecordAssumption ==
    LET Records == RawRecords \cup UNION {{list[i] : i \in DOMAIN list} : list \in Loads} IN
    /\ \A r \in Records :
          /\ {"hash", "name"} \subseteq DOMAIN r
          /\ r.hash \in Hashes \cup {ZeroHash}
          /\ r.name \in Seq(STRING)
          /\ Normalize(r) # NoRecord
    /\ Loads \subseteq Seq(Records)

----------------------------------------------------------------------------
(* The index of trigrams.                                                  *)

\* uniqueTrigrams: the substrings of three characters.
Trigrams(s) == {SubSeq(s, i, i + 2) : i \in {k \in DOMAIN s : k + 2 <= Len(s)}}

\* rebuildSearchIndexLocked: for each trigram of a name, the files that have it.
BuildIndex(fs) ==
    [g \in UNION {Trigrams(ToLower(fs[i].name)) : i \in DOMAIN fs} |->
        {i \in DOMAIN fs : g \in Trigrams(ToLower(fs[i].name))}]

\* The files that have all the trigrams; none has one that is not in the index.
Intersection(grams) ==
    IF grams \subseteq DOMAIN triIndex
    THEN {i \in DOMAIN files : \A g \in grams : i \in triIndex[g]}
    ELSE {}

\* The longest of the keys at the positions ps, the first of them if there are more.
Longest(keys, ps) == keys[CHOOSE i \in ps :
    /\ \A j \in ps : Len(keys[j]) <= Len(keys[i])
    /\ \A j \in ps : j < i => Len(keys[j]) < Len(keys[i])]

\* searchCandidatesLocked: the positions worth a look for a query with these
\* keywords, which are all required if it is summarized.
Candidates(summarized, keywords) ==
    LET keys == [i \in DOMAIN keywords |-> ToLower(TrimSpace(keywords[i]))]
        long == {i \in DOMAIN keys : Len(keys[i]) >= 3} IN
    IF ~summarized \/ DOMAIN triIndex = {} \/ long = {} THEN DOMAIN files
    ELSE Intersection(Trigrams(Longest(keys, long)))

----------------------------------------------------------------------------
(* Changes of the catalog.                                                 *)

Position(hash) == CHOOSE i \in DOMAIN files :
    files[i].hash = hash /\ \A j \in 1..(i - 1) : files[j].hash # hash

Without(i) == SubSeq(files, 1, i - 1) \o SubSeq(files, i + 1, Len(files))

\* (A mutant: the index is not rebuilt when a record is replaced or removed.)
SetFilesMutant(fs) ==
    /\ files' = fs
    /\ triIndex' = IF Len(fs) > Len(files) THEN BuildIndex(fs) ELSE triIndex

\* The new list, and the index built from it.
SetFiles(fs) == files' = fs /\ triIndex' = BuildIndex(fs)

\* The record the map keeps of a list: the last one of the hash.
LastOf(hash, fs) ==
    IF \E i \in DOMAIN fs : fs[i].hash = hash
    THEN fs[CHOOSE i \in DOMAIN fs :
                fs[i].hash = hash /\ \A j \in DOMAIN fs : j > i => fs[j].hash # hash]
    ELSE NoRecord

\* Upsert: the record takes the place of the first of its hash, or the end.
Upsert(raw) ==
    LET r == Normalize(raw) IN
    /\ Valid(raw)
    /\ \/ /\ byHash[r.hash] # NoRecord
          /\ SetFiles(IF \E i \in DOMAIN files : files[i].hash = r.hash
                      THEN [files EXCEPT ![Position(r.hash)] = r] ELSE files)
       \/ /\ byHash[r.hash] = NoRecord
          /\ Len(files) < MaxFiles
          /\ SetFiles(Append(files, r))
    /\ byHash' = [byHash EXCEPT ![r.hash] = r]

\* Delete: the map's entry goes, and the first record of the hash.
Delete(hash) ==
    /\ byHash[hash] # NoRecord
    /\ byHash' = [byHash EXCEPT ![hash] = NoRecord]
    /\ SetFiles(IF \E i \in DOMAIN files : files[i].hash = hash
                THEN Without(Position(hash)) ELSE files)

\* ReplaceAll, which fills a new catalog (LoadCatalog, NewCatalog): every record
\* of the list or, if one is refused, no catalog at all.
InitCatalog ==
    \E list \in Loads :
        LET fs == [i \in DOMAIN list |-> Normalize(list[i])] IN
        /\ \A i \in DOMAIN list : Valid(list[i])
        /\ files = fs
        /\ triIndex = BuildIndex(fs)
        /\ byHash = [h \in Hashes |-> LastOf(h, fs)]

ChangeCatalog == (\E r \in RawRecords : Upsert(r)) \/ (\E h \in Hashes : Delete(h))

CatalogSpec == InitCatalog /\ [][ChangeCatalog]_catalog

----------------------------------------------------------------------------
(* Properties.                                                             *)

\* The list, the map and the index agree after any sequence of changes, so a
\* file that a search finds can be looked up and deleted by its hash and no
\* deleted file is found, as long as the stores hold each hash once.
CatalogCoherent ==
    /\ \A i \in DOMAIN files : byHash[files[i].hash] = files[i]
    /\ \A h \in Hashes : byHash[h] # NoRecord =>
          Cardinality({i \in DOMAIN files : files[i].hash = h}) = 1
    /\ triIndex = BuildIndex(files)
=============================================================================
