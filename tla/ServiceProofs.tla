--------------------------- MODULE ServiceProofs ----------------------------
(***************************************************************************)
(* Theorems about Service: how udpDatagramWriter packs replies, for blocks *)
(* of any lengths, any number of workers and any limits, while the server  *)
(* starts, serves and stops.                                               *)
(***************************************************************************)
EXTENDS Service, FiniteSetTheorems, TLAPS

----------------------------------------------------------------------------
(* One reply.                                                              *)

\* Where the last datagram that was sent ends.
SentTo(j) == IF j.sent = <<>> THEN 0 ELSE j.sent[Len(j.sent)][2]

JobType ==
    [request : Requests \cup {None}, ends : Seq(Nat \ {0}), added : Nat, from : Nat,
     sent : Seq(Nat \X Nat), whole : BOOLEAN]

\* The datagrams follow each other, and each fits.
InOrder(j) ==
    \A i \in DOMAIN j.sent :
        /\ j.sent[i][1] = IF i = 1 THEN 0 ELSE j.sent[i - 1][2]
        /\ j.sent[i][1] < j.sent[i][2]
        /\ Fits(j.ends, j.sent[i][1], j.sent[i][2])

\* What was sent so far no way of cutting the reply sends with fewer cuts.
NoCutIsAhead(j) ==
    \A cut \in Cuts(j.ends) : Len(j.sent) <= Cardinality({x \in cut : x <= j.from})

\* A reply that is being put together.
Packing(j) ==
    /\ j.from <= j.added /\ j.added <= Len(j.ends)
    /\ InOrder(j)
    /\ SentTo(j) = j.from
    /\ j.from < j.added => Fits(j.ends, j.from, j.added)
    /\ NoCutIsAhead(j)

\* A reply that was sent.
Packed(j) ==
    /\ InOrder(j)
    /\ SentTo(j) <= Len(j.ends)
    /\ j.whole =>
          /\ SentTo(j) = Len(j.ends)
          /\ \A cut \in Cuts(j.ends) : Len(j.sent) <= Cardinality(cut) + 1

LEMMA CutsFinite ==
    ASSUME NEW ends \in Seq(Nat \ {0}), NEW cut \in Cuts(ends), NEW n \in Nat
    PROVE  /\ cut \subseteq Nat
           /\ IsFiniteSet(cut) /\ Cardinality(cut) \in Nat
           /\ IsFiniteSet({x \in cut : x <= n})
           /\ Cardinality({x \in cut : x <= n}) \in Nat
           /\ Cardinality({x \in cut : x <= n}) <= Cardinality(cut)
  <1>1. cut \subseteq 1..(Len(ends) - 1)
    BY DEF Cuts
  <1>2. IsFiniteSet(1..(Len(ends) - 1))
    BY FS_Interval
  <1>3. IsFiniteSet(cut)
    BY <1>1, <1>2, FS_Subset
  <1>4. {x \in cut : x <= n} \subseteq cut
    OBVIOUS
  <1> QED BY <1>1, <1>3, <1>4, FS_Subset, FS_CardinalityType

\* A longer beginning has one cut more if there is one in between.
LEMMA OneCutMore ==
    ASSUME NEW ends \in Seq(Nat \ {0}), NEW cut \in Cuts(ends),
           NEW i \in Nat, NEW k \in Nat, NEW x \in cut, i < x, x <= k
    PROVE  Cardinality({y \in cut : y <= i}) + 1 <= Cardinality({y \in cut : y <= k})
  <1> DEFINE A == {y \in cut : y <= i}
             B == {y \in cut : y <= k}
  <1>1. /\ IsFiniteSet(A) /\ IsFiniteSet(B) /\ cut \subseteq Nat
        /\ Cardinality(A) \in Nat /\ Cardinality(B) \in Nat
    BY CutsFinite
  <1>2. x \notin A /\ A \cup {x} \subseteq B
    <2>1. x \in Nat
      BY <1>1
    <2>2. ~(x <= i)
      BY <2>1
    <2>3. \A y \in cut : y <= i => y <= k
      BY <1>1, <2>1
    <2> QED BY <2>2, <2>3
  <1> HIDE DEF A, B
  <1>3. IsFiniteSet(A \cup {x}) /\ Cardinality(A \cup {x}) = Cardinality(A) + 1
    BY <1>1, <1>2, FS_AddElement
  <1>4. Cardinality(A \cup {x}) <= Cardinality(B)
    BY <1>1, <1>2, <1>3, FS_Subset
  <1>5. Cardinality(A) + 1 <= Cardinality(B)
    BY <1>3, <1>4
  <1> QED BY <1>5 DEF A, B

LEMMA AppendFacts ==
    ASSUME NEW S, NEW s \in Seq(S), NEW e \in S
    PROVE  /\ Append(s, e) \in Seq(S) /\ Append(s, e) # <<>>
           /\ Len(Append(s, e)) = Len(s) + 1
           /\ DOMAIN Append(s, e) = 1..(Len(s) + 1)
           /\ Append(s, e)[Len(s) + 1] = e
           /\ \A i \in 1..Len(s) : Append(s, e)[i] = s[i]
  OBVIOUS

LEMMA BytesInt ==
    ASSUME NEW ends \in Seq(Nat \ {0}), NEW i \in Nat, NEW k \in Nat,
           i < k, k <= Len(ends)
    PROVE  Bytes(ends, i, k) \in Int
  <1>1. k \in DOMAIN ends /\ (i # 0 => i \in DOMAIN ends)
    OBVIOUS
  <1>2. ends[k] \in Nat /\ (i # 0 => ends[i] \in Nat)
    BY <1>1
  <1> QED BY <1>2 DEF Bytes

\* The buffer goes out: the datagrams still follow each other.
LEMMA SendKeepsOrder ==
    ASSUME NEW j \in JobType, InOrder(j), SentTo(j) = j.from, j.from < j.added,
           Fits(j.ends, j.from, j.added),
           NEW k \in JobType, k.ends = j.ends, k.sent = Sent(j)
    PROVE  /\ InOrder(k)
           /\ SentTo(k) = j.added
           /\ Len(k.sent) = Len(j.sent) + 1
  <1> DEFINE n == Len(j.sent)
             d == <<j.from, j.added>>
  <1>1. j.sent \in Seq(Nat \X Nat) /\ n \in Nat /\ DOMAIN j.sent = 1..n /\ d \in Nat \X Nat
    BY DEF JobType
  <1>2. k.sent = Append(j.sent, d)
    BY DEF Sent
  <1>3. d[1] = j.from /\ d[2] = j.added
    OBVIOUS
  <1> HIDE DEF d
  <1>4. /\ Len(k.sent) = n + 1 /\ DOMAIN k.sent = 1..(n + 1)
        /\ k.sent[n + 1] = d
        /\ \A i \in 1..n : k.sent[i] = j.sent[i]
        /\ k.sent # <<>>
    <2>1. /\ Append(j.sent, d) # <<>>
          /\ Len(Append(j.sent, d)) = Len(j.sent) + 1
          /\ DOMAIN Append(j.sent, d) = 1..(Len(j.sent) + 1)
          /\ Append(j.sent, d)[Len(j.sent) + 1] = d
          /\ \A i \in 1..Len(j.sent) : Append(j.sent, d)[i] = j.sent[i]
      <3> DEFINE T == Nat \X Nat
                 s == j.sent
      <3>1. s \in Seq(T) /\ d \in T
        BY <1>1
      <3> HIDE DEF T, s
      <3>2. /\ Append(s, d) # <<>>
            /\ Len(Append(s, d)) = Len(s) + 1
            /\ DOMAIN Append(s, d) = 1..(Len(s) + 1)
            /\ Append(s, d)[Len(s) + 1] = d
            /\ \A i \in 1..Len(s) : Append(s, d)[i] = s[i]
        BY ONLY <3>1, AppendFacts
      <3> QED BY <3>2 DEF s
    <2> QED BY <1>2, <2>1
  <1>5. SentTo(k) = j.added
    BY <1>3, <1>4 DEF SentTo
  <1>6. j.from = IF n = 0 THEN 0 ELSE j.sent[n][2]
    BY <1>1 DEF SentTo
  <1> HIDE DEF n
  <1>7. ASSUME NEW i \in 1..(n + 1)
        PROVE  /\ k.sent[i][1] = IF i = 1 THEN 0 ELSE k.sent[i - 1][2]
               /\ k.sent[i][1] < k.sent[i][2]
               /\ Fits(k.ends, k.sent[i][1], k.sent[i][2])
    <2>1. CASE i \in 1..n
      <3>1. k.sent[i] = j.sent[i] /\ (i # 1 => k.sent[i - 1] = j.sent[i - 1])
        BY <2>1, <1>1, <1>4, SMTT(30)
      <3> QED BY <2>1, <3>1, <1>1 DEF InOrder
    <2>2. CASE i = n + 1
      <3>1. k.sent[i] = d /\ (i # 1 => k.sent[i - 1] = j.sent[n])
        BY <2>2, <1>1, <1>4
      <3>2. i = 1 <=> n = 0
        BY <2>2, <1>1
      <3> QED BY <3>1, <3>2, <1>3, <1>6
    <2> QED BY <2>1, <2>2, <1>1
  <1>8. InOrder(k)
    BY <1>4, <1>7 DEF InOrder
  <1> QED BY <1>4, <1>5, <1>8 DEF n

\* add keeps it: a full buffer is one that every cutting of the reply cuts.
LEMMA AddKeeps ==
    ASSUME NEW j \in JobType, Packing(j), j.added < Len(j.ends),
           NEW k, k = [j EXCEPT !.added = j.added + 1,
                                !.from = IF Full(j) THEN j.added ELSE j.from,
                                !.sent = IF Full(j) THEN Sent(j) ELSE j.sent]
    PROVE  k \in JobType /\ Packing(k)
  <1>1. /\ j.added \in Nat /\ j.from \in Nat /\ j.ends \in Seq(Nat \ {0})
        /\ Len(j.ends) \in Nat /\ j.sent \in Seq(Nat \X Nat) /\ Len(j.sent) \in Nat
    BY DEF JobType
  <1>2. Sent(j) \in Seq(Nat \X Nat)
    BY <1>1 DEF Sent
  <1>3. k \in JobType
    <2>1. /\ j.added + 1 \in Nat
          /\ (IF Full(j) THEN j.added ELSE j.from) \in Nat
          /\ (IF Full(j) THEN Sent(j) ELSE j.sent) \in Seq(Nat \X Nat)
      BY <1>1, <1>2
    <2> QED BY <2>1 DEF JobType
  <1>4. /\ k.ends = j.ends /\ k.added = j.added + 1
        /\ k.from = IF Full(j) THEN j.added ELSE j.from
        /\ k.sent = IF Full(j) THEN Sent(j) ELSE j.sent
    BY DEF JobType
  <1>5. k.from <= k.added /\ k.added <= Len(k.ends)
    BY <1>1, <1>4 DEF Packing
  <1>6. j.added + 1 \in Nat /\ j.from < j.added + 1 /\ j.added + 1 <= Len(j.ends)
        /\ j.ends \in Seq(Nat \ {0}) /\ j.from \in Nat
    BY <1>1 DEF Packing
  <1>7. CASE Full(j)
    <2>1. j.from < j.added /\ Bytes(j.ends, j.from, j.added + 1) > MaxPayload
      BY <1>7 DEF Full
    <2>2. InOrder(k) /\ SentTo(k) = k.from /\ Len(k.sent) = Len(j.sent) + 1
      BY <1>3, <1>4, <1>7, <2>1, SendKeepsOrder DEF Packing
    <2>3. Fits(k.ends, k.from, k.added)
      BY <1>1, <1>4, <1>7 DEF Fits
    <2>4. ASSUME NEW cut \in Cuts(j.ends)
          PROVE  Len(k.sent) <= Cardinality({x \in cut : x <= k.from})
      <3>1. /\ ~Fits(j.ends, j.from, j.added + 1)
            /\ j.from \in 0..Len(j.ends) /\ j.added + 1 \in 0..Len(j.ends)
            /\ j.from < j.added + 1
        <4>1. Bytes(j.ends, j.from, j.added + 1) \in Int
          BY <1>6, BytesInt
        <4>2. ~(Bytes(j.ends, j.from, j.added + 1) <= MaxPayload)
          BY <2>1, <4>1, LimitAssumption
        <4> QED BY <2>1, <4>2, <1>1 DEF Fits, Packing
      <3>2. PICK x \in cut : j.from < x /\ x < j.added + 1
        BY <3>1 DEF Cuts
      <3>3. x \in Nat
        BY <1>1, CutsFinite
      <3>4. x <= j.added
        BY <3>2, <3>3, <1>1
      <3>5. Cardinality({y \in cut : y <= j.from}) + 1 <= Cardinality({y \in cut : y <= j.added})
        BY <1>1, <3>2, <3>4, OneCutMore
      <3>6. Len(j.sent) <= Cardinality({y \in cut : y <= j.from})
        BY DEF Packing, NoCutIsAhead
      <3>7. /\ Cardinality({y \in cut : y <= j.from}) \in Nat
            /\ Cardinality({y \in cut : y <= j.added}) \in Nat
        BY <1>1, CutsFinite
      <3>8. Len(j.sent) + 1 <= Cardinality({y \in cut : y <= j.added})
        BY <3>5, <3>6, <3>7, <1>1
      <3> QED BY <3>8, <2>2, <1>4, <1>7
    <2> QED BY <1>3, <1>4, <1>5, <2>2, <2>3, <2>4 DEF Packing, NoCutIsAhead
  <1>8. CASE ~Full(j)
    <2>1. k.from = j.from /\ k.sent = j.sent
      BY <1>4, <1>8
    <2>2. InOrder(k) /\ SentTo(k) = k.from /\ NoCutIsAhead(k)
      BY <1>4, <2>1 DEF Packing, InOrder, SentTo, NoCutIsAhead
    <2>3. Fits(k.ends, k.from, k.added)
      <3>1. CASE j.from < j.added
        <4>1. ~(Bytes(j.ends, j.from, j.added + 1) > MaxPayload)
          BY <3>1, <1>8 DEF Full
        <4>2. Bytes(j.ends, j.from, j.added + 1) \in Int
          BY <1>6, BytesInt
        <4> QED BY <4>1, <4>2, <1>4, <2>1, LimitAssumption DEF Fits
      <3>2. CASE ~(j.from < j.added)
        <4>1. j.from = j.added
          BY <3>2, <1>1 DEF Packing
        <4> QED BY <4>1, <1>4, <2>1 DEF Fits
      <3> QED BY <3>1, <3>2
    <2> QED BY <1>3, <1>5, <2>2, <2>3 DEF Packing
  <1> QED BY <1>7, <1>8

\* The last flush, or none for a request that was broken off.
LEMMA FlushPacks ==
    ASSUME NEW j \in JobType, Packing(j), j.added = Len(j.ends),
           NEW k, k = [j EXCEPT !.from = j.added,
                                !.sent = IF j.whole THEN Sent(j) ELSE j.sent]
    PROVE  k \in JobType /\ Packed(k)
  <1>1. /\ j.added \in Nat /\ j.from \in Nat /\ j.ends \in Seq(Nat \ {0})
        /\ Len(j.ends) \in Nat /\ j.sent \in Seq(Nat \X Nat) /\ Len(j.sent) \in Nat
        /\ j.from <= j.added
    BY DEF JobType, Packing
  <1>2. Sent(j) \in Seq(Nat \X Nat)
    BY <1>1 DEF Sent
  <1>3. k \in JobType
    BY <1>1, <1>2 DEF JobType
  <1>4. /\ k.ends = j.ends /\ k.whole = j.whole
        /\ k.sent = IF j.whole THEN Sent(j) ELSE j.sent
    BY DEF JobType
  <1>5. ASSUME NEW cut \in Cuts(j.ends)
        PROVE  Len(j.sent) <= Cardinality(cut) /\ Cardinality(cut) \in Nat
    <2>1. Len(j.sent) <= Cardinality({y \in cut : y <= j.from})
      BY DEF Packing, NoCutIsAhead
    <2>2. /\ Cardinality({y \in cut : y <= j.from}) \in Nat /\ Cardinality(cut) \in Nat
          /\ Cardinality({y \in cut : y <= j.from}) <= Cardinality(cut)
      BY <1>1, CutsFinite
    <2> QED BY <2>1, <2>2, <1>1
  <1>6. CASE j.whole /\ j.from < j.added
    <2>1. k.sent = Sent(j)
      BY <1>4, <1>6
    <2>2. InOrder(k) /\ SentTo(k) = j.added /\ Len(k.sent) = Len(j.sent) + 1
      BY <1>3, <1>4, <1>6, <2>1, SendKeepsOrder DEF Packing
    <2>3. \A cut \in Cuts(k.ends) : Len(k.sent) <= Cardinality(cut) + 1
      BY <2>2, <1>1, <1>4, <1>5
    <2> QED BY <2>2, <2>3, <1>1, <1>3, <1>4 DEF Packed
  <1>7. CASE ~(j.whole /\ j.from < j.added)
    <2>1. k.sent = j.sent
      BY <1>4, <1>7 DEF Sent
    <2>2. InOrder(k) /\ SentTo(k) = j.from
      BY <1>4, <2>1 DEF Packing, InOrder, SentTo
    <2>3. SentTo(k) <= Len(k.ends)
      BY <2>2, <1>1, <1>4
    <2>4. k.whole => SentTo(k) = Len(k.ends)
      BY <2>2, <1>1, <1>4, <1>7
    <2>5. \A cut \in Cuts(k.ends) : Len(k.sent) <= Cardinality(cut) + 1
      BY <2>1, <1>1, <1>4, <1>5
    <2> QED BY <2>2, <2>3, <2>4, <2>5, <1>3 DEF Packed
  <1> QED BY <1>6, <1>7

----------------------------------------------------------------------------
(* All replies.                                                            *)

\* The inductive invariant: each goroutine has a reply of its own.
ReplyInv ==
    /\ job \in [Procs -> JobType]
    /\ DOMAIN pc = Procs
    /\ queue \in Seq(Requests \X BOOLEAN)
    /\ \A p \in Procs :
          /\ pc[p] = "reply" => Packing(job[p])
          /\ pc[p] = "flushed" => Packed(job[p])

\* A reply at its beginning.
LEMMA ReplyBegins ==
    ASSUME NEW r \in Requests \cup {None}, NEW ends \in Seq(Nat \ {0}),
           NEW whole \in BOOLEAN
    PROVE  Reply(r, ends, whole) \in JobType /\ Packing(Reply(r, ends, whole))
  <1> DEFINE j == Reply(r, ends, whole)
  <1>1. /\ j \in JobType
        /\ j.ends = ends /\ j.added = 0 /\ j.from = 0 /\ j.sent = <<>>
    BY DEF Reply, JobType
  <1> HIDE DEF j
  <1>2. Len(ends) \in Nat /\ Len(<<>>) = 0 /\ DOMAIN <<>> = {}
    OBVIOUS
  <1>3. InOrder(j) /\ SentTo(j) = 0
    BY <1>1, <1>2 DEF InOrder, SentTo
  <1>4. NoCutIsAhead(j)
    <2> SUFFICES ASSUME NEW cut \in Cuts(ends)
                 PROVE  0 <= Cardinality({x \in cut : x <= 0})
      BY <1>1, <1>2 DEF NoCutIsAhead
    <2>1. Cardinality({x \in cut : x <= 0}) \in Nat
      BY CutsFinite
    <2> QED BY <2>1
  <1>5. Packing(j)
    BY <1>1, <1>2, <1>3, <1>4 DEF Packing
  <1> QED BY <1>1, <1>5 DEF j

LEMMA NoJobType == NoJob \in JobType
  <1>1. <<>> \in Seq(Nat \ {0}) /\ None \in Requests \cup {None} /\ TRUE \in BOOLEAN
    OBVIOUS
  <1> QED BY <1>1, ReplyBegins DEF NoJob

\* The whole handler of a request starts with an empty writer.
LEMMA BeginsKeeps ==
    ASSUME ReplyInv, NEW p \in Procs, NEW r \in Requests,
           NEW ends \in Seq(Nat \ {0}), NEW whole \in BOOLEAN,
           Begins(p, r, ends, whole), queue' \in Seq(Requests \X BOOLEAN)
    PROVE  ReplyInv'
  <1>1. /\ job' = [job EXCEPT ![p] = Reply(r, ends, whole)]
        /\ pc' = [pc EXCEPT ![p] = "reply"]
    BY DEF Begins
  <1>2. Reply(r, ends, whole) \in JobType /\ Packing(Reply(r, ends, whole))
    BY ReplyBegins
  <1> QED BY <1>1, <1>2 DEF ReplyInv

\* Steps of goroutines that have no reply at hand.
LEMMA NoReply ==
    ASSUME ReplyInv, job' = job, queue' \in Seq(Requests \X BOOLEAN),
           DOMAIN pc' = Procs,
           \A p \in Procs : pc'[p] = pc[p] \/ pc'[p] \in {"off", "idle", "ended", "callback"}
    PROVE  ReplyInv'
  <1> SUFFICES ASSUME NEW p \in Procs
               PROVE  /\ pc'[p] = "reply" => Packing(job'[p])
                      /\ pc'[p] = "flushed" => Packed(job'[p])
    BY DEF ReplyInv
  <1>1. CASE pc'[p] = pc[p]
    BY <1>1 DEF ReplyInv
  <1>2. CASE pc'[p] \in {"off", "idle", "ended", "callback"}
    BY <1>2
  <1> QED BY <1>1, <1>2

\* The steps of udpDatagramWriter, in whichever goroutine.
LEMMA WriterKeeps ==
    ASSUME ReplyInv, NEW p \in Procs, Add(p) \/ Flush(p) \/ Finish(p)
    PROVE  ReplyInv'
  <1> USE DEF ReplyInv
  <1>1. job[p] \in JobType
    OBVIOUS
  <1>2. CASE Add(p)
    <2>1. /\ pc[p] = "reply" /\ job[p].added < Len(job[p].ends)
          /\ job' = [job EXCEPT ![p] =
                [job[p] EXCEPT !.added = job[p].added + 1,
                    !.from = IF Full(job[p]) THEN job[p].added ELSE job[p].from,
                    !.sent = IF Full(job[p]) THEN Sent(job[p]) ELSE job[p].sent]]
          /\ UNCHANGED <<pc, queue>>
      BY <1>2 DEF Add
    <2>2. job'[p] \in JobType /\ Packing(job'[p])
      BY <1>1, <2>1, AddKeeps
    <2>3. \A q \in Procs \ {p} : job'[q] = job[q]
      BY <2>1
    <2>4. job' \in [Procs -> JobType]
      BY <2>1, <2>2
    <2> QED BY <2>1, <2>2, <2>3, <2>4
  <1>3. CASE Flush(p)
    <2>1. /\ pc[p] = "reply" /\ job[p].added = Len(job[p].ends)
          /\ pc' = [pc EXCEPT ![p] = "flushed"]
          /\ job' = [job EXCEPT ![p] =
                [job[p] EXCEPT !.from = job[p].added,
                    !.sent = IF job[p].whole THEN Sent(job[p]) ELSE job[p].sent]]
          /\ UNCHANGED queue
      BY <1>3 DEF Flush
    <2>2. job'[p] \in JobType /\ Packed(job'[p])
      BY <1>1, <2>1, FlushPacks
    <2>3. \A q \in Procs \ {p} : job'[q] = job[q] /\ pc'[q] = pc[q]
      BY <2>1
    <2>4. job' \in [Procs -> JobType] /\ pc'[p] = "flushed" /\ DOMAIN pc' = Procs
      BY <2>1, <2>2
    <2> QED BY <2>1, <2>2, <2>3, <2>4
  <1>4. CASE Finish(p)
    <2>1. /\ pc' = [pc EXCEPT ![p] = "idle"]
          /\ job' = [job EXCEPT ![p] = NoJob]
          /\ UNCHANGED queue
      BY <1>4 DEF Finish
    <2>2. NoJob \in JobType
      BY NoJobType
    <2> QED BY <2>1, <2>2
  <1> QED BY <1>2, <1>3, <1>4

LEMMA ReplyInit == Init => ReplyInv
  <1> SUFFICES ASSUME Init PROVE ReplyInv
    OBVIOUS
  <1>1. NoJob \in JobType
    BY NoJobType
  <1> QED BY <1>1 DEF Init, ReplyInv

\* What a search finds, capped, is still a sequence of blocks.
LEMMA CappedEnds ==
    ASSUME NEW results \in Findings, NEW many \in BOOLEAN
    PROVE  Capped(results, many) \in Seq(Nat \ {0})
  <1>1. results \in Seq(Nat \ {0})
    BY FindingsAssumption
  <1>2. Limit(many) \in Nat
    BY LimitAssumption DEF Limit
  <1> HIDE DEF Limit
  <1>3. CASE Len(results) > Limit(many)
    BY <1>1, <1>2, <1>3 DEF Capped
  <1>4. CASE ~(Len(results) > Limit(many))
    BY <1>1, <1>4 DEF Capped
  <1> QED BY <1>3, <1>4

LEMMA ReplyStep == ReplyInv /\ [Next]_vars => ReplyInv'
  <1> SUFFICES ASSUME ReplyInv, [Next]_vars PROVE ReplyInv'
    OBVIOUS
  <1>q. queue \in Seq(Requests \X BOOLEAN) /\ DOMAIN pc = Procs /\ Loop \in Procs
        /\ Workers \subseteq Procs
    BY DEF ReplyInv, Procs
  <1>1. CASE UNCHANGED <<job, queue, pc>>
    BY <1>1, <1>q, NoReply
  <1>2. CASE Serve
    <2>1. CASE StartUDP
      BY <2>1, <1>q, NoReply DEF StartUDP
    <2>2. CASE Listen \/ StartUDPFails \/ Return
      BY <2>2, <1>1 DEF Listen, StartUDPFails, Return, udp
    <2> QED BY <1>2, <2>1, <2>2 DEF Serve
  <1>3. CASE ReadLoop
    <2>1. CASE CallbackReturns
      BY <2>1, <1>q, NoReply DEF CallbackReturns
    <2> QED BY <1>3, <1>q, <2>1, WriterKeeps DEF ReadLoop
  <1>4. CASE LoopEnds
    BY <1>4, <1>q, NoReply DEF LoopEnds
  <1>5. CASE CloseChannel \/ Stop
    BY <1>5, <1>1 DEF CloseChannel, Stop, TakeConns, CloseSockets, CloseClients, udp
  <1>6. ASSUME NEW c \in Clients, Peer(c) PROVE ReplyInv'
    BY <1>6, <1>1 DEF Peer, Accept, Login, Leave, Stall, udp
  <1>7. ASSUME NEW r \in Requests, Datagram(r) PROVE ReplyInv'
    <2>1. CASE Ignore(r)
      BY <2>1, <1>1 DEF Ignore
    <2>2. CASE Answer(r)
      <3>1. PICK n \in Sizes : Begins(Loop, r, <<n>>, TRUE)
        BY <2>2 DEF Answer
      <3>2. <<n>> \in Seq(Nat \ {0}) /\ queue' = queue
        BY <2>2, SizeAssumption DEF Answer
      <3> QED BY <3>1, <3>2, <1>q, BeginsKeeps
    <2>3. CASE GetSources(r)
      <3>1. PICK ends \in Findings, whole \in BOOLEAN : Begins(Loop, r, ends, whole)
        BY <2>3 DEF GetSources
      <3>2. ends \in Seq(Nat \ {0}) /\ queue' = queue
        BY <2>3, FindingsAssumption DEF GetSources
      <3> QED BY <3>1, <3>2, <1>q, BeginsKeeps
    <2>4. CASE Search(r)
      <3>1. UNCHANGED <<pc, job>>
        BY <2>4 DEF Search
      <3>2. queue' \in Seq(Requests \X BOOLEAN)
        <4>1. CASE queue' = queue
          BY <4>1, <1>q
        <4>2. ASSUME NEW many \in BOOLEAN, queue' = Append(queue, <<r, many>>)
              PROVE  queue' \in Seq(Requests \X BOOLEAN)
          <5>1. <<r, many>> \in Requests \X BOOLEAN
            OBVIOUS
          <5> QED BY <4>2, <5>1, <1>q, AppendFacts
        <4> QED BY <2>4, <4>1, <4>2 DEF Search
      <3> QED BY <3>1, <3>2, <1>q, NoReply
    <2>5. CASE Callback(r)
      BY <2>5, <1>q, NoReply DEF Callback
    <2> QED BY <1>7, <2>1, <2>2, <2>3, <2>4, <2>5 DEF Datagram
  <1>8. ASSUME NEW w \in Workers, Worker(w) PROVE ReplyInv'
    <2>1. CASE WorkerEnds(w)
      BY <2>1, <1>q, NoReply DEF WorkerEnds
    <2>2. CASE Work(w)
      <3>1. queue # <<>> /\ queue' = Tail(queue)
        BY <2>2 DEF Work
      <3>2. PICK results \in Findings :
                Begins(w, Head(queue)[1], Capped(results, Head(queue)[2]), TRUE)
        BY <2>2 DEF Work
      <3>3. /\ queue' \in Seq(Requests \X BOOLEAN)
            /\ Head(queue) \in Requests \X BOOLEAN
        BY <3>1, <1>q
      <3>4. Head(queue)[1] \in Requests /\ Head(queue)[2] \in BOOLEAN
        BY <3>3
      <3>5. Capped(results, Head(queue)[2]) \in Seq(Nat \ {0})
        BY <3>4, CappedEnds
      <3> QED BY <3>2, <3>3, <3>4, <3>5, <1>q, BeginsKeeps
    <2> QED BY <1>8, <1>q, <2>1, <2>2, WriterKeeps DEF Worker
  <1>9. CASE UNCHANGED vars
    BY <1>9, <1>1 DEF vars, udp
  <1> QED BY <1>2, <1>3, <1>4, <1>5, <1>6, <1>7, <1>8, <1>9 DEF Next

\* Whatever the blocks and the limit, in whichever goroutine and whenever the
\* server is stopped: a finished reply is whole, in order, within the limit and in
\* as few datagrams as possible (udpDatagramWriter.add, flush).
THEOREM RepliesStayPacked == Spec => []RepliesPacked
  <1>1. ReplyInv => RepliesPacked
    BY DEF ReplyInv, RepliesPacked, Packed, InOrder, SentTo
  <1> QED BY <1>1, ReplyInit, ReplyStep, PTL DEF Spec
=============================================================================
