---------------------------- MODULE StreamProofs ----------------------------
(***************************************************************************)
(* Theorems about Stream: what is dispatched and what the client can read, *)
(* for any client, however its bytes are cut, and any number of goroutines *)
(* that write to it.                                                       *)
(***************************************************************************)
EXTENDS Stream, SequenceTheorems, WellFoundedInduction, TLAPS

----------------------------------------------------------------------------
(* What the variables may be.                                              *)

\* The secret both sides compute, and the keys they make of it.
Secret == {<<"server">>, <<"client">>}
KeyIn == Key(Secret, "requester")
KeyOut == Key(Secret, "server")

Bytes == [val : (Kinds \cup Writers) \X Int, mask : SUBSET ({KeyIn, KeyOut} \X Nat)]
RC4s == {NoRC4} \cup [key : {KeyIn, KeyOut}, pos : Nat]

\* Where a connection is: before the answer of the server, in the handshake, in
\* the frames.
Asking == {"first", "ga", "padlen", "pad"}
Proving == {"hdr", "pad2", "chunk"}
Framing == {"header", "body", "reply"}

TypeInv ==
    /\ obfuscation \in BOOLEAN
    /\ script \in Scripts
    /\ client \in {"start", "probe", "hello", "ready", "left"}
    /\ ckeys \in [send : RC4s, recv : RC4s]
    /\ skeys \in [send : RC4s, recv : RC4s]
    /\ c2s \in Seq(Bytes) /\ s2c \in Seq(Bytes)
    /\ todo \in Seq(Frames)
    /\ heard \in Seq(Bytes) /\ said \in Seq(Bytes)
    /\ pc \in Asking \cup Proving \cup Framing \cup {"closed"}
    /\ local \in [ga : Seq(Bytes), pad : Int]
    /\ prefix \in Seq(Bytes) /\ buf \in Seq(Bytes) /\ header \in Seq(Bytes)
    /\ pc = "body" => Len(header) = HeaderSize
    /\ handled \in Seq([op : Int, body : Seq(Bytes)])
    /\ writer \in [Writers -> Seq(Bytes)]

\* One byte under one byte of a keystream.
Sealed(key, n, b) ==
    IF key = <<>> THEN b ELSE [b EXCEPT !.mask = Toggle(@, <<key, n>>)]

\* The bytes of a half and of what the client says first.
HalfAt(magic, method, n, i) ==
    IF i = 1 THEN Byte(magic, 0)
    ELSE IF i = 2 THEN Byte(method, 0)
    ELSE IF i = 3 THEN Byte("n", n)
    ELSE Byte("pad", i - 3)
HelloSize == IF script.kind = "probe" THEN 1 ELSE PrimeSize + 2 + script.pad1
HelloAt(i) ==
    IF i = 1 THEN Byte(script.marker, 0)
    ELSE IF i <= PrimeSize + 1 THEN Byte(script.number, i - 1)
    ELSE IF i = PrimeSize + 2 THEN Byte("n", script.pad1)
    ELSE Byte("pad", i - PrimeSize - 2)
ReplySize == 3 + script.pad2
ReplyAt(i) == HalfAt(script.magic, script.method, script.pad2, i)

----------------------------------------------------------------------------
(* The handshake.                                                          *)

\* How much of what the client says first has been read.
HelloRead ==
    IF pc = "first" THEN 0
    ELSE IF pc = "ga" THEN 1
    ELSE IF pc = "padlen" THEN PrimeSize + 1
    ELSE PrimeSize + 2

\* The server has read a part of what the client says first.
AskingInv ==
    pc \in Asking =>
        /\ client # "ready"
        /\ s2c = <<>>
        /\ skeys = NoKeys
        /\ pc # "first" => obfuscation
        /\ pc \in {"padlen", "pad"} => script.kind = "obfuscated" /\ local.ga = Public(script.number)
        /\ pc = "pad" => local.pad = script.pad1 /\ script.pad1 <= MaxPad
        /\ Len(c2s) <= HelloSize - HelloRead
        /\ \A i \in 1..Len(c2s) : c2s[i] = HelloAt(HelloRead + i)

\* The answer that the client has still to read, n bytes of padding with it.
Answer(n) ==
    /\ Len(s2c) = PrimeSize + TailSize + n
    /\ \A i \in 1..PrimeSize : s2c[i] = Byte("server", i)
    /\ \A i \in 1..(TailSize + n) :
          s2c[PrimeSize + i] = Sealed(KeyOut, i, HalfAt("sync", "rc4", n, i))
    /\ skeys.send.pos = TailSize + n

\* The server has answered and waits for the client's half.
HdrInv ==
    pc = "hdr" =>
        /\ skeys.recv.pos = 0
        /\ client = "hello" => c2s = <<>> /\ \E n \in 0..MaxPad : Answer(n)
        /\ client = "ready" => Len(c2s) >= ReplySize
        /\ \A i \in 1..Len(c2s) : i <= ReplySize => c2s[i] = Sealed(KeyIn, i, ReplyAt(i))

\* The client of an obfuscated connection.
ObfuscatedInv ==
    /\ script.kind = "probe" => client \in {"start", "probe", "left"}
    /\ client = "probe" => script.kind = "probe"
    /\ AskingInv
    /\ HdrInv
    /\ pc \in Proving \cup Framing =>
          /\ script.kind = "obfuscated" /\ script.number = "client"
          /\ script.pad1 <= MaxPad /\ obfuscation
          /\ skeys.send.key = KeyOut /\ skeys.recv.key = KeyIn
          /\ pc # "hdr" => Honest(script)
    /\ handled # <<>> => Honest(script) /\ obfuscation
    /\ client = "ready" => ckeys.send.key = KeyIn /\ ckeys.recv.key = KeyOut
    /\ pc = "closed" /\ client = "hello" => Len(s2c) <= 1

\* The client of a plain connection.
PlainInv ==
    /\ client \in {"start", "ready", "left"}
    /\ pc \in {"first"} \cup Framing \cup {"closed"}
    /\ skeys = NoKeys /\ ckeys = NoKeys
    /\ pc = "first" =>
          /\ s2c = <<>>
          /\ client \in {"start", "ready"} /\ c2s = <<>> => todo = script.frames
          /\ c2s # <<>> => \E m \in PlainMarkers : Legible(c2s[1], m)

HandshakeInv ==
    /\ client = "start" => pc = "first" /\ c2s = <<>> /\ s2c = <<>>
    /\ client \in {"start", "probe", "hello"} => heard = <<>> /\ pc \notin Framing \cup {"pad2", "chunk"}
    /\ handled # <<>> => client \in {"ready", "left"} /\ pc \in Framing \cup {"closed"}
    /\ pc = "reply" => handled # <<>>
    /\ pc \in {"pad", "pad2"} => local.pad \in Nat
    /\ IF script.kind = "plain" THEN PlainInv ELSE ObfuscatedInv

----------------------------------------------------------------------------
(* Replies.                                                                *)

RepliesInv ==
    /\ Len(heard) <= Len(said)
    /\ \A i \in 1..Len(heard) : heard[i] = said[i]
    /\ handled = <<>> => said = <<>> /\ WriteMuFree
    /\ writer["own"] # <<>> => pc \in {"reply", "closed"}
    /\ \A v, w \in Writers : writer[v] # <<>> /\ writer[w] # <<>> => v = w
    /\ \A w \in Writers : writer[w] # <<>> =>
          /\ said # <<>>
          /\ writer[w] = <<Sealed(skeys.send.key, skeys.send.pos, said[Len(said)])>>
    /\ client = "ready" =>
          /\ Len(heard) + Len(s2c) <= Len(said)
          /\ \A i \in 1..Len(s2c) :
                s2c[i] = Sealed(ckeys.recv.key, ckeys.recv.pos + i, said[Len(heard) + i])
          /\ pc # "closed" =>
                /\ ckeys.recv.key = skeys.send.key
                /\ ckeys.recv.key # <<>> =>
                      skeys.send.pos = ckeys.recv.pos + Len(said) - Len(heard)
                /\ Len(said) = Len(heard) + Len(s2c) + (IF WriteMuFree THEN 0 ELSE 1)

----------------------------------------------------------------------------
(* Frames.                                                                 *)

\* How many frames the client has sent.
Sent == Len(script.frames) - Len(todo)

\* The bytes w of the frames that the client has sent, each frame f at its s[f].
Wire(w, s) ==
    /\ w \in Seq(PlainBytes) /\ s \in [1..(Sent + 1) -> Nat]
    /\ s[1] = 0 /\ s[Sent + 1] = Len(w)
    /\ \A f \in 1..Sent :
          /\ s[f + 1] = s[f] + HeaderSize + Len(script.frames[f].body)
          /\ s[f + 1] <= Len(w)
          /\ \A i \in 1..(s[f + 1] - s[f]) : w[s[f] + i] = Encode(script.frames[f])[i]

\* What was read of the frame to come and after it.
Got == header \o buf \o prefix

\* How much of the client's half is ahead of the frames.
Ahead ==
    IF pc = "hdr" THEN ReplySize ELSE IF pc = "pad2" THEN script.pad2 ELSE 0

\* Of the bytes w, those up to the base have been dispatched; the others were
\* read, or are on their way under the keystream, or were lost.
Flow(w, base) ==
    /\ base + Len(Got) <= Len(w)
    /\ \A i \in 1..Len(Got) : Got[i] = w[base + i]
    /\ \A i \in 1..(Len(c2s) - Ahead) :
          /\ base + Len(Got) + i <= Len(w)
          /\ c2s[Ahead + i] =
                Sealed(skeys.recv.key, skeys.recv.pos + Ahead + i, w[base + Len(Got) + i])
    /\ client = "ready" =>
          /\ base + Len(Got) + Len(c2s) - Ahead = Len(w)
          /\ ckeys.send.key = skeys.recv.key
          /\ ckeys.send.key # <<>> => ckeys.send.pos = skeys.recv.pos + Len(c2s)

\* The frames that the client has still to send.
TodoInv ==
    /\ Len(todo) <= Len(script.frames)
    /\ \A i \in 1..Len(todo) : todo[i] = script.frames[Sent + i]
    /\ client \in {"start", "probe", "hello"} \/ (script.kind # "plain" /\ pc \in Asking) =>
          todo = script.frames

\* Where there are bytes of frames.
BuffersInv ==
    /\ pc = "pad2" => local.pad = script.pad2
    /\ pc \in Asking \cup Proving \cup {"reply"} => buf = <<>>
    /\ pc \in Asking \cup Proving => prefix = <<>>
    /\ pc \notin {"body", "closed"} => header = <<>>

\* The frames that have been dispatched, and the bytes of the others.
HandledInv ==
    /\ Len(handled) <= Sent
    /\ \A i \in 1..Len(handled) :
          /\ handled[i] = Meaning(script.frames[i])
          /\ Acceptable(script.frames[i])
          /\ pc # "closed" \/ i < Len(handled) => script.frames[i].op # 0
FlowInv ==
    pc # "closed" /\ (script.kind = "plain" \/ pc \notin Asking) =>
        \E w, s : Wire(w, s) /\ Flow(w, s[Len(handled) + 1])

----------------------------------------------------------------------------
(* Sequences.                                                              *)

\* Two sequences, one after the other.
LEMMA Joined ==
    ASSUME NEW S, NEW p \in Seq(S), NEW q \in Seq(S)
    PROVE  /\ p \o q \in Seq(S)
           /\ Len(p) \in Nat /\ Len(q) \in Nat /\ Len(p \o q) = Len(p) + Len(q)
           /\ \A i \in 1..Len(p) : (p \o q)[i] = p[i]
           /\ \A i \in 1..Len(q) : (p \o q)[Len(p) + i] = q[i]
  OBVIOUS

\* What is read of a sequence, and what is left of it.
LEMMA Split ==
    ASSUME NEW S, NEW p \in Seq(S), NEW n \in 0..Len(p)
    PROVE  /\ SubSeq(p, 1, n) \in Seq(S) /\ Len(SubSeq(p, 1, n)) = n
           /\ \A i \in 1..n : SubSeq(p, 1, n)[i] = p[i]
           /\ SubSeq(p, n + 1, Len(p)) \in Seq(S)
           /\ Len(SubSeq(p, n + 1, Len(p))) = Len(p) - n
           /\ \A i \in 1..(Len(p) - n) : SubSeq(p, n + 1, Len(p))[i] = p[n + i]
<1>1. Len(p) \in Nat /\ \A i \in 1..Len(p) : p[i] \in S
  OBVIOUS
<1>2. /\ SubSeq(p, 1, n) \in Seq(S)
      /\ Len(SubSeq(p, 1, n)) = IF 1 <= n THEN n - 1 + 1 ELSE 0
      /\ \A i \in 1..(n - 1 + 1) : SubSeq(p, 1, n)[i] = p[1 + i - 1]
  BY <1>1, SubSeqProperties
<1>3. /\ SubSeq(p, n + 1, Len(p)) \in Seq(S)
      /\ Len(SubSeq(p, n + 1, Len(p))) = IF n + 1 <= Len(p) THEN Len(p) - (n + 1) + 1 ELSE 0
      /\ \A i \in 1..(Len(p) - (n + 1) + 1) : SubSeq(p, n + 1, Len(p))[i] = p[(n + 1) + i - 1]
  <2> DEFINE m == n + 1
             l == Len(p)
  <2>1. m \in Int /\ l \in Int /\ \A i \in m..l : p[i] \in S
    BY <1>1
  <2> HIDE DEF m, l
  <2>2. /\ SubSeq(p, m, l) \in Seq(S)
        /\ Len(SubSeq(p, m, l)) = IF m <= l THEN l - m + 1 ELSE 0
        /\ \A i \in 1..(l - m + 1) : SubSeq(p, m, l)[i] = p[m + i - 1]
    BY ONLY <2>1, SubSeqProperties
  <2> QED BY <2>2, Zenon DEF m, l
<1>4. n \in Nat /\ n - 1 + 1 = n /\ Len(p) - (n + 1) + 1 = Len(p) - n
  BY <1>1
<1>5. (\A i \in 1..n : 1 + i - 1 = i) /\ (\A i \in 1..(Len(p) - n) : (n + 1) + i - 1 = n + i)
  BY <1>4
<1>6. Len(SubSeq(p, 1, n)) = n /\ Len(SubSeq(p, n + 1, Len(p))) = Len(p) - n
  <2>1. /\ (IF 1 <= n THEN n - 1 + 1 ELSE 0) = n
        /\ (IF n + 1 <= Len(p) THEN Len(p) - (n + 1) + 1 ELSE 0) = Len(p) - n
    BY <1>1
  <2> QED BY <1>2, <1>3, <2>1
<1> QED BY <1>2, <1>3, <1>4, <1>5, <1>6

\* A sequence is its first n elements and the others.
LEMMA CutAndJoined ==
    ASSUME NEW S, NEW p \in Seq(S), NEW n \in 0..Len(p)
    PROVE  SubSeq(p, 1, n) \o SubSeq(p, n + 1, Len(p)) = p
<1> DEFINE a == SubSeq(p, 1, n)
           b == SubSeq(p, n + 1, Len(p))
<1>1. /\ a \in Seq(S) /\ Len(a) = n /\ \A i \in 1..n : a[i] = p[i]
      /\ b \in Seq(S) /\ Len(b) = Len(p) - n /\ \A i \in 1..(Len(p) - n) : b[i] = p[n + i]
      /\ Len(p) \in Nat /\ n \in Nat
  BY Split
<1> HIDE DEF a, b
<1>2. /\ a \o b \in Seq(S) /\ Len(a \o b) = Len(a) + Len(b)
      /\ \A i \in 1..Len(a) : (a \o b)[i] = a[i]
      /\ \A i \in 1..Len(b) : (a \o b)[Len(a) + i] = b[i]
  <2>1. a \in Seq(S) /\ b \in Seq(S)
    BY <1>1
  <2> QED BY ONLY <2>1, Joined
<1>3. Len(a \o b) = Len(p)
  BY ONLY <1>1, <1>2
<1>4. ASSUME NEW i \in 1..Len(p) PROVE (a \o b)[i] = p[i]
  <2>1. CASE i \in 1..n
    BY <1>1, <1>2, <2>1
  <2>2. CASE i \notin 1..n
    <3>1. i - n \in 1..(Len(p) - n) /\ n + (i - n) = i
      BY <1>1, <2>2
    <3>2. (a \o b)[n + (i - n)] = p[n + (i - n)]
      BY ONLY <1>1, <1>2, <3>1
    <3> QED BY <3>1, <3>2
  <2> QED BY <2>1, <2>2
<1>5. a \o b = p
  BY ONLY <1>2, <1>3, <1>4, p \in Seq(S), SeqEqual
<1> QED BY <1>5 DEF a, b

LEMMA NeverEmpty ==
    ASSUME NEW S, NEW p \in Seq(S), NEW e
    PROVE  Append(p, e) # <<>>
<1> DEFINE T == S \cup {e}
<1>1. S \subseteq T /\ e \in T
  OBVIOUS
<1> HIDE DEF T
<1>2. p \in Seq(T)
  BY ONLY <1>1, p \in Seq(S), SeqMonotonic
<1> QED BY ONLY <1>1, <1>2, AppendProperties

----------------------------------------------------------------------------
(* Bytes and keystreams.                                                   *)

\* The keys of an obfuscated connection are not the empty one of a plain one.
LEMMA KeysDiffer == KeyIn # <<>> /\ KeyOut # <<>>
  BY DEF KeyIn, KeyOut, Key

\* Two sides that know each other's numbers agree.
LEMMA SecretAgreed ==
    /\ Agree("server", Public("client")) = Secret
    /\ Agree("client", Public("server")) = Secret
<1>1. ASSUME NEW x, x \in {"client", "server"} PROVE Public(x)[1].val[1] = x
  BY SizesAssumption DEF Public, Byte
<1> QED BY <1>1 DEF Agree, Secret

\* A valid number is told from an invalid one.
LEMMA NumbersDiffer == Public("client") # Public("zero")
<1>1. Public("client")[1].val[1] = "client" /\ Public("zero")[1].val[1] = "zero"
  BY SizesAssumption DEF Public, Byte
<1> QED BY <1>1

LEMMA PlainByte ==
    ASSUME NEW kind \in Kinds, NEW n \in Int
    PROVE  Byte(kind, n) \in PlainBytes
  BY DEF Byte, PlainBytes

LEMMA PlainNumber ==
    ASSUME NEW n \in Nat
    PROVE  Byte("n", n) \in PlainBytes
  BY KindsAssumption DEF Byte, PlainBytes

LEMMA AnyByte ==
    ASSUME NEW kind \in Kinds \cup Writers, NEW n \in Int
    PROVE  Byte(kind, n) \in Bytes
  BY DEF Byte, Bytes

\* What the client sends in the clear are bytes.
LEMMA PlainAreBytes ==
    /\ PlainBytes \subseteq Bytes
    /\ \A p \in Seq(PlainBytes) : p \in Seq(Bytes)
<1>1. PlainBytes \subseteq Bytes
  BY DEF Bytes, PlainBytes
<1> QED BY <1>1, SeqMonotonic

LEMMA LegibleIs ==
    ASSUME NEW kind, NEW n, NEW k
    PROVE  Legible(Byte(kind, n), k) <=> kind = k
  BY DEF Byte, Legible

LEMMA NumberIs ==
    ASSUME NEW n \in Int
    PROVE  Number(Byte("n", n)) = n
  BY DEF Byte, Legible, Number

LEMMA SealedType ==
    ASSUME NEW key \in {<<>>, KeyIn, KeyOut}, NEW n \in Nat, NEW b \in Bytes
    PROVE  Sealed(key, n, b) \in Bytes
<1>1. CASE key = <<>>
  BY <1>1 DEF Sealed
<1>2. CASE key # <<>>
  <2>1. b.mask \in SUBSET ({KeyIn, KeyOut} \X Nat) /\ <<key, n>> \in {KeyIn, KeyOut} \X Nat
    BY <1>2 DEF Bytes
  <2>2. Toggle(b.mask, <<key, n>>) \in SUBSET ({KeyIn, KeyOut} \X Nat)
    BY <2>1 DEF Toggle
  <2> QED BY <1>2, <2>2 DEF Sealed, Bytes
<1> QED BY <1>1, <1>2

\* The same keystream byte twice gives the byte back.
LEMMA SealedTwice ==
    ASSUME NEW key, NEW n, NEW b \in Bytes
    PROVE  Sealed(key, n, Sealed(key, n, b)) = b
<1> DEFINE x == <<key, n>>
<1>1. Toggle(Toggle(b.mask, x), x) = b.mask
  BY DEF Toggle
<1> HIDE DEF x
<1>2. b = [val |-> b.val, mask |-> b.mask]
  BY DEF Bytes
<1>3. ASSUME NEW m PROVE [b EXCEPT !.mask = m] = [val |-> b.val, mask |-> m]
  BY <1>2
<1>4. CASE key # <<>>
  <2>1. Sealed(key, n, b) = [val |-> b.val, mask |-> Toggle(b.mask, x)]
    BY <1>3, <1>4 DEF Sealed, x
  <2>2. Sealed(key, n, Sealed(key, n, b)) =
           [val |-> b.val, mask |-> Toggle(Toggle(b.mask, x), x)]
    BY <1>4, <2>1 DEF Sealed, x
  <2> QED BY <1>1, <1>2, <2>2
<1> QED BY <1>4 DEF Sealed

\* A keystream seals each byte at its place.
LEMMA CryptIs ==
    ASSUME NEW rc4 \in RC4s, NEW p \in Seq(Bytes)
    PROVE  /\ Crypt(rc4, p) \in Seq(Bytes) /\ Len(Crypt(rc4, p)) = Len(p)
           /\ \A i \in 1..Len(p) : Crypt(rc4, p)[i] = Sealed(rc4.key, rc4.pos + i, p[i])
           /\ rc4.key # <<>> => XorInPlace(rc4, p) = Crypt(rc4, p)
<1>1. rc4 = NoRC4 <=> rc4.key = <<>>
  BY KeysDiffer DEF RC4s, NoRC4, NewRC4
<1>2. rc4.key \in {<<>>, KeyIn, KeyOut} /\ rc4.pos \in Nat
  BY DEF RC4s, NoRC4, NewRC4
<1>3. CASE rc4 = NoRC4
  BY <1>1, <1>3 DEF Crypt, Sealed
<1>4. CASE rc4 # NoRC4
  <2>1. Crypt(rc4, p) = [i \in 1..Len(p) |-> Sealed(rc4.key, rc4.pos + i, p[i])]
    BY <1>1, <1>4 DEF Crypt, XorInPlace, Sealed
  <2>2. Len(p) \in Nat /\ \A i \in 1..Len(p) : Sealed(rc4.key, rc4.pos + i, p[i]) \in Bytes
    BY <1>2, SealedType
  <2>3. Crypt(rc4, p) \in Seq(Bytes) /\ Len(Crypt(rc4, p)) = Len(p)
    BY <2>1, <2>2
  <2> QED BY <1>4, <2>1, <2>3 DEF Crypt
<1> QED BY <1>3, <1>4

\* A keystream advances and keeps its key.
LEMMA AdvancedIs ==
    ASSUME NEW rc4 \in RC4s, NEW n \in Nat
    PROVE  /\ Advanced(rc4, n) \in RC4s
           /\ Advanced(rc4, n).key = rc4.key
           /\ rc4.key # <<>> => Advanced(rc4, n).pos = rc4.pos + n
<1>1. CASE rc4 = NoRC4
  BY <1>1 DEF Advanced, NoRC4, NewRC4
<1>2. CASE rc4 # NoRC4
  BY <1>2, KeysDiffer DEF Advanced, RC4s, NoRC4, NewRC4
<1> QED BY <1>1, <1>2

LEMMA AdvancedFrom ==
    ASSUME NEW key \in {KeyIn, KeyOut}, NEW p \in Nat, NEW n \in Nat
    PROVE  Advanced([key |-> key, pos |-> p], n) = [key |-> key, pos |-> p + n]
<1>1. [key |-> key, pos |-> p] # NoRC4
  BY KeysDiffer DEF NoRC4, NewRC4
<1> QED BY <1>1 DEF Advanced

LEMMA PaddingIs ==
    ASSUME NEW n \in Nat
    PROVE  /\ Padding(n) \in Seq(PlainBytes) /\ Len(Padding(n)) = n
           /\ \A i \in 1..n : Padding(n)[i] = Byte("pad", i)
<1>1. \A i \in 1..n : Byte("pad", i) \in PlainBytes
  BY PlainByte, KindsAssumption
<1> QED BY <1>1 DEF Padding

LEMMA PublicIs ==
    ASSUME NEW x \in Kinds
    PROVE  /\ Public(x) \in Seq(PlainBytes) /\ Len(Public(x)) = PrimeSize
           /\ \A i \in 1..PrimeSize : Public(x)[i] = Byte(x, i)
<1>1. \A i \in 1..PrimeSize : Byte(x, i) \in PlainBytes
  BY PlainByte
<1> QED BY <1>1, SizesAssumption DEF Public

\* The half of a side, byte by byte.
LEMMA HalfIs ==
    ASSUME NEW magic \in Kinds, NEW method \in Kinds, NEW n \in Nat
    PROVE  /\ Half(magic, method, n) \in Seq(PlainBytes)
           /\ Len(Half(magic, method, n)) = 3 + n
           /\ \A i \in 1..(3 + n) : Half(magic, method, n)[i] = HalfAt(magic, method, n, i)
<1> DEFINE p == <<Byte(magic, 0), Byte(method, 0), Byte("n", n)>>
           q == Padding(n)
<1>1. /\ p \in Seq(PlainBytes) /\ Len(p) = 3
      /\ p[1] = Byte(magic, 0) /\ p[2] = Byte(method, 0) /\ p[3] = Byte("n", n)
  BY PlainByte, KindsAssumption
<1>2. q \in Seq(PlainBytes) /\ Len(q) = n /\ \A i \in 1..n : q[i] = Byte("pad", i)
  BY PaddingIs
<1>3. Half(magic, method, n) = p \o q
  BY DEF Half
<1> HIDE DEF p, q
<1>4. /\ p \o q \in Seq(PlainBytes) /\ Len(p \o q) = 3 + n
      /\ \A i \in 1..3 : (p \o q)[i] = p[i]
      /\ \A i \in 1..n : (p \o q)[3 + i] = q[i]
  <2>1. p \in Seq(PlainBytes) /\ q \in Seq(PlainBytes)
    BY <1>1, <1>2
  <2>2. /\ p \o q \in Seq(PlainBytes) /\ Len(p \o q) = Len(p) + Len(q)
        /\ \A i \in 1..Len(p) : (p \o q)[i] = p[i]
        /\ \A i \in 1..Len(q) : (p \o q)[Len(p) + i] = q[i]
    BY ONLY <2>1, Joined
  <2> QED BY ONLY <1>1, <1>2, n \in Nat, <2>2
<1>5. ASSUME NEW i \in 1..(3 + n) PROVE (p \o q)[i] = HalfAt(magic, method, n, i)
  <2>1. CASE i \in 1..3
    BY <1>1, <1>4, <2>1 DEF HalfAt
  <2>2. CASE i \notin 1..3
    <3>1. i - 3 \in 1..n /\ 3 + (i - 3) = i
      BY <2>2
    <3>2. (p \o q)[3 + (i - 3)] = Byte("pad", i - 3)
      BY <1>2, <1>4, <3>1
    <3>3. i # 1 /\ i # 2 /\ i # 3
      BY <2>2
    <3> QED BY <3>1, <3>2, <3>3 DEF HalfAt
  <2> QED BY <2>1, <2>2
<1> QED BY <1>3, <1>4, <1>5

\* The client's first message, byte by byte.
LEMMA HelloIs ==
    ASSUME script \in Scripts, script.kind = "obfuscated"
    PROVE  /\ HelloBytes(script) \in Seq(PlainBytes)
           /\ Len(HelloBytes(script)) = HelloSize
           /\ \A i \in 1..HelloSize : HelloBytes(script)[i] = HelloAt(i)
<1> DEFINE a == <<Byte(script.marker, 0)>>
           b == Public(script.number)
           c == <<Byte("n", script.pad1)>>
           d == Padding(script.pad1)
           P == PrimeSize
           n == script.pad1
<1>0. /\ P \in Nat /\ n \in Nat /\ script.marker \in Kinds /\ script.number \in Kinds
  BY SizesAssumption, ScriptsAssumption, KindsAssumption
<1>1. a \in Seq(PlainBytes) /\ Len(a) = 1 /\ a[1] = Byte(script.marker, 0)
  BY <1>0, PlainByte
<1>2. b \in Seq(PlainBytes) /\ Len(b) = P /\ \A i \in 1..P : b[i] = Byte(script.number, i)
  BY <1>0, PublicIs
<1>3. c \in Seq(PlainBytes) /\ Len(c) = 1 /\ c[1] = Byte("n", n)
  <2>1. Byte("n", n) \in PlainBytes
    BY <1>0, PlainNumber
  <2> QED BY <2>1
<1>4. d \in Seq(PlainBytes) /\ Len(d) = n /\ \A i \in 1..n : d[i] = Byte("pad", i)
  BY <1>0, PaddingIs
<1>5. HelloBytes(script) = ((a \o b) \o c) \o d
  BY DEF HelloBytes
<1>6. HelloSize = P + 2 + n
  BY DEF HelloSize
<1> HIDE DEF a, b, c, d, P, n
<1> DEFINE ab == a \o b
<1>7. /\ ab \in Seq(PlainBytes) /\ Len(ab) = 1 + P /\ ab[1] = a[1]
      /\ \A i \in 1..P : ab[1 + i] = b[i]
  <2>1. /\ a \o b \in Seq(PlainBytes) /\ Len(a \o b) = Len(a) + Len(b)
        /\ \A i \in 1..Len(a) : (a \o b)[i] = a[i]
        /\ \A i \in 1..Len(b) : (a \o b)[Len(a) + i] = b[i]
    <3>1. a \in Seq(PlainBytes) /\ b \in Seq(PlainBytes)
      BY <1>1, <1>2
    <3> QED BY ONLY <3>1, Joined
  <2> QED BY ONLY <1>0, <1>1, <1>2, <2>1 DEF ab
<1> HIDE DEF ab
<1> DEFINE abc == ab \o c
<1>8. /\ abc \in Seq(PlainBytes) /\ Len(abc) = P + 2
      /\ \A i \in 1..(1 + P) : abc[i] = ab[i]
      /\ abc[P + 2] = c[1]
  <2>1. /\ ab \o c \in Seq(PlainBytes) /\ Len(ab \o c) = Len(ab) + Len(c)
        /\ \A i \in 1..Len(ab) : (ab \o c)[i] = ab[i]
        /\ \A i \in 1..Len(c) : (ab \o c)[Len(ab) + i] = c[i]
    <3>1. ab \in Seq(PlainBytes) /\ c \in Seq(PlainBytes)
      BY <1>3, <1>7
    <3> QED BY ONLY <3>1, Joined
  <2>2. (1 + P) + 1 = P + 2 /\ 1 \in 1..1
    BY <1>0
  <2> QED BY ONLY <1>0, <1>3, <1>7, <2>1, <2>2 DEF abc
<1> HIDE DEF abc
<1> DEFINE h == abc \o d
<1>9. /\ h \in Seq(PlainBytes) /\ Len(h) = P + 2 + n
      /\ \A i \in 1..(P + 2) : h[i] = abc[i]
      /\ \A i \in 1..n : h[P + 2 + i] = d[i]
  <2>1. /\ abc \o d \in Seq(PlainBytes) /\ Len(abc \o d) = Len(abc) + Len(d)
        /\ \A i \in 1..Len(abc) : (abc \o d)[i] = abc[i]
        /\ \A i \in 1..Len(d) : (abc \o d)[Len(abc) + i] = d[i]
    <3>1. abc \in Seq(PlainBytes) /\ d \in Seq(PlainBytes)
      BY <1>4, <1>8
    <3> QED BY ONLY <3>1, Joined
  <2> QED BY ONLY <1>0, <1>4, <1>8, <2>1 DEF h
<1>10. HelloBytes(script) = h
  BY <1>5 DEF ab, abc
<1> HIDE DEF h
<1>11. ASSUME NEW i \in 1..(P + 2 + n) PROVE h[i] = HelloAt(i)
  <2>1. CASE i = 1
    BY <1>0, <1>1, <1>7, <1>8, <1>9, <2>1 DEF HelloAt
  <2>2. CASE i \in 2..(P + 1)
    <3>1. i - 1 \in 1..P /\ 1 + (i - 1) = i /\ i \in 1..(1 + P) /\ i \in 1..(P + 2)
      BY <1>0, <2>2
    <3>2. ab[1 + (i - 1)] = Byte(script.number, i - 1)
      BY <1>2, <1>7, <3>1
    <3>3. h[i] = Byte(script.number, i - 1)
      BY <1>8, <1>9, <3>1, <3>2
    <3>4. i # 1 /\ i <= PrimeSize + 1
      BY <1>0, <2>2 DEF P
    <3> QED BY <3>3, <3>4 DEF HelloAt
  <2>3. CASE i = P + 2
    <3>1. h[i] = Byte("n", n)
      BY <1>0, <1>3, <1>8, <1>9, <2>3
    <3>2. i # 1 /\ ~(i <= PrimeSize + 1) /\ i = PrimeSize + 2
      BY <1>0, <2>3 DEF P
    <3> QED BY <3>1, <3>2 DEF HelloAt, n
  <2>4. CASE i > P + 2
    <3>1. i - P - 2 \in 1..n /\ P + 2 + (i - P - 2) = i
      BY <1>0, <2>4
    <3>2. h[P + 2 + (i - P - 2)] = Byte("pad", i - P - 2)
      BY <1>4, <1>9, <3>1
    <3>3. h[i] = Byte("pad", i - P - 2)
      BY <3>1, <3>2
    <3>4. i # 1 /\ ~(i <= PrimeSize + 1) /\ i # PrimeSize + 2
      BY <1>0, <2>4 DEF P
    <3> QED BY <3>3, <3>4 DEF HelloAt, P
  <2> QED BY <1>0, <2>1, <2>2, <2>3, <2>4
<1> QED BY <1>6, <1>9, <1>10, <1>11

\* A frame on the wire, byte by byte.
LEMMA EncodeIs ==
    ASSUME NEW f \in Frames
    PROVE  /\ Encode(f) \in Seq(PlainBytes)
           /\ Len(f.body) \in Nat /\ Len(Encode(f)) = 3 + Len(f.body)
           /\ Encode(f)[1] = Byte(f.protocol, 0)
           /\ Encode(f)[2] = Byte("n", 1 + Len(f.body))
           /\ Encode(f)[3] = Byte("op", f.op)
           /\ \A i \in 1..Len(f.body) : Encode(f)[3 + i] = f.body[i]
<1> DEFINE p == <<Byte(f.protocol, 0), Byte("n", 1 + Len(f.body)), Byte("op", f.op)>>
           q == f.body
<1>1. /\ q \in Seq(PlainBytes) /\ Len(q) \in Nat /\ f.protocol \in Kinds /\ f.op \in Int
  BY DEF Frames
<1>2. /\ p \in Seq(PlainBytes) /\ Len(p) = 3
      /\ p[1] = Byte(f.protocol, 0) /\ p[2] = Byte("n", 1 + Len(f.body))
      /\ p[3] = Byte("op", f.op)
  <2>1. Byte(f.protocol, 0) \in PlainBytes
    BY <1>1, PlainByte DEF Frames
  <2>2. Byte("n", 1 + Len(f.body)) \in PlainBytes
    BY <1>1, PlainNumber
  <2>3. Byte("op", f.op) \in PlainBytes
    BY <1>1, PlainByte, KindsAssumption
  <2> QED BY <2>1, <2>2, <2>3
<1>3. Encode(f) = p \o q
  BY DEF Encode
<1> HIDE DEF p
<1>4. /\ p \o q \in Seq(PlainBytes) /\ Len(p \o q) = 3 + Len(q)
      /\ \A i \in 1..3 : (p \o q)[i] = p[i]
      /\ \A i \in 1..Len(q) : (p \o q)[3 + i] = q[i]
  <2>1. p \in Seq(PlainBytes) /\ q \in Seq(PlainBytes)
    BY <1>1, <1>2
  <2>2. /\ p \o q \in Seq(PlainBytes) /\ Len(p \o q) = Len(p) + Len(q)
        /\ \A i \in 1..Len(p) : (p \o q)[i] = p[i]
        /\ \A i \in 1..Len(q) : (p \o q)[Len(p) + i] = q[i]
    BY ONLY <2>1, Joined
  <2> QED BY ONLY <1>1, <1>2, <2>2
<1> QED BY <1>1, <1>2, <1>3, <1>4

----------------------------------------------------------------------------
(* Steps of the handshake.                                                 *)

\* What is left when the first n bytes were read.
LEMMA ConsumeIs ==
    ASSUME c2s \in Seq(Bytes), NEW n \in 0..Len(c2s), Consume(n)
    PROVE  /\ c2s' \in Seq(Bytes) /\ Len(c2s') = Len(c2s) - n
           /\ \A i \in 1..(Len(c2s) - n) : c2s'[i] = c2s[n + i]
  BY Split DEF Consume

\* The fields of a script.
LEMMA ScriptIs ==
    ASSUME script \in Scripts
    PROVE  /\ script.kind \in {"plain", "probe", "obfuscated"}
           /\ script.marker \in Kinds /\ script.magic \in Kinds /\ script.method \in Kinds
           /\ script.number \in Kinds /\ script.number \in {"client", "zero"}
           /\ script.pad1 \in Nat /\ script.pad2 \in Nat
           /\ script.frames \in Seq(Frames)
           /\ script.kind # "plain" => script.marker \notin PlainMarkers
           /\ script.kind = "plain" /\ script.frames # <<>> =>
                 script.frames[1].protocol \in PlainMarkers
  BY ScriptsAssumption, KindsAssumption

\* The client finds the server's answer whole, and agrees with it on the keys.
LEMMA AnswerReadIs ==
    ASSUME TypeInv, HandshakeInv, AnswerRead
    PROVE  /\ pc = "hdr" /\ script.kind = "obfuscated"
           /\ client' = "ready"
           /\ s2c' = <<>>
           /\ ckeys' = [send |-> [key |-> KeyIn, pos |-> ReplySize],
                        recv |-> [key |-> KeyOut, pos |-> skeys.send.pos]]
           /\ ReplySize \in Nat /\ skeys.send.pos \in Nat
           /\ c2s' \in Seq(Bytes) /\ Len(c2s') = ReplySize
           /\ \A i \in 1..ReplySize : c2s'[i] = Sealed(KeyIn, i, ReplyAt(i))
<1> DEFINE keys == Keys(Agree("client", SubSeq(s2c, 1, PrimeSize)), "requester", "server")
           tail == XorInPlace(keys.recv, SubSeq(s2c, PrimeSize + 1, Len(s2c)))
           size == TailSize + Number(tail[TailSize])
           reply == Half(script.magic, script.method, script.pad2)
<1>1. /\ client = "hello"
      /\ Len(s2c) >= PrimeSize + TailSize
      /\ client' = "ready"
      /\ ckeys' = [send |-> Advanced(keys.send, Len(reply)), recv |-> Advanced(keys.recv, size)]
      /\ c2s' = c2s \o XorInPlace(keys.send, reply)
      /\ s2c' = SubSeq(s2c, PrimeSize + size + 1, Len(s2c))
  BY DEF AnswerRead
<1> HIDE DEF keys, tail, size, reply
<1>2. PrimeSize \in Nat /\ MaxPad \in Nat /\ PrimeSize > 0 /\ TailSize = 3
  BY SizesAssumption DEF TailSize
<1>3. script.kind = "obfuscated" /\ pc = "hdr"
  <2>1. script.kind # "plain" /\ script.kind # "probe"
    BY <1>1 DEF HandshakeInv, PlainInv, ObfuscatedInv
  <2>2. ObfuscatedInv /\ script.kind = "obfuscated"
    BY <2>1, ScriptIs DEF HandshakeInv, TypeInv
  <2>3. pc \notin Asking /\ pc # "closed"
    BY <1>1, <1>2, <2>2 DEF ObfuscatedInv, AskingInv, TypeInv
  <2>4. pc \notin Framing \cup {"pad2", "chunk"}
    BY <1>1 DEF HandshakeInv
  <2> QED BY <2>2, <2>3, <2>4 DEF TypeInv, Proving
<1>4. c2s = <<>> /\ \E n \in 0..MaxPad : Answer(n)
  BY <1>1, <1>3 DEF HandshakeInv, ObfuscatedInv, HdrInv
<1>5. PICK n \in 0..MaxPad : Answer(n)
  BY <1>4
<1>6. /\ Len(s2c) = PrimeSize + 3 + n /\ n \in Nat
      /\ \A i \in 1..PrimeSize : s2c[i] = Byte("server", i)
      /\ \A i \in 1..(3 + n) : s2c[PrimeSize + i] = Sealed(KeyOut, i, HalfAt("sync", "rc4", n, i))
      /\ skeys.send.pos = 3 + n
  BY <1>2, <1>5 DEF Answer
<1>7. s2c \in Seq(Bytes) /\ PrimeSize \in 0..Len(s2c)
  BY <1>2, <1>6 DEF TypeInv
<1> DEFINE number == SubSeq(s2c, 1, PrimeSize)
           rest == SubSeq(s2c, PrimeSize + 1, Len(s2c))
<1>8. /\ number \in Seq(Bytes) /\ Len(number) = PrimeSize
      /\ \A i \in 1..PrimeSize : number[i] = s2c[i]
      /\ rest \in Seq(Bytes) /\ Len(rest) = Len(s2c) - PrimeSize
      /\ \A i \in 1..(Len(s2c) - PrimeSize) : rest[i] = s2c[PrimeSize + i]
  BY <1>7, Split
<1>9. tail = XorInPlace(keys.recv, rest) /\ keys = Keys(Agree("client", number), "requester", "server")
  BY DEF tail, keys
<1> HIDE DEF number, rest
<1>10. number = Public("server")
  <2>1. /\ Public("server") \in Seq(PlainBytes) /\ Len(Public("server")) = PrimeSize
        /\ \A i \in 1..PrimeSize : Public("server")[i] = Byte("server", i)
    BY PublicIs, KindsAssumption
  <2>2. Public("server") \in Seq(Bytes)
    BY <2>1, PlainAreBytes
  <2>3. Len(number) = Len(Public("server")) /\ \A i \in 1..Len(number) : number[i] = Public("server")[i]
    BY <1>6, <1>8, <2>1
  <2> QED BY <1>8, <2>2, <2>3, SeqEqual
<1>11. /\ keys.send = [key |-> KeyIn, pos |-> 0] /\ keys.recv = [key |-> KeyOut, pos |-> 0]
       /\ keys.send \in RC4s /\ keys.recv \in RC4s
  BY <1>9, <1>10, SecretAgreed DEF Keys, NewRC4, KeyIn, KeyOut, RC4s
<1>12. tail[3] = Byte("n", n)
  <2>1. tail = Crypt(keys.recv, rest) /\ Len(rest) = 3 + n
    BY <1>2, <1>6, <1>8, <1>9, <1>11, CryptIs, KeysDiffer
  <2>2. tail[3] = Sealed(KeyOut, 0 + 3, rest[3])
    BY <1>6, <1>8, <1>11, <2>1, CryptIs
  <2>3. rest[3] = Sealed(KeyOut, 3, HalfAt("sync", "rc4", n, 3))
    BY <1>2, <1>6, <1>8, <2>1
  <2>4. HalfAt("sync", "rc4", n, 3) = Byte("n", n) /\ Byte("n", n) \in Bytes
    BY <1>6, PlainNumber, PlainAreBytes DEF HalfAt
  <2> QED BY <2>2, <2>3, <2>4, SealedTwice
<1>13. size = 3 + n
  BY <1>2, <1>6, <1>12, NumberIs DEF size
<1>14. s2c' = <<>>
  BY <1>1, <1>2, <1>6, <1>7, <1>13, SubSeqEmpty
<1>15. /\ reply \in Seq(Bytes) /\ Len(reply) = ReplySize /\ ReplySize \in Nat
       /\ \A i \in 1..ReplySize : reply[i] = ReplyAt(i)
  <2>1. script.magic \in Kinds /\ script.method \in Kinds /\ script.pad2 \in Nat
    BY ScriptIs DEF TypeInv
  <2>2. /\ reply \in Seq(PlainBytes) /\ Len(reply) = ReplySize
        /\ \A i \in 1..ReplySize : reply[i] = ReplyAt(i)
    BY <2>1, HalfIs DEF reply, ReplySize, ReplyAt
  <2>3. ReplySize \in Nat
    BY <2>1 DEF ReplySize
  <2> QED BY <2>2, <2>3, PlainAreBytes
<1>16. /\ XorInPlace(keys.send, reply) = Crypt(keys.send, reply)
       /\ Crypt(keys.send, reply) \in Seq(Bytes) /\ Len(Crypt(keys.send, reply)) = ReplySize
       /\ \A i \in 1..ReplySize : Crypt(keys.send, reply)[i] = Sealed(KeyIn, 0 + i, ReplyAt(i))
  BY <1>11, <1>15, CryptIs, KeysDiffer
<1>17. c2s' = Crypt(keys.send, reply)
  BY <1>1, <1>4, <1>16
<1>18. \A i \in 1..ReplySize : 0 + i = i
  BY <1>15
<1>19. /\ Advanced(keys.send, ReplySize) = [key |-> KeyIn, pos |-> ReplySize]
       /\ Advanced(keys.recv, 3 + n) = [key |-> KeyOut, pos |-> 3 + n]
  <2>1. /\ Advanced(keys.send, ReplySize) = [key |-> KeyIn, pos |-> 0 + ReplySize]
        /\ Advanced(keys.recv, 3 + n) = [key |-> KeyOut, pos |-> 0 + (3 + n)]
    <3>1. 3 + n \in Nat /\ KeyIn \in {KeyIn, KeyOut} /\ KeyOut \in {KeyIn, KeyOut} /\ 0 \in Nat
      BY <1>6
    <3>2. /\ Advanced([key |-> KeyIn, pos |-> 0], ReplySize) = [key |-> KeyIn, pos |-> 0 + ReplySize]
          /\ Advanced([key |-> KeyOut, pos |-> 0], 3 + n) = [key |-> KeyOut, pos |-> 0 + (3 + n)]
      BY ONLY <3>1, <1>15, AdvancedFrom
    <3> QED BY <1>11, <3>2
  <2>2. 0 + ReplySize = ReplySize /\ 0 + (3 + n) = 3 + n
    BY <1>6, <1>15
  <2> QED BY <2>1, <2>2
<1>20. ckeys' = [send |-> [key |-> KeyIn, pos |-> ReplySize],
                 recv |-> [key |-> KeyOut, pos |-> skeys.send.pos]]
  BY <1>1, <1>6, <1>13, <1>15, <1>19
<1>21. \A i \in 1..ReplySize : c2s'[i] = Sealed(KeyIn, i, ReplyAt(i))
  BY <1>16, <1>17, <1>18
<1>22. skeys.send.pos \in Nat
  BY <1>6
<1> QED BY <1>1, <1>3, <1>14, <1>15, <1>16, <1>17, <1>20, <1>21, <1>22

\* The server's answer, to a client whose whole question it has read.
LEMMA ReadPadIs ==
    ASSUME TypeInv, HandshakeInv, ReadPad
    PROVE  /\ script.kind = "obfuscated"
           /\ client # "ready" /\ client # "start"
           /\ c2s' = <<>>
           /\ \/ pc' = "closed" /\ UNCHANGED <<s2c, skeys>>
              \/ /\ pc' = "hdr"
                 /\ script.number = "client" /\ script.pad1 <= MaxPad /\ obfuscation
                 /\ s2c' \in Seq(Bytes)
                 /\ skeys' \in [send : RC4s, recv : RC4s]
                 /\ skeys'.send.key = KeyOut
                 /\ skeys'.recv = [key |-> KeyIn, pos |-> 0]
                 /\ \E n \in 0..MaxPad : Answer(n)'
<1> DEFINE keys == Keys(Agree("server", local.ga), "server", "requester")
<1>1. /\ pc = "pad"
      /\ Len(c2s) >= local.pad
      /\ Consume(local.pad)
      /\ \/ /\ local.ga = Public("zero")
            /\ pc' = "closed"
            /\ UNCHANGED <<s2c, skeys>>
         \/ /\ local.ga # Public("zero")
            /\ \E n \in 0..MaxPad :
                  LET tail == Half("sync", "rc4", n)
                  IN  /\ s2c' = s2c \o Public("server") \o XorInPlace(keys.send, tail)
                      /\ skeys' = [keys EXCEPT !.send = Advanced(@, Len(tail))]
            /\ pc' = "hdr"
  BY DEF ReadPad
<1> HIDE DEF keys
<1>2. ObfuscatedInv
  BY <1>1 DEF HandshakeInv, PlainInv, Framing
<1>3. /\ client # "ready" /\ s2c = <<>> /\ obfuscation
      /\ script.kind = "obfuscated" /\ local.ga = Public(script.number)
      /\ local.pad = script.pad1 /\ script.pad1 <= MaxPad
      /\ Len(c2s) <= HelloSize - HelloRead
  BY <1>1, <1>2 DEF ObfuscatedInv, AskingInv, Asking
<1>4. client # "start"
  BY <1>1 DEF HandshakeInv
<1>5. script.pad1 \in Nat /\ script.number \in {"client", "zero"} /\ PrimeSize \in Nat /\ MaxPad \in Nat
  BY ScriptIs, SizesAssumption DEF TypeInv
<1>6. c2s' = <<>>
  <2>1. HelloSize - HelloRead = script.pad1 /\ c2s \in Seq(Bytes) /\ Len(c2s) \in Nat
    BY <1>1, <1>3, <1>5 DEF HelloSize, HelloRead, TypeInv
  <2>2. Len(c2s) = local.pad
    BY <1>1, <1>3, <1>5, <2>1
  <2>3. local.pad \in 0..Len(c2s) /\ Consume(local.pad)
    BY <1>1, <2>1, <2>2
  <2>4. c2s' \in Seq(Bytes) /\ Len(c2s') = Len(c2s) - local.pad
    BY <2>1, <2>3, ConsumeIs
  <2>5. Len(c2s') = 0
    BY <2>1, <2>2, <2>4
  <2> QED BY <2>4, <2>5
<1>7. CASE pc' = "hdr"
  <2>1. local.ga # Public("zero")
    BY <1>1, <1>7
  <2>2. script.number = "client"
    BY <1>3, <1>5, <2>1
  <2>3. PICK n \in 0..MaxPad :
           /\ s2c' = s2c \o Public("server") \o XorInPlace(keys.send, Half("sync", "rc4", n))
           /\ skeys' = [keys EXCEPT !.send = Advanced(@, Len(Half("sync", "rc4", n)))]
    BY <1>1, <1>7
  <2> DEFINE tail == Half("sync", "rc4", n)
             number == Public("server")
  <2>4. n \in Nat /\ tail \in Seq(Bytes) /\ Len(tail) = 3 + n
        /\ \A i \in 1..(3 + n) : tail[i] = HalfAt("sync", "rc4", n, i)
    <3>1. n \in Nat /\ "sync" \in Kinds /\ "rc4" \in Kinds
      BY <1>5, KindsAssumption
    <3> QED BY <3>1, HalfIs, PlainAreBytes
  <2>5. /\ number \in Seq(Bytes) /\ Len(number) = PrimeSize
        /\ \A i \in 1..PrimeSize : number[i] = Byte("server", i)
    BY PublicIs, KindsAssumption, PlainAreBytes
  <2>6. /\ keys = [send |-> [key |-> KeyOut, pos |-> 0], recv |-> [key |-> KeyIn, pos |-> 0]]
        /\ keys.send \in RC4s /\ keys.recv \in RC4s
    BY <1>3, <2>2, SecretAgreed DEF keys, Keys, NewRC4, KeyIn, KeyOut, RC4s
  <2> DEFINE code == Crypt(keys.send, tail)
  <2>7. /\ XorInPlace(keys.send, tail) = code
        /\ code \in Seq(Bytes) /\ Len(code) = 3 + n
        /\ \A i \in 1..(3 + n) : code[i] = Sealed(KeyOut, 0 + i, tail[i])
    BY <2>4, <2>6, CryptIs, KeysDiffer
  <2>8. s2c' = number \o code
    <3>1. s2c' = (<<>> \o number) \o code
      BY <1>3, <2>3, <2>7
    <3>2. <<>> \o number = number
      BY <2>5, ConcatEmptySeq
    <3> QED BY <3>1, <3>2
  <2>9. skeys' = [send |-> [key |-> KeyOut, pos |-> 3 + n], recv |-> [key |-> KeyIn, pos |-> 0]]
    <3>1. Advanced([key |-> KeyOut, pos |-> 0], 3 + n) = [key |-> KeyOut, pos |-> 0 + (3 + n)]
      <4>1. 3 + n \in Nat /\ KeyOut \in {KeyIn, KeyOut} /\ 0 \in Nat
        BY <2>4
      <4> QED BY ONLY <4>1, AdvancedFrom
    <3>2. 0 + (3 + n) = 3 + n
      BY <2>4
    <3>3. skeys' = [keys EXCEPT !.send = Advanced(@, 3 + n)]
      BY <2>3, <2>4
    <3> QED BY <2>6, <3>1, <3>2, <3>3
  <2> HIDE DEF tail, number, code
  <2>10. /\ number \o code \in Seq(Bytes) /\ Len(number \o code) = Len(number) + Len(code)
         /\ \A i \in 1..Len(number) : (number \o code)[i] = number[i]
         /\ \A i \in 1..Len(code) : (number \o code)[Len(number) + i] = code[i]
    <3>1. number \in Seq(Bytes) /\ code \in Seq(Bytes)
      BY <2>5, <2>7
    <3> QED BY ONLY <3>1, Joined
  <2>11. /\ Len(s2c') = PrimeSize + 3 + n
         /\ \A i \in 1..PrimeSize : s2c'[i] = Byte("server", i)
         /\ \A i \in 1..(3 + n) : s2c'[PrimeSize + i] = Sealed(KeyOut, i, HalfAt("sync", "rc4", n, i))
    <3>1. Len(s2c') = PrimeSize + (3 + n) /\ PrimeSize + (3 + n) = PrimeSize + 3 + n
      BY <1>5, <2>4, <2>5, <2>7, <2>8, <2>10
    <3>2. \A i \in 1..PrimeSize : s2c'[i] = Byte("server", i)
      BY <2>5, <2>8, <2>10
    <3>3. \A i \in 1..(3 + n) : s2c'[PrimeSize + i] = code[i]
      BY <2>5, <2>7, <2>8, <2>10
    <3>4. \A i \in 1..(3 + n) : 0 + i = i
      BY <2>4
    <3>5. \A i \in 1..(3 + n) : code[i] = Sealed(KeyOut, i, HalfAt("sync", "rc4", n, i))
      BY <2>4, <2>7, <3>4
    <3> QED BY <3>1, <3>2, <3>3, <3>5
  <2>12. skeys'.send.pos = 3 + n
    BY <2>9
  <2>13. Answer(n)'
    BY <2>11, <2>12 DEF Answer, TailSize
  <2>14. skeys' \in [send : RC4s, recv : RC4s]
    <3>1. [key |-> KeyOut, pos |-> 3 + n] \in RC4s /\ [key |-> KeyIn, pos |-> 0] \in RC4s
      BY <2>4 DEF RC4s
    <3> QED BY <2>9, <3>1
  <2>15. /\ s2c' \in Seq(Bytes) /\ skeys'.send.key = KeyOut
         /\ skeys'.recv = [key |-> KeyIn, pos |-> 0]
    BY <2>8, <2>9, <2>10
  <2> QED BY <1>3, <1>4, <1>6, <1>7, <2>2, <2>13, <2>14, <2>15
<1> QED BY <1>1, <1>3, <1>4, <1>6, <1>7

\* The server decrypts what the client has encrypted, and goes on only if the
\* client keeps to the protocol.
LEMMA ReadHdrIs ==
    ASSUME TypeInv, HandshakeInv, ReadHdr
    PROVE  /\ script.kind = "obfuscated" /\ client \in {"ready", "left"}
           /\ skeys.recv.key = KeyIn
           /\ skeys.recv.pos = 0
           /\ 3 \in 0..Len(c2s) /\ Consume(3)
           /\ pc' \in {"pad2", "closed"}
           /\ local' = [local EXCEPT !.pad = script.pad2]
           /\ pc' = "pad2" => Honest(script)
<1> DEFINE first == SubSeq(c2s, 1, 3)
           hdr == XorInPlace(skeys.recv, first)
<1>1. /\ pc = "hdr"
      /\ Len(c2s) >= 3
      /\ Consume(3)
      /\ local' = [local EXCEPT !.pad = Number(hdr[3])]
      /\ pc' = IF GoodHdr(hdr) THEN "pad2" ELSE "closed"
  BY DEF ReadHdr, TailSize
<1> HIDE DEF first, hdr
<1>2. ObfuscatedInv
  BY <1>1 DEF HandshakeInv, PlainInv, Framing
<1>3. /\ script.kind = "obfuscated" /\ script.number = "client" /\ script.pad1 <= MaxPad
      /\ skeys.recv.key = KeyIn /\ skeys.recv.pos = 0
      /\ client = "hello" => c2s = <<>>
      /\ \A i \in 1..Len(c2s) : i <= ReplySize => c2s[i] = Sealed(KeyIn, i, ReplyAt(i))
  BY <1>1, <1>2 DEF ObfuscatedInv, HdrInv, Proving
<1>4. c2s \in Seq(Bytes) /\ skeys.recv \in RC4s /\ 3 \in 0..Len(c2s) /\ Len(c2s) \in Nat
  BY <1>1 DEF TypeInv
<1>5. client \in {"ready", "left"}
  <2>1. c2s # <<>>
    BY <1>1, <1>4
  <2>2. client # "start" /\ client # "probe" /\ client # "hello"
    BY <1>1, <1>2, <1>3, <2>1 DEF HandshakeInv, ObfuscatedInv
  <2> QED BY <2>2 DEF TypeInv
<1>6. first \in Seq(Bytes) /\ Len(first) = 3 /\ \A i \in 1..3 : first[i] = c2s[i]
  BY <1>4, Split DEF first
<1>7. \A i \in 1..3 : hdr[i] = Sealed(KeyIn, 0 + i, first[i])
  BY <1>3, <1>4, <1>6, CryptIs, KeysDiffer DEF hdr
<1>8. /\ script.magic \in Kinds /\ script.method \in Kinds /\ script.pad2 \in Nat
      /\ 3 <= ReplySize
  BY ScriptIs DEF ReplySize, TypeInv
<1>9. ASSUME NEW i \in 1..3, ReplyAt(i) \in Bytes PROVE hdr[i] = ReplyAt(i)
  <2>1. i \in 1..Len(c2s) /\ i <= ReplySize /\ 0 + i = i
    BY <1>4, <1>8 DEF ReplySize
  <2>2. hdr[i] = Sealed(KeyIn, i, Sealed(KeyIn, i, ReplyAt(i)))
    BY <1>3, <1>6, <1>7, <2>1
  <2> QED BY <1>9, <2>2, SealedTwice
<1>10. /\ ReplyAt(1) = Byte(script.magic, 0) /\ ReplyAt(2) = Byte(script.method, 0)
       /\ ReplyAt(3) = Byte("n", script.pad2)
  BY DEF ReplyAt, HalfAt
<1>11. ReplyAt(1) \in Bytes /\ ReplyAt(2) \in Bytes /\ ReplyAt(3) \in Bytes
  <2>1. /\ Byte(script.magic, 0) \in PlainBytes /\ Byte(script.method, 0) \in PlainBytes
        /\ Byte("n", script.pad2) \in PlainBytes
    BY <1>8, PlainByte, PlainNumber
  <2> QED BY <1>10, <2>1, PlainAreBytes
<1>12. /\ hdr[1] = Byte(script.magic, 0) /\ hdr[2] = Byte(script.method, 0)
       /\ hdr[3] = Byte("n", script.pad2)
  BY <1>9, <1>10, <1>11
<1>13. Number(hdr[3]) = script.pad2
  BY <1>8, <1>12, NumberIs
<1>14. GoodHdr(hdr) => Honest(script)
  <2>1. SUFFICES ASSUME GoodHdr(hdr) PROVE Honest(script)
    OBVIOUS
  <2>2. script.magic = "sync" /\ script.method = "rc4"
    BY <1>12, <2>1, LegibleIs DEF GoodHdr
  <2>3. script.pad2 <= MaxPad
    BY <1>8, <1>13, <2>1, SizesAssumption DEF GoodHdr
  <2> QED BY <1>3, <2>2, <2>3 DEF Honest
<1> QED BY <1>1, <1>3, <1>4, <1>5, <1>13, <1>14

----------------------------------------------------------------------------
(* Types.                                                                  *)

\* What the actions do to the keystreams of a side.
LEMMA KeysAdvance ==
    ASSUME NEW k \in [send : RC4s, recv : RC4s], NEW n \in Nat
    PROVE  /\ [k EXCEPT !.send = Advanced(@, n)] \in [send : RC4s, recv : RC4s]
           /\ [k EXCEPT !.recv = Advanced(@, n)] \in [send : RC4s, recv : RC4s]
<1>1. Advanced(k.send, n) \in RC4s /\ Advanced(k.recv, n) \in RC4s
  BY AdvancedIs
<1> QED BY <1>1

LEMMA InflatedType ==
    ASSUME NEW body \in Seq(Bytes), Inflatable(body)
    PROVE  Inflated(body) \in Seq(Bytes)
<1> DEFINE n == body[1].val[2]
<1>1. n \in Int
  <2>1. body[1] \in Bytes
    BY DEF Inflatable
  <2> QED BY <2>1 DEF Bytes
<1>2. Inflated(body) = [i \in 1..n |-> Byte("data", i)]
  BY DEF Inflated
<1> HIDE DEF n
<1>3. \A i \in 1..n : Byte("data", i) \in Bytes
  <2>1. \A i \in 1..n : Byte("data", i) \in PlainBytes
    BY <1>1, PlainByte, KindsAssumption
  <2> QED BY <2>1, PlainAreBytes
<1>4. CASE n \in Nat
  BY <1>2, <1>3, <1>4
<1>5. CASE n \notin Nat
  <2>1. 1..n = 1..0
    BY <1>1, <1>5
  <2>2. Inflated(body) = [i \in 1..0 |-> Byte("data", i)]
    BY <1>2, <2>1
  <2>3. 0 \in Nat /\ \A i \in 1..0 : Byte("data", i) \in Bytes
    OBVIOUS
  <2> QED BY <2>2, <2>3
<1> QED BY <1>4, <1>5

\* How much is wanted of a header or a body is a number.
LEMMA WantedIs ==
    ASSUME TypeInv, pc \in {"header", "body"}
    PROVE  Wanted \in Int
<1>0. Len(buf) \in Nat
  BY DEF TypeInv
<1>1. CASE pc = "header"
  BY <1>0, <1>1 DEF Wanted, HeaderSize
<1>2. CASE pc = "body"
  <2>1. header \in Seq(Bytes) /\ Len(header) = 3
    BY <1>2 DEF HeaderSize, TypeInv
  <2>2. 2 \in 1..Len(header)
    BY <2>1
  <2>3. header[2] \in Bytes
    BY ONLY <2>1, <2>2, ElementOfSeq
  <2>4. Number(header[2]) \in Int
    BY <2>3 DEF Number, Bytes
  <2> QED BY <1>0, <1>2, <2>4 DEF Wanted
<1> QED BY <1>1, <1>2

LEMMA InitType == Init => TypeInv
<1> SUFFICES ASSUME Init PROVE TypeInv
  OBVIOUS
<1>1. NoKeys \in [send : RC4s, recv : RC4s]
  BY DEF NoKeys, RC4s
<1>2. script.frames \in Seq(Frames)
  BY ScriptIs DEF Init
<1> QED BY <1>1, <1>2 DEF Init, TypeInv, Asking

\* Every step keeps the types.
LEMMA TypeStep == TypeInv /\ HandshakeInv /\ [Next]_vars => TypeInv'
<1> SUFFICES ASSUME TypeInv, HandshakeInv, [Next]_vars PROVE TypeInv'
  OBVIOUS
<1>a. ASSUME AnswerRead
      PROVE  /\ client' = "ready" /\ s2c' \in Seq(Bytes) /\ c2s' \in Seq(Bytes)
             /\ ckeys' \in [send : RC4s, recv : RC4s]
  <2>1. /\ [key |-> KeyIn, pos |-> ReplySize] \in RC4s
        /\ [key |-> KeyOut, pos |-> skeys.send.pos] \in RC4s
    BY <1>a, AnswerReadIs DEF RC4s
  <2>2. ckeys' \in [send : RC4s, recv : RC4s]
    BY <1>a, <2>1, AnswerReadIs
  <2>3. client' = "ready" /\ s2c' = <<>> /\ c2s' \in Seq(Bytes)
    BY <1>a, AnswerReadIs
  <2> QED BY <2>2, <2>3
<1>b. ASSUME ReadPad
      PROVE  /\ c2s' \in Seq(Bytes) /\ pc' \in {"closed", "hdr"}
             /\ s2c' \in Seq(Bytes) /\ skeys' \in [send : RC4s, recv : RC4s]
  <2>1. c2s' = <<>> /\ pc' \in {"closed", "hdr"}
    BY <1>b, ReadPadIs
  <2>2. \/ UNCHANGED <<s2c, skeys>>
        \/ s2c' \in Seq(Bytes) /\ skeys' \in [send : RC4s, recv : RC4s]
    BY <1>b, ReadPadIs
  <2> QED BY <2>1, <2>2 DEF TypeInv
<1>c. ASSUME ReadHdr
      PROVE  /\ c2s' \in Seq(Bytes) /\ pc' \in {"pad2", "closed"}
             /\ local' \in [ga : Seq(Bytes), pad : Int]
  <2>1. pc' \in {"pad2", "closed"} /\ local' = [local EXCEPT !.pad = script.pad2]
        /\ 3 \in 0..Len(c2s) /\ Consume(3)
    BY <1>c, ReadHdrIs
  <2>2. c2s' \in Seq(Bytes)
    BY <2>1, ConsumeIs DEF TypeInv
  <2>3. script.pad2 \in Int
    BY ScriptIs DEF TypeInv
  <2> QED BY <2>1, <2>2, <2>3 DEF TypeInv
<1>d. \A kind \in Kinds : Byte(kind, 0) \in Bytes
  BY PlainByte, PlainAreBytes
<1>w. pc \in {"header", "body"} => Wanted \in Int
  BY WantedIs
<1> USE DEF TypeInv, setting, peer, reading
<1>0. /\ Len(c2s) \in Nat /\ Len(prefix) \in Nat /\ Len(buf) \in Nat /\ Len(s2c) \in Nat
      /\ skeys.recv \in RC4s /\ skeys.send \in RC4s /\ ckeys.recv \in RC4s /\ ckeys.send \in RC4s
  OBVIOUS
<1>1. CASE Hello
  <2>1. /\ client' \in {"ready", "probe", "hello"}
        /\ UNCHANGED c2s \/ c2s' = <<Byte(script.marker, 0)>> \/ c2s' = HelloBytes(script)
    BY <1>1, ScriptIs DEF Hello
  <2>2. c2s' = HelloBytes(script) => script.kind = "obfuscated" \/ UNCHANGED c2s \/ c2s' = <<Byte(script.marker, 0)>>
    BY <1>1, ScriptIs DEF Hello
  <2>3. <<Byte(script.marker, 0)>> \in Seq(Bytes)
    <3>1. Byte(script.marker, 0) \in Bytes
      BY ScriptIs, PlainByte, PlainAreBytes
    <3> QED BY <3>1
  <2>4. script.kind = "obfuscated" => HelloBytes(script) \in Seq(Bytes)
    BY HelloIs, PlainAreBytes
  <2>5. c2s' \in Seq(Bytes)
    BY <2>1, <2>2, <2>3, <2>4
  <2> QED BY <1>1, <2>1, <2>5 DEF Hello
<1>2. CASE AnswerRead
  BY <1>2, <1>a DEF AnswerRead
<1>3. CASE ClientSend
  <2>1. Head(todo) \in Frames /\ Tail(todo) \in Seq(Frames)
    BY <1>3, HeadTailProperties DEF ClientSend
  <2>2. Encode(Head(todo)) \in Seq(Bytes) /\ Len(Encode(Head(todo))) \in Nat
    BY <2>1, EncodeIs, PlainAreBytes
  <2>3. Crypt(ckeys.send, Encode(Head(todo))) \in Seq(Bytes)
    BY <1>0, <2>2, CryptIs
  <2>4. c2s' \in Seq(Bytes)
    BY <1>3, <2>3 DEF ClientSend
  <2>5. ckeys' \in [send : RC4s, recv : RC4s]
    BY <1>3, <2>2, KeysAdvance DEF ClientSend
  <2> QED BY <1>3, <2>1, <2>4, <2>5 DEF ClientSend
<1>4. CASE ClientRead
  <2>1. Crypt(ckeys.recv, s2c) \in Seq(Bytes)
    BY <1>0, CryptIs
  <2>2. heard' \in Seq(Bytes)
    BY <1>4, <2>1 DEF ClientRead
  <2>3. ckeys' \in [send : RC4s, recv : RC4s]
    BY <1>0, <1>4, KeysAdvance DEF ClientRead
  <2> QED BY <1>4, <2>2, <2>3 DEF ClientRead
<1>5. CASE ClientLeave
  <2>1. PICK n \in 0..Len(c2s) : c2s' = SubSeq(c2s, 1, n)
    BY <1>5 DEF ClientLeave
  <2>2. c2s' \in Seq(Bytes)
    BY <2>1, Split
  <2> QED BY <1>5, <2>2 DEF ClientLeave
<1>6. ASSUME NEW n \in Nat, n <= Len(c2s), Consume(n) PROVE c2s' \in Seq(Bytes)
  BY <1>0, <1>6, ConsumeIs
<1>7. CASE ReadFirst
  <2>1. c2s' \in Seq(Bytes) /\ c2s[1] \in Bytes /\ <<c2s[1]>> \in Seq(Bytes)
    <3>1. Len(c2s) >= 1
      BY <1>0, <1>7 DEF ReadFirst
    <3>2. c2s[1] \in Bytes
      BY <1>0, <3>1
    <3>3. c2s' \in Seq(Bytes)
      BY <1>6, <1>7, <3>1 DEF ReadFirst
    <3> QED BY <3>2, <3>3
  <2>2. prefix' = prefix \/ prefix' = <<c2s[1]>>
    BY <1>7 DEF ReadFirst
  <2>3. s2c' = s2c \/ s2c' = Append(s2c, Byte("400", 0))
    BY <1>7 DEF ReadFirst
  <2>4. Append(s2c, Byte("400", 0)) \in Seq(Bytes)
    <3>1. Byte("400", 0) \in Bytes
      BY <1>d, KindsAssumption
    <3> QED BY <3>1, AppendProperties
  <2>5. prefix' \in Seq(Bytes) /\ s2c' \in Seq(Bytes)
    BY <2>1, <2>2, <2>3, <2>4
  <2>6. pc' \in {"header", "ga", "closed"}
    BY <1>7 DEF ReadFirst
  <2> QED BY <1>7, <2>1, <2>5, <2>6 DEF ReadFirst, Framing, Asking
<1>8. CASE ReadGA
  <2>1. c2s' \in Seq(Bytes) /\ SubSeq(c2s, 1, PrimeSize) \in Seq(Bytes)
    <3>1. PrimeSize \in Nat /\ PrimeSize <= Len(c2s) /\ PrimeSize \in 0..Len(c2s)
      BY <1>0, <1>8, SizesAssumption DEF ReadGA
    <3>2. SubSeq(c2s, 1, PrimeSize) \in Seq(Bytes)
      BY <3>1, Split
    <3> QED BY <1>6, <1>8, <3>1, <3>2 DEF ReadGA
  <2> QED BY <1>8, <2>1 DEF ReadGA, Asking
<1>9. CASE ReadPadLen
  <2>1. c2s' \in Seq(Bytes)
    BY <1>0, <1>6, <1>9 DEF ReadPadLen
  <2>2. c2s[1] \in Bytes
    BY <1>0, <1>9 DEF ReadPadLen
  <2>3. Number(c2s[1]) \in Int
    BY <2>2 DEF Number, Bytes
  <2>4. pc' \in {"pad", "closed"}
    BY <1>9 DEF ReadPadLen
  <2> QED BY <1>9, <2>1, <2>3, <2>4 DEF ReadPadLen, Asking
<1>10. CASE ReadPad
  BY <1>10, <1>b DEF ReadPad, Proving
<1>11. CASE ReadHdr
  <2>1. skeys' \in [send : RC4s, recv : RC4s]
    BY <1>11, KeysAdvance DEF ReadHdr, TailSize
  <2> QED BY <1>11, <1>c, <2>1 DEF ReadHdr, Proving
<1>12. CASE ReadPad2
  <2>1. local.pad \in Nat
    BY <1>12 DEF ReadPad2, HandshakeInv
  <2>2. c2s' \in Seq(Bytes)
    BY <1>0, <1>6, <1>12, <2>1 DEF ReadPad2
  <2>3. skeys' \in [send : RC4s, recv : RC4s]
    BY <1>12, <2>1, KeysAdvance DEF ReadPad2
  <2> QED BY <1>12, <2>2, <2>3 DEF ReadPad2, Proving
<1>13. CASE ReadChunk
  <2>1. PICK n \in 1..Len(c2s) :
           /\ prefix' = Leftover(SubSeq(c2s, 1, n))
           /\ skeys' = [skeys EXCEPT !.recv = Advanced(@, n)]
           /\ Consume(n)
    BY <1>13 DEF ReadChunk
  <2>2. n \in Nat /\ n <= Len(c2s) /\ n \in 0..Len(c2s)
    BY <1>0
  <2>3. SubSeq(c2s, 1, n) \in Seq(Bytes)
    BY <2>2, Split
  <2>4. skeys.recv.key = KeyIn
    BY <1>13 DEF ReadChunk, HandshakeInv, PlainInv, ObfuscatedInv, Framing, Proving
  <2>5. prefix' \in Seq(Bytes)
    <3>1. prefix' = XorInPlace(skeys.recv, SubSeq(c2s, 1, n))
      BY <2>1 DEF Leftover
    <3>2. XorInPlace(skeys.recv, SubSeq(c2s, 1, n)) \in Seq(Bytes)
      BY ONLY <1>0, <2>3, <2>4, CryptIs, KeysDiffer
    <3> QED BY <3>1, <3>2
  <2>6. c2s' \in Seq(Bytes) /\ skeys' \in [send : RC4s, recv : RC4s]
    BY <1>6, <2>1, <2>2, KeysAdvance
  <2> QED BY <1>13, <2>5, <2>6 DEF ReadChunk, Framing
<1>14. CASE ReadPrefix
  <2> DEFINE n == Smaller(Wanted, Len(prefix))
  <2>1. /\ pc \in {"header", "body"} /\ n > 0
        /\ buf' = buf \o SubSeq(prefix, 1, n) /\ prefix' = SubSeq(prefix, n + 1, Len(prefix))
    BY <1>14 DEF ReadPrefix
  <2>2. n \in 0..Len(prefix)
    BY <1>0, <1>w, <2>1, SMTT(30) DEF Smaller
  <2> HIDE DEF n
  <2>3. SubSeq(prefix, 1, n) \in Seq(Bytes) /\ SubSeq(prefix, n + 1, Len(prefix)) \in Seq(Bytes)
    BY <2>2, Split
  <2>4. buf \o SubSeq(prefix, 1, n) \in Seq(Bytes)
    BY <2>3, ConcatProperties
  <2> QED BY <1>14, <2>1, <2>3, <2>4 DEF ReadPrefix
<1>15. CASE ReadConn
  <2>1. PICK n \in 1..Smaller(Wanted, Len(c2s)) :
           /\ buf' = buf \o Crypt(skeys.recv, SubSeq(c2s, 1, n))
           /\ skeys' = [skeys EXCEPT !.recv = Advanced(@, n)]
           /\ Consume(n)
    BY <1>15 DEF ReadConn
  <2>2. n \in Nat /\ n <= Len(c2s) /\ n \in 0..Len(c2s)
    BY <1>0, <1>15, <1>w DEF ReadConn, Smaller
  <2>3. SubSeq(c2s, 1, n) \in Seq(Bytes)
    BY <2>2, Split
  <2>4. Crypt(skeys.recv, SubSeq(c2s, 1, n)) \in Seq(Bytes)
    BY <1>0, <2>3, CryptIs
  <2>5. buf' \in Seq(Bytes)
    BY <2>1, <2>4, ConcatProperties
  <2>6. c2s' \in Seq(Bytes) /\ skeys' \in [send : RC4s, recv : RC4s]
    BY <1>6, <2>1, <2>2, KeysAdvance
  <2> QED BY <1>15, <2>5, <2>6 DEF ReadConn
<1>16. CASE GotHeader
  <2>1. Len(buf) = HeaderSize
    BY <1>0, <1>16 DEF GotHeader, Wanted, HeaderSize
  <2>2. pc' \in {"closed", "body"}
    BY <1>16 DEF GotHeader
  <2> QED BY <1>16, <2>1, <2>2 DEF GotHeader, Framing
<1>17. CASE GotBody
  <2> DEFINE frame == [op |-> header[3].val[2], body |-> Unpack(header, buf)]
             fine == Legible(header[1], "edonkey") \/ (Packed(header) /\ CanInflate(buf))
  <2>1. /\ pc = "body" /\ handled' = IF fine THEN Append(handled, frame) ELSE handled
        /\ pc' \in {"closed", "reply"} /\ buf' = <<>> /\ header' = <<>>
    BY <1>17 DEF GotBody
  <2>2. ASSUME fine PROVE frame \in [op : Int, body : Seq(Bytes)]
    <3>1. header[3] \in Bytes
      <4>1. header \in Seq(Bytes) /\ Len(header) = 3
        BY <2>1 DEF HeaderSize
      <4>2. 3 \in 1..Len(header)
        BY <4>1
      <4> QED BY ONLY <4>1, <4>2, ElementOfSeq
    <3>2. header[3].val[2] \in Int
      BY <3>1 DEF Bytes
    <3>3. Unpack(header, buf) \in Seq(Bytes)
      <4>1. CASE Packed(header)
        <5>1. Inflatable(buf)
          BY <2>2, <4>1 DEF Packed, Legible, CanInflate
        <5> QED BY <4>1, <5>1, InflatedType DEF Unpack
      <4>2. CASE ~Packed(header)
        BY <4>2 DEF Unpack
      <4> QED BY <4>1, <4>2
    <3> QED BY <3>2, <3>3
  <2> HIDE DEF frame, fine
  <2>3. handled' \in Seq([op : Int, body : Seq(Bytes)])
    BY <2>1, <2>2, AppendProperties
  <2> QED BY <1>17, <2>1, <2>3 DEF GotBody, Framing
<1>18. CASE ReadEnds
  BY <1>18 DEF ReadEnds
<1>19. ASSUME NEW w \in Writers, EncryptReply(w) PROVE TypeInv'
  <2>1. PICK message \in {Byte(w, 0), Byte(w, Len(handled))} :
           /\ writer' = [writer EXCEPT ![w] = Crypt(skeys.send, <<message>>)]
           /\ said' = Append(said, message)
    BY <1>19 DEF EncryptReply
  <2>2. message \in Bytes
    <3>1. 0 \in Int /\ Len(handled) \in Int
      OBVIOUS
    <3> QED BY <3>1, AnyByte
  <2>3. <<message>> \in Seq(Bytes)
    BY <2>2
  <2>4. Crypt(skeys.send, <<message>>) \in Seq(Bytes)
    BY <1>0, <2>3, CryptIs
  <2>5. said' \in Seq(Bytes) /\ writer' \in [Writers -> Seq(Bytes)]
    BY <2>1, <2>2, <2>4, AppendProperties
  <2>6. skeys' \in [send : RC4s, recv : RC4s]
    BY <1>19, KeysAdvance DEF EncryptReply
  <2> QED BY <1>19, <2>5, <2>6 DEF EncryptReply
<1>20. ASSUME NEW w \in Writers, WriteReply(w) PROVE TypeInv'
  <2>1. s2c' \in Seq(Bytes)
    BY <1>20, ConcatProperties DEF WriteReply
  <2>2. pc' \in {pc, "header"} /\ writer' = [writer EXCEPT ![w] = <<>>]
    BY <1>20 DEF WriteReply
  <2> QED BY <1>20, <2>1, <2>2 DEF WriteReply, Framing
<1>21. ASSUME NEW w \in Writers, WriteFails(w) PROVE TypeInv'
  <2>1. pc' \in {pc, "closed"} /\ writer' = [writer EXCEPT ![w] = <<>>]
    BY <1>21 DEF WriteFails
  <2> QED BY <1>21, <2>1 DEF WriteFails
<1>22. CASE UNCHANGED vars
  BY <1>22 DEF vars
<1> QED
  BY <1>1, <1>2, <1>3, <1>4, <1>5, <1>7, <1>8, <1>9, <1>10, <1>11, <1>12, <1>13, <1>14, <1>15,
     <1>16, <1>17, <1>18, <1>19, <1>20, <1>21, <1>22
  DEF Next, Client, Serve, Handshake, ReadFrame, Send

----------------------------------------------------------------------------
(* The handshake goes as HandshakeInv says.                                *)

LEMMA InitHandshake == Init => HandshakeInv
<1> SUFFICES ASSUME Init PROVE HandshakeInv
  OBVIOUS
<1>1. PlainInv
  BY DEF Init, PlainInv
<1>2. AskingInv /\ HdrInv
  <2>1. HelloSize \in Nat
    BY ScriptIs, SizesAssumption DEF Init, HelloSize
  <2> QED BY <2>1 DEF Init, AskingInv, HdrInv, HelloRead
<1>3. ObfuscatedInv
  BY <1>2 DEF Init, ObfuscatedInv, Proving, Framing
<1> QED BY <1>1, <1>3 DEF Init, HandshakeInv, Framing

\* The setting and the client's plan never change.
LEMMA ScriptStays == [Next]_vars => UNCHANGED <<obfuscation, script>>
  BY DEF vars, setting, Next, Client, Serve, Handshake, ReadFrame, Send, Hello,
         AnswerRead, ClientSend, ClientRead, ClientLeave, ReadFirst, ReadGA, ReadPadLen, ReadPad,
         ReadHdr, ReadPad2, ReadChunk, ReadPrefix, ReadConn, GotHeader, GotBody, ReadEnds,
         EncryptReply, WriteReply, WriteFails

\* A plain connection.
LEMMA PlainStep ==
    TypeInv /\ HandshakeInv /\ RepliesInv /\ [Next]_vars /\ script.kind = "plain" => PlainInv'
<1> SUFFICES ASSUME TypeInv, HandshakeInv, RepliesInv, [Next]_vars, script.kind = "plain"
             PROVE  PlainInv'
  OBVIOUS
<1>0. /\ PlainInv /\ UNCHANGED script
      /\ client = "start" => pc = "first" /\ c2s = <<>> /\ s2c = <<>>
  BY ScriptStays DEF HandshakeInv
<1>1. \A n : [NoKeys EXCEPT !.send = Advanced(@, n)] = NoKeys
             /\ [NoKeys EXCEPT !.recv = Advanced(@, n)] = NoKeys
  BY DEF NoKeys, Advanced
<1>2. c2s \in Seq(Bytes) /\ Len(c2s) \in Nat
  BY DEF TypeInv
<1> USE DEF setting, peer, reading, PlainInv, Framing
<1>3. CASE Hello
  BY <1>0, <1>3 DEF Hello
<1>4. CASE AnswerRead
  BY <1>0, <1>4 DEF AnswerRead
<1>5. CASE ClientSend
  <2> DEFINE frame == Encode(Head(todo))
             code == Crypt(ckeys.send, frame)
  <2>1. /\ client = "ready" /\ todo # <<>> /\ c2s' = c2s \o code
        /\ ckeys' = [ckeys EXCEPT !.send = Advanced(@, Len(frame))]
        /\ UNCHANGED <<client, pc, s2c, skeys>>
    BY <1>5 DEF ClientSend
  <2>2. Head(todo) \in Frames
    BY <2>1, HeadTailProperties DEF TypeInv
  <2>3. /\ frame \in Seq(Bytes) /\ Len(frame) \in Nat /\ Len(frame) >= 3
        /\ frame[1] = Byte(Head(todo).protocol, 0)
    BY <2>2, EncodeIs, PlainAreBytes
  <2>4. code = frame
    BY <1>0 DEF Crypt, NoKeys
  <2> HIDE DEF frame, code
  <2>5. Len(c2s') >= 3 /\ c2s' \in Seq(Bytes)
    BY <1>2, <2>1, <2>3, <2>4, ConcatProperties
  <2>6. c2s = <<>> => c2s'[1] = frame[1]
    BY <1>2, <2>1, <2>3, <2>4
  <2>7. c2s # <<>> => c2s'[1] = c2s[1]
    BY <1>2, <2>1, <2>3, <2>4
  <2>8. pc = "first" => \E m \in PlainMarkers : Legible(c2s'[1], m)
    <3>1. SUFFICES ASSUME pc = "first" PROVE \E m \in PlainMarkers : Legible(c2s'[1], m)
      OBVIOUS
    <3>2. CASE c2s = <<>>
      <4>1. todo = script.frames /\ todo \in Seq(Frames)
        BY <1>0, <2>1, <3>1, <3>2 DEF TypeInv
      <4>2. Head(todo) = script.frames[1] /\ script.frames # <<>>
        BY <2>1, <4>1
      <4>3. Head(todo).protocol \in PlainMarkers
        BY <4>2, ScriptIs DEF TypeInv
      <4>4. Legible(c2s'[1], Head(todo).protocol)
        BY <2>3, <2>6, <3>2, LegibleIs
      <4> QED BY <4>3, <4>4
    <3>3. CASE c2s # <<>>
      BY <1>0, <2>7, <3>1, <3>3
    <3> QED BY <3>2, <3>3
  <2>9. ckeys' = NoKeys
    BY <1>0, <1>1, <2>1
  <2>10. c2s' # <<>>
    BY <2>5
  <2> QED BY <1>0, <2>1, <2>8, <2>9, <2>10
<1>6. CASE ClientRead
  BY <1>0, <1>1, <1>6 DEF ClientRead
<1>7. CASE ClientLeave
  <2>1. PICK n \in 0..Len(c2s) : c2s' = SubSeq(c2s, 1, n)
    BY <1>7 DEF ClientLeave
  <2>2. c2s' \in Seq(Bytes) /\ Len(c2s') = n /\ \A i \in 1..n : c2s'[i] = c2s[i]
    BY <1>2, <2>1, Split
  <2>3. c2s' # <<>> => c2s'[1] = c2s[1] /\ c2s # <<>>
    BY <1>2, <2>2
  <2> QED BY <1>0, <1>7, <2>3 DEF ClientLeave
<1>8. CASE ReadFirst
  <2>1. pc = "first" /\ c2s # <<>> /\ \E m \in PlainMarkers : Legible(c2s[1], m)
    BY <1>0, <1>8 DEF ReadFirst
  <2>2. pc' = "header" /\ UNCHANGED <<client, ckeys, skeys>>
    BY <1>8, <2>1 DEF ReadFirst
  <2> QED BY <1>0, <2>2
<1>9. CASE ReadGA \/ ReadPadLen \/ ReadPad \/ ReadHdr \/ ReadPad2 \/ ReadChunk
  BY <1>0, <1>9 DEF ReadGA, ReadPadLen, ReadPad, ReadHdr, ReadPad2, ReadChunk
<1>10. CASE ReadPrefix
  BY <1>0, <1>10 DEF ReadPrefix
<1>11. CASE ReadConn
  <2>1. PICK n : skeys' = [skeys EXCEPT !.recv = Advanced(@, n)]
    BY <1>11 DEF ReadConn
  <2>2. skeys' = NoKeys
    BY <1>0, <1>1, <2>1
  <2> QED BY <1>0, <1>11, <2>2 DEF ReadConn
<1>12. CASE GotHeader
  <2>1. pc' \in {"closed", "body"} /\ UNCHANGED <<client, ckeys, skeys>>
    BY <1>12 DEF GotHeader
  <2> QED BY <1>0, <2>1
<1>13. CASE GotBody
  <2>1. pc' \in {"closed", "reply"} /\ UNCHANGED <<client, ckeys, skeys>>
    BY <1>13 DEF GotBody
  <2> QED BY <1>0, <2>1
<1>14. CASE ReadEnds
  BY <1>0, <1>14 DEF ReadEnds
<1>15. ASSUME NEW w \in Writers, EncryptReply(w) PROVE PlainInv'
  BY <1>0, <1>1, <1>15 DEF EncryptReply
<1>16. ASSUME NEW w \in Writers, WriteReply(w) PROVE PlainInv'
  <2>1. handled # <<>>
    BY <1>16 DEF WriteReply, RepliesInv, WriteMuFree
  <2>2. pc \in Framing
    BY <1>16, <2>1 DEF WriteReply, HandshakeInv
  <2>3. pc' \in {pc, "header"} /\ UNCHANGED <<client, ckeys, skeys>>
    BY <1>16 DEF WriteReply
  <2> QED BY <1>0, <2>2, <2>3
<1>17. ASSUME NEW w \in Writers, WriteFails(w) PROVE PlainInv'
  <2>1. pc' \in {pc, "closed"} /\ UNCHANGED <<client, ckeys, skeys, c2s, s2c, todo>>
    BY <1>17 DEF WriteFails
  <2> QED BY <1>0, <2>1
<1>18. CASE UNCHANGED vars
  BY <1>0, <1>18 DEF vars
<1> QED
  BY <1>3, <1>4, <1>5, <1>6, <1>7, <1>8, <1>9, <1>10, <1>11, <1>12, <1>13, <1>14, <1>15, <1>16,
     <1>17, <1>18
  DEF Next, Client, Serve, Handshake, ReadFrame, Send

\* A connection that does not begin with a protocol marker.
LEMMA ObfuscatedStep ==
    TypeInv /\ HandshakeInv /\ RepliesInv /\ [Next]_vars /\ script.kind # "plain" => ObfuscatedInv'
<1> SUFFICES ASSUME TypeInv, HandshakeInv, RepliesInv, [Next]_vars, script.kind # "plain"
             PROVE  ObfuscatedInv'
  OBVIOUS
<1>0. /\ ObfuscatedInv /\ UNCHANGED <<obfuscation, script>>
      /\ client = "start" => pc = "first" /\ c2s = <<>> /\ s2c = <<>>
      /\ client \in {"start", "probe", "hello"} => pc \notin Framing \cup {"pad2", "chunk"}
      /\ handled # <<>> => client \in {"ready", "left"} /\ pc \in Framing \cup {"closed"}
  BY ScriptStays DEF HandshakeInv
<1>1. /\ script.pad1 \in Nat /\ script.pad2 \in Nat /\ script.kind \in {"probe", "obfuscated"}
      /\ script.marker \notin PlainMarkers
      /\ PrimeSize \in Nat /\ PrimeSize > 0 /\ MaxPad \in Nat
  BY ScriptIs, SizesAssumption DEF TypeInv
<1>2. /\ c2s \in Seq(Bytes) /\ Len(c2s) \in Nat /\ s2c \in Seq(Bytes) /\ Len(s2c) \in Nat
      /\ skeys \in [send : RC4s, recv : RC4s] /\ ckeys \in [send : RC4s, recv : RC4s]
      /\ skeys.recv \in RC4s /\ skeys.send \in RC4s /\ ckeys.recv \in RC4s /\ ckeys.send \in RC4s
  BY DEF TypeInv
<1>3. /\ HelloSize' = HelloSize /\ ReplySize' = ReplySize /\ HelloSize \in Nat /\ ReplySize \in Nat
      /\ \A i : HelloAt(i)' = HelloAt(i) /\ ReplyAt(i)' = ReplyAt(i)
  BY <1>0, <1>1 DEF HelloSize, ReplySize, HelloAt, ReplyAt
<1>4. AskingInv /\ HdrInv
  BY <1>0 DEF ObfuscatedInv
\* What has still to be shown when the server goes on with the handshake.
<1>5. ASSUME pc' \in Asking \cup Proving, UNCHANGED <<client, handled, ckeys>>, handled = <<>>,
             AskingInv', HdrInv',
             pc' \in Proving =>
                /\ script.kind = "obfuscated" /\ script.number = "client"
                /\ script.pad1 <= MaxPad /\ obfuscation
                /\ skeys'.send.key = KeyOut /\ skeys'.recv.key = KeyIn
                /\ pc' # "hdr" => Honest(script)
      PROVE  ObfuscatedInv'
  BY <1>0, <1>5 DEF ObfuscatedInv, Asking, Proving, Framing
\* ... and when it closes the connection.
<1>6. ASSUME pc' = "closed", UNCHANGED <<client, ckeys>>,
             client = "hello" => Len(s2c') <= 1,
             handled' # <<>> => Honest(script) /\ obfuscation
      PROVE  ObfuscatedInv'
  BY <1>0, <1>6 DEF ObfuscatedInv, AskingInv, HdrInv, Asking, Proving, Framing
\* The handshake is over.
<1>7. ASSUME pc \in Framing \cup {"chunk"}, pc' \in Framing, UNCHANGED <<client, ckeys>>,
             skeys'.send.key = skeys.send.key, skeys'.recv.key = skeys.recv.key
      PROVE  ObfuscatedInv'
  BY <1>0, <1>7 DEF ObfuscatedInv, AskingInv, HdrInv, Asking, Proving, Framing
<1>8. pc \in Framing => Honest(script) /\ obfuscation /\ client # "hello"
  BY <1>0 DEF ObfuscatedInv, Framing, Proving
<1>9. pc \in Asking \cup Proving => handled = <<>>
  BY <1>0 DEF Asking, Proving, Framing
<1> USE DEF setting, peer, reading
<1>10. CASE Hello
  <2>1. client = "start" /\ pc = "first" /\ UNCHANGED <<pc, s2c, skeys, ckeys, handled, local>>
    BY <1>0, <1>10 DEF Hello
  <2>2. \/ script.kind = "probe" /\ client' = "probe" /\ c2s' = <<Byte(script.marker, 0)>>
        \/ script.kind = "obfuscated" /\ client' = "hello" /\ c2s' = HelloBytes(script)
    BY <1>1, <1>10 DEF Hello
  <2>3. Len(c2s') <= HelloSize /\ \A i \in 1..Len(c2s') : c2s'[i] = HelloAt(i)
    <3>1. CASE script.kind = "probe"
      <4>1. c2s' = <<Byte(script.marker, 0)>>
        BY <2>2, <3>1
      <4>2. Len(c2s') = 1 /\ c2s'[1] = HelloAt(1)
        BY <4>1 DEF HelloAt
      <4> QED BY <3>1, <4>2 DEF HelloSize
    <3>2. CASE script.kind = "obfuscated"
      <4>1. c2s' = HelloBytes(script) /\ Len(c2s') = HelloSize
            /\ \A i \in 1..HelloSize : c2s'[i] = HelloAt(i)
        BY <2>2, <3>2, HelloIs DEF TypeInv
      <4> QED BY <1>3, <4>1
    <3> QED BY <1>1, <3>1, <3>2
  <2>4. AskingInv'
    <3>1. HelloRead' = 0 /\ \A i \in 1..Len(c2s') : 0 + i = i
      BY <2>1 DEF HelloRead
    <3>2. HelloSize' - HelloRead' = HelloSize
      BY <1>3, <3>1
    <3>3. \A i \in 1..Len(c2s') : c2s'[i] = HelloAt(HelloRead + i)'
      BY <1>3, <2>3, <3>1
    <3> QED BY <1>4, <2>1, <2>2, <2>3, <3>2, <3>3 DEF AskingInv, Asking
  <2>5. HdrInv'
    BY <2>1 DEF HdrInv
  <2>6. handled = <<>>
    BY <1>0, <2>1
  <2> QED BY <1>0, <2>1, <2>2, <2>4, <2>5, <2>6 DEF ObfuscatedInv, Asking, Proving, Framing
<1>11. CASE AnswerRead
  <2>1. /\ pc = "hdr" /\ script.kind = "obfuscated" /\ client' = "ready"
        /\ ckeys'.send.key = KeyIn /\ ckeys'.recv.key = KeyOut
        /\ Len(c2s') = ReplySize
        /\ \A i \in 1..ReplySize : c2s'[i] = Sealed(KeyIn, i, ReplyAt(i))
    BY <1>11, AnswerReadIs
  <2>2. UNCHANGED <<pc, skeys, handled, local>>
    BY <1>11 DEF AnswerRead
  <2>3. HdrInv'
    BY <1>3, <1>4, <2>1, <2>2 DEF HdrInv
  <2>4. AskingInv'
    BY <2>1, <2>2 DEF AskingInv, Asking
  <2> QED BY <1>0, <2>1, <2>2, <2>3, <2>4 DEF ObfuscatedInv, Proving, Framing
<1>12. CASE ClientSend
  <2> DEFINE code == Crypt(ckeys.send, Encode(Head(todo)))
  <2>1. /\ client = "ready" /\ todo # <<>> /\ c2s' = c2s \o code
        /\ ckeys' = [ckeys EXCEPT !.send = Advanced(@, Len(Encode(Head(todo))))]
        /\ UNCHANGED <<client, pc, s2c, skeys, handled, local>>
    BY <1>12 DEF ClientSend
  <2>2. Head(todo) \in Frames
    BY <2>1, HeadTailProperties DEF TypeInv
  <2>3. Encode(Head(todo)) \in Seq(Bytes) /\ Len(Encode(Head(todo))) \in Nat
    BY <2>2, EncodeIs, PlainAreBytes
  <2>4. code \in Seq(Bytes)
    BY <1>2, <2>3, CryptIs
  <2> HIDE DEF code
  <2>5. Len(c2s') >= Len(c2s) /\ \A i \in 1..Len(c2s) : c2s'[i] = c2s[i]
    <3>1. /\ Len(c2s \o code) = Len(c2s) + Len(code) /\ Len(code) \in Nat
          /\ \A i \in 1..Len(c2s) : (c2s \o code)[i] = c2s[i]
      BY ONLY <1>2, <2>4, Joined
    <3> QED BY <1>2, <2>1, <3>1
  <2>6. ckeys'.send.key = ckeys.send.key /\ ckeys'.recv = ckeys.recv
    BY <1>2, <2>1, <2>3, AdvancedIs
  <2>7. pc \notin Asking
    BY <1>4, <2>1 DEF AskingInv
  <2>8. HdrInv'
    <3>1. SUFFICES ASSUME pc = "hdr" PROVE HdrInv'
      BY <2>1 DEF HdrInv
    <3>2. /\ skeys.recv.pos = 0 /\ Len(c2s) >= ReplySize
          /\ \A i \in 1..Len(c2s) : i <= ReplySize => c2s[i] = Sealed(KeyIn, i, ReplyAt(i))
      BY <1>4, <2>1, <3>1 DEF HdrInv
    <3>3. ASSUME NEW i \in 1..Len(c2s'), i <= ReplySize
          PROVE  c2s'[i] = Sealed(KeyIn, i, ReplyAt(i))
      BY <1>2, <1>3, <2>5, <3>2, <3>3
    <3>4. Len(c2s') >= ReplySize
      <4>1. Len(c2s') \in Int
        BY <2>1, <2>4, <1>2, ConcatProperties
      <4> QED BY ONLY <4>1, <1>2, <1>3, <2>5, <3>2
    <3> QED BY <1>3, <2>1, <3>2, <3>3, <3>4 DEF HdrInv
  <2>9. AskingInv'
    BY <2>1, <2>7 DEF AskingInv
  <2> QED BY <1>0, <2>1, <2>6, <2>8, <2>9 DEF ObfuscatedInv, Proving, Framing
<1>13. CASE ClientRead
  <2>1. /\ client = "ready" /\ ckeys' = [ckeys EXCEPT !.recv = Advanced(@, Len(s2c))]
        /\ UNCHANGED <<client, pc, c2s, skeys, handled, local>>
    BY <1>13 DEF ClientRead
  <2>2. ckeys'.recv.key = ckeys.recv.key /\ ckeys'.send = ckeys.send
    BY <1>2, <2>1, AdvancedIs
  <2>3. AskingInv'
    BY <1>4, <2>1 DEF AskingInv
  <2>4. HdrInv'
    BY <1>3, <1>4, <2>1 DEF HdrInv
  <2> QED BY <1>0, <2>1, <2>2, <2>3, <2>4 DEF ObfuscatedInv, Proving, Framing
<1>14. CASE ClientLeave
  <2>1. PICK n \in 0..Len(c2s) : c2s' = SubSeq(c2s, 1, n)
    BY <1>14 DEF ClientLeave
  <2>2. Len(c2s') = n /\ \A i \in 1..n : c2s'[i] = c2s[i]
    BY <1>2, <2>1, Split
  <2>3. client' = "left" /\ UNCHANGED <<pc, s2c, skeys, ckeys, handled, local>>
    BY <1>14 DEF ClientLeave
  <2>4. n <= Len(c2s) /\ n \in Nat /\ \A i \in 1..n : i \in 1..Len(c2s)
    BY <1>2
  <2>5. HdrInv'
    BY <1>3, <1>4, <2>2, <2>3, <2>4 DEF HdrInv
  <2>6. AskingInv'
    <3>1. SUFFICES ASSUME pc \in Asking PROVE AskingInv'
      BY <2>3 DEF AskingInv
    <3>2. HelloRead' = HelloRead /\ HelloRead \in Nat
      BY <1>1, <2>3 DEF HelloRead
    <3>3. Len(c2s) <= HelloSize - HelloRead /\ \A i \in 1..Len(c2s) : c2s[i] = HelloAt(HelloRead + i)
      BY <1>4, <3>1 DEF AskingInv
    <3>4. Len(c2s') <= HelloSize' - HelloRead'
      BY <1>2, <1>3, <2>2, <2>4, <3>2, <3>3
    <3>5. \A i \in 1..Len(c2s') : c2s'[i] = HelloAt(HelloRead + i)'
      BY <1>3, <2>2, <2>4, <3>2, <3>3
    <3> QED BY <1>0, <1>4, <2>3, <3>1, <3>4, <3>5 DEF AskingInv
  <2> QED BY <1>0, <2>3, <2>5, <2>6 DEF ObfuscatedInv, Proving, Framing
\* The server reads n bytes more of what the client says first.
<1>15. ASSUME NEW n \in 0..Len(c2s), Consume(n), pc \in Asking, HelloRead' = HelloRead + n
       PROVE  /\ Len(c2s') <= HelloSize' - HelloRead'
              /\ \A i \in 1..Len(c2s') : c2s'[i] = HelloAt(HelloRead + i)'
  <2>1. HelloRead \in Nat /\ n \in Nat
    BY <1>1, <1>2 DEF HelloRead
  <2>2. Len(c2s) <= HelloSize - HelloRead /\ \A i \in 1..Len(c2s) : c2s[i] = HelloAt(HelloRead + i)
    BY <1>4, <1>15 DEF AskingInv
  <2>3. Len(c2s') = Len(c2s) - n /\ \A i \in 1..(Len(c2s) - n) : c2s'[i] = c2s[n + i]
    BY <1>2, <1>15, ConsumeIs
  <2>4. Len(c2s') <= HelloSize' - HelloRead'
    BY <1>2, <1>3, <1>15, <2>1, <2>2, <2>3
  <2>5. ASSUME NEW i \in 1..Len(c2s') PROVE c2s'[i] = HelloAt(HelloRead + i)'
    <3>1. n + i \in 1..Len(c2s) /\ i \in 1..(Len(c2s) - n) /\ HelloRead + (n + i) = HelloRead + n + i
      BY <1>2, <2>1, <2>3
    <3>2. c2s'[i] = HelloAt(HelloRead + n + i)
      BY <2>2, <2>3, <3>1
    <3> QED BY <1>3, <1>15, <3>2
  <2> QED BY <2>4, <2>5
<1>16. CASE ReadFirst
  <2>1. /\ pc = "first" /\ c2s # <<>> /\ Consume(1)
        /\ UNCHANGED <<client, ckeys, handled, skeys, local>>
    BY <1>16 DEF ReadFirst
  <2>2. 1 \in 0..Len(c2s) /\ 1 \in 1..Len(c2s)
    BY <1>2, <2>1
  <2>3. c2s[1] = Byte(script.marker, 0)
    <3>1. c2s[1] = HelloAt(0 + 1)
      BY <1>4, <2>1, <2>2 DEF AskingInv, HelloRead, Asking
    <3> QED BY <3>1 DEF HelloAt
  <2>4. ~ \E m \in PlainMarkers : Legible(c2s[1], m)
    BY <1>1, <2>3, LegibleIs
  <2>5. s2c = <<>> /\ handled = <<>> /\ skeys = NoKeys /\ client # "ready"
    BY <1>4, <1>9, <2>1 DEF AskingInv, Asking
  <2>6. \/ pc' = "ga" /\ obfuscation /\ UNCHANGED s2c
        \/ pc' = "closed" /\ (UNCHANGED s2c \/ s2c' = Append(s2c, Byte("400", 0)))
    BY <1>16, <2>4 DEF ReadFirst
  <2>7. CASE pc' = "ga"
    <3>1. HelloRead' = HelloRead + 1
      BY <2>1, <2>7 DEF HelloRead
    <3>2. /\ Len(c2s') <= HelloSize' - HelloRead'
          /\ \A i \in 1..Len(c2s') : c2s'[i] = HelloAt(HelloRead + i)'
      BY <1>15, <2>1, <2>2, <3>1 DEF Asking
    <3>3. AskingInv'
      BY <1>0, <2>1, <2>5, <2>6, <2>7, <3>2 DEF AskingInv
    <3>4. HdrInv'
      BY <2>7 DEF HdrInv
    <3> QED BY <1>5, <2>1, <2>5, <2>7, <3>3, <3>4 DEF Asking, Proving
  <2>8. CASE pc' = "closed"
    <3>1. Len(s2c') <= 1
      <4>0. Byte("400", 0) \in PlainBytes
        BY PlainByte, KindsAssumption
      <4>1. Byte("400", 0) \in Bytes /\ s2c \in Seq(Bytes) /\ Len(s2c) = 0
        BY ONLY <2>5, <4>0, PlainAreBytes
      <4>2. Len(Append(s2c, Byte("400", 0))) = 0 + 1
        BY ONLY <4>1, AppendProperties
      <4>3. s2c' = s2c \/ s2c' = Append(s2c, Byte("400", 0))
        BY <2>6, <2>8
      <4>4. Len(s2c') \in {0, 0 + 1}
        BY ONLY <4>1, <4>2, <4>3
      <4>5. \A n \in {0, 0 + 1} : n <= 1
        OBVIOUS
      <4> QED BY ONLY <4>4, <4>5
    <3> QED BY <1>6, <2>1, <2>5, <2>8, <3>1
  <2> QED BY <2>6, <2>7, <2>8
<1>17. CASE ReadGA
  <2>1. /\ pc = "ga" /\ PrimeSize \in 0..Len(c2s) /\ Consume(PrimeSize) /\ pc' = "padlen"
        /\ local'.ga = SubSeq(c2s, 1, PrimeSize)
        /\ UNCHANGED <<client, ckeys, handled, skeys, s2c>>
    BY <1>1, <1>2, <1>17, SMTT(30) DEF ReadGA, TypeInv
  <2>2. HelloRead = 1 /\ HelloRead' = HelloRead + PrimeSize
    BY <1>1, <2>1 DEF HelloRead
  <2>3. /\ s2c = <<>> /\ handled = <<>> /\ skeys = NoKeys /\ client # "ready" /\ obfuscation
        /\ Len(c2s) <= HelloSize - HelloRead
        /\ \A i \in 1..Len(c2s) : c2s[i] = HelloAt(HelloRead + i)
    BY <1>4, <1>9, <2>1 DEF AskingInv, Asking
  <2>4. script.kind = "obfuscated"
    BY <1>1, <1>2, <2>1, <2>2, <2>3 DEF HelloSize
  <2>5. local'.ga = Public(script.number)
    <3> DEFINE ga == SubSeq(c2s, 1, PrimeSize)
    <3>1. ga \in Seq(Bytes) /\ Len(ga) = PrimeSize /\ \A i \in 1..PrimeSize : ga[i] = c2s[i]
      BY <1>2, <2>1, Split
    <3>2. /\ Public(script.number) \in Seq(PlainBytes) /\ Len(Public(script.number)) = PrimeSize
          /\ \A i \in 1..PrimeSize : Public(script.number)[i] = Byte(script.number, i)
      BY ScriptIs, PublicIs DEF TypeInv
    <3>3. Public(script.number) \in Seq(Bytes)
      BY <3>2, PlainAreBytes
    <3> HIDE DEF ga
    <3>4. ASSUME NEW i \in 1..PrimeSize PROVE ga[i] = Byte(script.number, i)
      <4>1. i \in 1..Len(c2s) /\ 1 + i # 1 /\ 1 + i <= PrimeSize + 1 /\ (1 + i) - 1 = i
        BY <1>1, <1>2, <2>1
      <4>2. HelloAt(1 + i) = Byte(script.number, i)
        BY <4>1 DEF HelloAt
      <4> QED BY <2>2, <2>3, <3>1, <4>1, <4>2
    <3>5. ga = Public(script.number)
      BY <3>1, <3>2, <3>3, <3>4, SeqEqual
    <3> QED BY <2>1, <3>5 DEF ga
  <2>6. /\ Len(c2s') <= HelloSize' - HelloRead'
        /\ \A i \in 1..Len(c2s') : c2s'[i] = HelloAt(HelloRead + i)'
    BY <1>15, <2>1, <2>2 DEF Asking
  <2>7. AskingInv'
    BY <1>0, <2>1, <2>3, <2>4, <2>5, <2>6 DEF AskingInv
  <2>8. HdrInv'
    BY <2>1 DEF HdrInv
  <2> QED BY <1>5, <2>1, <2>3, <2>7, <2>8 DEF Asking, Proving
<1>18. CASE ReadPadLen
  <2>1. /\ pc = "padlen" /\ 1 \in 0..Len(c2s) /\ 1 \in 1..Len(c2s) /\ Consume(1)
        /\ local' = [local EXCEPT !.pad = Number(c2s[1])]
        /\ pc' = IF Number(c2s[1]) \in 0..MaxPad THEN "pad" ELSE "closed"
        /\ UNCHANGED <<client, ckeys, handled, skeys, s2c>>
    BY <1>2, <1>18 DEF ReadPadLen
  <2>2. HelloRead = PrimeSize + 1
    BY <2>1 DEF HelloRead
  <2>3. /\ s2c = <<>> /\ handled = <<>> /\ skeys = NoKeys /\ client # "ready" /\ obfuscation
        /\ script.kind = "obfuscated" /\ local.ga = Public(script.number)
        /\ c2s[1] = HelloAt(PrimeSize + 1 + 1)
    BY <1>4, <1>9, <2>1, <2>2 DEF AskingInv, Asking
  <2>4. c2s[1] = Byte("n", script.pad1)
    <3>1. /\ PrimeSize + 1 + 1 # 1 /\ ~(PrimeSize + 1 + 1 <= PrimeSize + 1)
          /\ PrimeSize + 1 + 1 = PrimeSize + 2
      BY <1>1
    <3> QED BY <2>3, <3>1 DEF HelloAt
  <2>5. Number(c2s[1]) = script.pad1
    BY <1>1, <2>4, NumberIs
  <2>6. CASE pc' = "pad"
    <3>1. HelloRead' = HelloRead + 1
      BY <1>1, <2>2, <2>6 DEF HelloRead
    <3>2. /\ Len(c2s') <= HelloSize' - HelloRead'
          /\ \A i \in 1..Len(c2s') : c2s'[i] = HelloAt(HelloRead + i)'
      BY <1>15, <2>1, <3>1 DEF Asking
    <3>3. script.pad1 <= MaxPad /\ local'.pad = script.pad1 /\ local'.ga = local.ga
      BY <1>1, <2>1, <2>5, <2>6 DEF TypeInv
    <3>4. AskingInv'
      BY <1>0, <2>1, <2>3, <2>6, <3>2, <3>3 DEF AskingInv
    <3>5. HdrInv'
      BY <2>6 DEF HdrInv
    <3> QED BY <1>5, <2>1, <2>3, <2>6, <3>4, <3>5 DEF Asking, Proving
  <2>7. CASE pc' = "closed"
    BY <1>6, <2>1, <2>3, <2>7
  <2> QED BY <2>1, <2>6, <2>7
<1>19. CASE ReadPad
  <2>1. pc = "pad" /\ UNCHANGED <<client, ckeys, handled>>
    BY <1>19 DEF ReadPad
  <2>2. s2c = <<>> /\ handled = <<>>
    BY <1>4, <1>9, <2>1 DEF AskingInv, Asking
  <2>3. /\ script.kind = "obfuscated" /\ client # "ready" /\ c2s' = <<>>
        /\ \/ pc' = "closed" /\ UNCHANGED <<s2c, skeys>>
           \/ /\ pc' = "hdr" /\ script.number = "client" /\ script.pad1 <= MaxPad /\ obfuscation
              /\ skeys'.send.key = KeyOut /\ skeys'.recv = [key |-> KeyIn, pos |-> 0]
              /\ \E n \in 0..MaxPad : Answer(n)'
    BY <1>19, ReadPadIs
  <2>4. CASE pc' = "hdr"
    <3>1. HdrInv'
      BY <2>1, <2>3, <2>4 DEF HdrInv
    <3>2. AskingInv'
      BY <2>4 DEF AskingInv, Asking
    <3>3. skeys'.recv.key = KeyIn
      BY <2>3, <2>4
    <3> QED BY <1>5, <2>1, <2>2, <2>3, <2>4, <3>1, <3>2, <3>3 DEF Proving
  <2>5. CASE pc' = "closed"
    BY <1>6, <2>1, <2>2, <2>3, <2>5
  <2> QED BY <2>3, <2>4, <2>5
<1>20. ASSUME NEW n \in Nat, skeys' = [skeys EXCEPT !.recv = Advanced(@, n)]
       PROVE  skeys'.send = skeys.send /\ skeys'.recv.key = skeys.recv.key
  BY <1>2, <1>20, AdvancedIs
<1>21. CASE ReadHdr
  <2>1. /\ pc = "hdr" /\ skeys' = [skeys EXCEPT !.recv = Advanced(@, 3)]
        /\ UNCHANGED <<client, ckeys, handled, s2c>>
    BY <1>21 DEF ReadHdr, TailSize
  <2>2. pc' \in {"pad2", "closed"} /\ client \in {"ready", "left"} /\ (pc' = "pad2" => Honest(script))
    BY <1>21, ReadHdrIs
  <2>3. skeys'.send = skeys.send /\ skeys'.recv.key = skeys.recv.key
    BY <1>20, <2>1
  <2>4. handled = <<>>
    BY <1>9, <2>1 DEF Proving
  <2>5. CASE pc' = "pad2"
    <3>1. AskingInv' /\ HdrInv'
      BY <2>5 DEF AskingInv, HdrInv, Asking
    <3> QED BY <1>0, <1>5, <2>1, <2>2, <2>3, <2>4, <2>5, <3>1 DEF ObfuscatedInv, Proving
  <2>6. CASE pc' = "closed"
    BY <1>6, <2>1, <2>2, <2>4, <2>6
  <2> QED BY <2>2, <2>5, <2>6
<1>22. CASE ReadPad2
  <2>1. /\ pc = "pad2" /\ pc' = "chunk" /\ skeys' = [skeys EXCEPT !.recv = Advanced(@, local.pad)]
        /\ UNCHANGED <<client, ckeys, handled, s2c>>
    BY <1>22 DEF ReadPad2
  <2>2. local.pad \in Nat
    BY <2>1 DEF HandshakeInv
  <2>3. skeys'.send = skeys.send /\ skeys'.recv.key = skeys.recv.key
    BY <1>20, <2>1, <2>2
  <2>4. AskingInv' /\ HdrInv'
    BY <2>1 DEF AskingInv, HdrInv, Asking
  <2>5. handled = <<>>
    BY <1>9, <2>1 DEF Proving
  <2> QED BY <1>0, <1>5, <2>1, <2>3, <2>4, <2>5 DEF ObfuscatedInv, Proving
<1>23. CASE ReadChunk
  <2>1. PICK n \in 1..Len(c2s) : skeys' = [skeys EXCEPT !.recv = Advanced(@, n)]
    BY <1>23 DEF ReadChunk
  <2>2. skeys'.send = skeys.send /\ skeys'.recv.key = skeys.recv.key
    BY <1>2, <1>20, <2>1
  <2> QED BY <1>7, <1>23, <2>2 DEF ReadChunk, Framing
<1>24. CASE ReadPrefix
  BY <1>7, <1>24 DEF ReadPrefix, Framing
<1>25. CASE ReadConn
  <2>1. PICK n \in 1..Smaller(Wanted, Len(c2s)) : skeys' = [skeys EXCEPT !.recv = Advanced(@, n)]
    BY <1>25 DEF ReadConn
  <2>2. n \in Nat
    OBVIOUS
  <2>3. skeys'.send = skeys.send /\ skeys'.recv.key = skeys.recv.key
    BY <1>20, <2>1, <2>2
  <2> QED BY <1>7, <1>25, <2>3 DEF ReadConn, Framing
<1>26. CASE GotHeader
  <2>1. pc = "header" /\ pc' \in {"closed", "body"} /\ UNCHANGED <<client, ckeys, skeys, handled>>
    BY <1>26 DEF GotHeader
  <2>2. CASE pc' = "body"
    BY <1>7, <2>1, <2>2 DEF Framing
  <2>3. CASE pc' = "closed"
    BY <1>6, <1>8, <2>1, <2>3 DEF Framing
  <2> QED BY <2>1, <2>2, <2>3
<1>27. CASE GotBody
  <2>1. pc = "body" /\ pc' \in {"closed", "reply"} /\ UNCHANGED <<client, ckeys, skeys>>
    BY <1>27 DEF GotBody
  <2>2. CASE pc' = "reply"
    BY <1>7, <2>1, <2>2 DEF Framing
  <2>3. CASE pc' = "closed"
    BY <1>6, <1>8, <2>1, <2>3 DEF Framing
  <2> QED BY <2>1, <2>2, <2>3
<1>28. CASE ReadEnds
  <2>1. client = "left" /\ pc' = "closed" /\ UNCHANGED <<client, ckeys, handled>>
    BY <1>28 DEF ReadEnds
  <2>2. handled # <<>> => Honest(script) /\ obfuscation
    BY <1>0 DEF ObfuscatedInv
  <2> QED BY <1>6, <2>1, <2>2
<1>29. ASSUME NEW w \in Writers, EncryptReply(w) PROVE ObfuscatedInv'
  <2>1. /\ UNCHANGED <<pc, client, ckeys, handled, s2c, c2s>>
        /\ skeys' = [skeys EXCEPT !.send = Advanced(@, 1)]
    BY <1>29 DEF EncryptReply
  <2>2. skeys'.send.key = skeys.send.key /\ skeys'.recv = skeys.recv
    BY <1>2, <2>1, AdvancedIs
  <2>3. (handled # <<>> /\ pc # "closed") \/ pc = "reply"
    BY <1>29 DEF EncryptReply, Wants
  <2>4. pc \in Framing
    BY <1>0, <2>3 DEF Framing
  <2> QED BY <1>7, <2>1, <2>2, <2>4
<1>30. ASSUME NEW w \in Writers, WriteReply(w) PROVE ObfuscatedInv'
  <2>1. handled # <<>>
    BY <1>30 DEF WriteReply, RepliesInv, WriteMuFree
  <2>2. pc \in Framing
    BY <1>0, <1>30, <2>1 DEF WriteReply
  <2>3. pc' \in {pc, "header"} /\ UNCHANGED <<client, ckeys, skeys>>
    BY <1>30 DEF WriteReply
  <2>4. pc' \in Framing
    BY <2>2, <2>3 DEF Framing
  <2> QED BY <1>7, <2>2, <2>3, <2>4
<1>31. ASSUME NEW w \in Writers, WriteFails(w) PROVE ObfuscatedInv'
  <2>1. pc' \in {pc, "closed"} /\ UNCHANGED <<client, ckeys, skeys, c2s, s2c, handled, local>>
    BY <1>31 DEF WriteFails
  <2>2. handled # <<>>
    BY <1>31 DEF WriteFails, RepliesInv, WriteMuFree
  <2>3. client # "hello" /\ Honest(script) /\ obfuscation
    BY <1>0, <2>2 DEF ObfuscatedInv
  <2>4. CASE pc' = "closed"
    BY <1>6, <2>1, <2>3, <2>4
  <2>5. CASE pc' = pc /\ pc # "closed"
    BY <1>0, <1>7, <2>1, <2>2, <2>5
  <2> QED BY <2>1, <2>4, <2>5
<1>32. CASE UNCHANGED vars
  <2>1. UNCHANGED <<obfuscation, script, client, ckeys, c2s, s2c, pc, local, skeys, handled>>
    BY <1>32 DEF vars
  <2>2. HelloRead' = HelloRead
    BY <2>1 DEF HelloRead
  <2>3. AskingInv'
    BY <1>3, <1>4, <2>1, <2>2 DEF AskingInv
  <2>4. HdrInv'
    BY <1>3, <1>4, <2>1 DEF HdrInv, Answer
  <2> QED BY <1>0, <2>1, <2>3, <2>4 DEF ObfuscatedInv
<1> QED
  BY <1>10, <1>11, <1>12, <1>13, <1>14, <1>16, <1>17, <1>18, <1>19, <1>21, <1>22, <1>23, <1>24,
     <1>25, <1>26, <1>27, <1>28, <1>29, <1>30, <1>31, <1>32
  DEF Next, Client, Serve, Handshake, ReadFrame, Send

\* Every step keeps the handshake's invariant, for either kind of client.
LEMMA HandshakeStep == TypeInv /\ HandshakeInv /\ RepliesInv /\ [Next]_vars => HandshakeInv'
<1> SUFFICES ASSUME TypeInv, HandshakeInv, RepliesInv, [Next]_vars PROVE HandshakeInv'
  OBVIOUS
<1>0. IF script'.kind = "plain" THEN PlainInv' ELSE ObfuscatedInv'
  BY ScriptStays, PlainStep, ObfuscatedStep
<1>1. MaxPad \in Nat /\ script.pad2 \in Nat
  BY ScriptIs, SizesAssumption DEF TypeInv
<1>2. /\ client = "start" => pc = "first" /\ c2s = <<>> /\ s2c = <<>>
      /\ client \in {"start", "probe", "hello"} => heard = <<>> /\ pc \notin Framing \cup {"pad2", "chunk"}
      /\ handled # <<>> => client \in {"ready", "left"} /\ pc \in Framing \cup {"closed"}
      /\ pc = "reply" => handled # <<>>
      /\ pc \in {"pad", "pad2"} => local.pad \in Nat
  BY DEF HandshakeInv
<1> DEFINE Common ==
      /\ client = "start" => pc = "first" /\ c2s = <<>> /\ s2c = <<>>
      /\ client \in {"start", "probe", "hello"} => heard = <<>> /\ pc \notin Framing \cup {"pad2", "chunk"}
      /\ handled # <<>> => client \in {"ready", "left"} /\ pc \in Framing \cup {"closed"}
      /\ pc = "reply" => handled # <<>>
      /\ pc \in {"pad", "pad2"} => local.pad \in Nat
<1>3. SUFFICES Common'
  BY <1>0 DEF HandshakeInv
<1> USE DEF setting, peer, reading, Framing
<1>4. CASE Hello
  <2>1. client' \in {"ready", "probe", "hello"}
    BY <1>4, ScriptIs DEF Hello, TypeInv
  <2>2. client = "start" /\ UNCHANGED <<pc, heard, handled, local>>
    BY <1>4 DEF Hello
  <2> QED BY <1>2, <2>1, <2>2
<1>5. CASE AnswerRead
  <2>1. pc = "hdr" /\ client' = "ready"
    BY <1>5, AnswerReadIs
  <2>2. UNCHANGED <<pc, handled, local>>
    BY <1>5 DEF AnswerRead
  <2> QED BY <1>2, <2>1, <2>2
<1>6. CASE ClientSend \/ ClientRead
  BY <1>2, <1>6 DEF ClientSend, ClientRead
<1>7. CASE ClientLeave
  BY <1>2, <1>7 DEF ClientLeave
<1>8. CASE ReadFirst
  <2>1. /\ pc = "first" /\ c2s # <<>> /\ pc' \in {"header", "ga", "closed"}
        /\ UNCHANGED <<client, heard, handled, local, skeys>>
    BY <1>8 DEF ReadFirst
  <2>2. client \in {"probe", "hello"} => pc' # "header"
    <3>1. SUFFICES ASSUME client \in {"probe", "hello"}, pc' = "header" PROVE FALSE
      OBVIOUS
    <3>2. script.kind # "plain" /\ ObfuscatedInv
      BY <3>1 DEF HandshakeInv, PlainInv
    <3>3. ObfuscatedInv'
      BY <3>2, ObfuscatedStep
    <3>4. skeys'.send.key = KeyOut
      BY <3>1, <3>3 DEF ObfuscatedInv
    <3>5. skeys = NoKeys
      BY <2>1, <3>2 DEF ObfuscatedInv, AskingInv, Asking
    <3>6. skeys'.send.key = <<>>
      BY <2>1, <3>5 DEF NoKeys, NoRC4, NewRC4
    <3> QED BY <3>4, <3>6, KeysDiffer
  <2> QED BY <1>2, <2>1, <2>2
<1>9. CASE ReadGA
  BY <1>2, <1>9 DEF ReadGA
<1>10. CASE ReadPadLen
  <2>1. /\ pc = "padlen" /\ pc' \in {"pad", "closed"}
        /\ UNCHANGED <<client, heard, handled>>
    BY <1>10 DEF ReadPadLen
  <2>2. pc' = "pad" => local'.pad \in Nat
    <3>1. pc' = "pad" => Number(c2s[1]) \in 0..MaxPad
      BY <1>10 DEF ReadPadLen
    <3>2. local' = [local EXCEPT !.pad = Number(c2s[1])] /\ local \in [ga : Seq(Bytes), pad : Int]
      BY <1>10 DEF ReadPadLen, TypeInv
    <3>3. local'.pad = Number(c2s[1])
      BY <3>2
    <3> QED BY <1>1, <3>1, <3>3
  <2>3. pc = "padlen"
    BY <1>10 DEF ReadPadLen
  <2> QED BY <1>2, <2>1, <2>2, <2>3
<1>11. CASE ReadPad
  <2>1. pc = "pad" /\ pc' \in {"closed", "hdr"} /\ UNCHANGED <<client, heard, handled>>
    BY <1>11 DEF ReadPad
  <2> QED BY <1>2, <2>1
<1>12. CASE ReadHdr
  <2>1. pc = "hdr" /\ UNCHANGED <<client, heard, handled>>
    BY <1>12 DEF ReadHdr
  <2>2. /\ client \in {"ready", "left"} /\ pc' \in {"pad2", "closed"}
        /\ local' = [local EXCEPT !.pad = script.pad2]
    BY <1>12, ReadHdrIs
  <2>3. local'.pad = script.pad2
    BY <2>2 DEF TypeInv
  <2> QED BY <1>1, <1>2, <2>1, <2>2, <2>3
<1>13. CASE ReadPad2
  BY <1>2, <1>13 DEF ReadPad2
<1>14. CASE ReadChunk
  BY <1>2, <1>14 DEF ReadChunk
<1>15. CASE ReadPrefix \/ ReadConn
  BY <1>2, <1>15 DEF ReadPrefix, ReadConn
<1>16. CASE GotHeader
  <2>1. pc = "header" /\ pc' \in {"closed", "body"} /\ UNCHANGED <<client, heard, handled, local>>
    BY <1>16 DEF GotHeader
  <2> QED BY <1>2, <2>1
<1>17. CASE GotBody
  <2>1. /\ pc = "body" /\ pc' \in {"closed", "reply"} /\ UNCHANGED <<client, heard, local>>
    BY <1>17 DEF GotBody
  <2>2. pc' = "reply" => handled' # <<>>
    <3>1. pc' = "reply" => \E frame : handled' = Append(handled, frame)
      BY <1>17 DEF GotBody
    <3> QED BY <3>1, NeverEmpty DEF TypeInv
  <2>3. client \in {"ready", "left"}
    BY <1>2, <2>1 DEF TypeInv
  <2> QED BY <1>2, <2>1, <2>2, <2>3
<1>18. CASE ReadEnds
  BY <1>2, <1>18 DEF ReadEnds
<1>19. ASSUME NEW w \in Writers, EncryptReply(w) PROVE Common'
  BY <1>2, <1>19 DEF EncryptReply
<1>20. ASSUME NEW w \in Writers, WriteReply(w) \/ WriteFails(w) PROVE Common'
  <2>1. handled # <<>>
    BY <1>20 DEF WriteReply, WriteFails, RepliesInv, WriteMuFree
  <2>2. pc' \in {pc, "header", "closed"} /\ UNCHANGED <<client, heard, handled, local>>
    BY <1>20 DEF WriteReply, WriteFails
  <2> QED BY <1>2, <2>1, <2>2
<1>21. CASE UNCHANGED vars
  BY <1>2, <1>21 DEF vars
<1> QED
  BY <1>4, <1>5, <1>6, <1>7, <1>8, <1>9, <1>10, <1>11, <1>12, <1>13, <1>14, <1>15, <1>16,
     <1>17, <1>18, <1>19, <1>20, <1>21
  DEF Next, Client, Serve, Handshake, ReadFrame, Send

----------------------------------------------------------------------------
(* The client reads what was said to it.                                   *)

LEMMA InitReplies == Init => RepliesInv
<1> SUFFICES ASSUME Init PROVE RepliesInv
  OBVIOUS
<1>1. heard = <<>> /\ said = <<>> /\ client = "start" /\ \A w \in Writers : writer[w] = <<>>
  BY DEF Init
<1> QED BY <1>1, WritersAssumption DEF RepliesInv, WriteMuFree

\* Steps that neither say nor hear anything.
LEMMA QuietStep ==
    ASSUME RepliesInv, UNCHANGED <<client, heard, said, writer, s2c>>,
           ckeys'.recv = ckeys.recv, skeys'.send = skeys.send,
           handled' = <<>> => handled = <<>>,
           pc' # "closed" => pc # "closed",
           pc \in {"reply", "closed"} => pc' \in {"reply", "closed"}
    PROVE  RepliesInv'
<1>1. WriteMuFree' <=> WriteMuFree
  BY DEF WriteMuFree
<1>2. /\ Len(heard) <= Len(said)
      /\ \A i \in 1..Len(heard) : heard[i] = said[i]
      /\ handled = <<>> => said = <<>> /\ WriteMuFree
      /\ writer["own"] # <<>> => pc \in {"reply", "closed"}
      /\ \A v, w \in Writers : writer[v] # <<>> /\ writer[w] # <<>> => v = w
  BY DEF RepliesInv
<1>3. /\ (Len(heard) <= Len(said))'
      /\ (\A i \in 1..Len(heard) : heard[i] = said[i])'
      /\ (handled = <<>> => said = <<>> /\ WriteMuFree)'
      /\ (writer["own"] # <<>> => pc \in {"reply", "closed"})'
      /\ (\A v, w \in Writers : writer[v] # <<>> /\ writer[w] # <<>> => v = w)'
  BY <1>1, <1>2
<1>4. (\A w \in Writers : writer[w] # <<>> =>
          /\ said # <<>>
          /\ writer[w] = <<Sealed(skeys.send.key, skeys.send.pos, said[Len(said)])>>)'
  BY DEF RepliesInv, Sealed
<1>5. (client = "ready" =>
          /\ Len(heard) + Len(s2c) <= Len(said)
          /\ \A i \in 1..Len(s2c) :
                s2c[i] = Sealed(ckeys.recv.key, ckeys.recv.pos + i, said[Len(heard) + i])
          /\ pc # "closed" =>
                /\ ckeys.recv.key = skeys.send.key
                /\ ckeys.recv.key # <<>> =>
                      skeys.send.pos = ckeys.recv.pos + Len(said) - Len(heard)
                /\ Len(said) = Len(heard) + Len(s2c) + (IF WriteMuFree THEN 0 ELSE 1))'
  BY <1>1 DEF RepliesInv, Sealed
<1> QED BY ONLY <1>3, <1>4, <1>5 DEF RepliesInv

\* Every step keeps what is said, sealed, under way and heard together.
LEMMA RepliesStep == TypeInv /\ HandshakeInv /\ RepliesInv /\ [Next]_vars => RepliesInv'
<1> SUFFICES ASSUME TypeInv, HandshakeInv, RepliesInv, [Next]_vars PROVE RepliesInv'
  OBVIOUS
<1>0. /\ Len(heard) \in Nat /\ Len(said) \in Nat /\ Len(s2c) \in Nat
      /\ heard \in Seq(Bytes) /\ said \in Seq(Bytes) /\ s2c \in Seq(Bytes)
      /\ skeys.send \in RC4s /\ skeys.recv \in RC4s /\ ckeys.send \in RC4s /\ ckeys.recv \in RC4s
      /\ skeys \in [send : RC4s, recv : RC4s] /\ ckeys \in [send : RC4s, recv : RC4s]
      /\ writer \in [Writers -> Seq(Bytes)] /\ "own" \in Writers
  BY WritersAssumption DEF TypeInv
<1>1. /\ Len(heard) <= Len(said)
      /\ \A i \in 1..Len(heard) : heard[i] = said[i]
      /\ handled = <<>> => said = <<>> /\ WriteMuFree
      /\ writer["own"] # <<>> => pc \in {"reply", "closed"}
      /\ \A v, w \in Writers : writer[v] # <<>> /\ writer[w] # <<>> => v = w
  BY DEF RepliesInv
<1>2. ASSUME client = "ready"
      PROVE  /\ Len(heard) + Len(s2c) <= Len(said)
             /\ \A i \in 1..Len(s2c) :
                   s2c[i] = Sealed(ckeys.recv.key, ckeys.recv.pos + i, said[Len(heard) + i])
             /\ pc # "closed" =>
                   /\ ckeys.recv.key = skeys.send.key
                   /\ ckeys.recv.key # <<>> =>
                         skeys.send.pos = ckeys.recv.pos + Len(said) - Len(heard)
                   /\ Len(said) = Len(heard) + Len(s2c) + (IF WriteMuFree THEN 0 ELSE 1)
  BY <1>2 DEF RepliesInv
<1>3. ASSUME NEW n \in Nat, NEW k \in [send : RC4s, recv : RC4s]
      PROVE  /\ [k EXCEPT !.send = Advanced(@, n)].recv = k.recv
             /\ [k EXCEPT !.recv = Advanced(@, n)].send = k.send
  OBVIOUS
<1>4. /\ client = "start" => pc = "first" /\ s2c = <<>>
      /\ client \in {"start", "probe", "hello"} => heard = <<>>
      /\ handled # <<>> => client \in {"ready", "left"} /\ pc \in Framing \cup {"closed"}
      /\ pc = "reply" => handled # <<>>
  BY DEF HandshakeInv
<1> USE DEF setting, peer, reading
<1>5. CASE Hello
  <2>1. /\ client = "start" /\ UNCHANGED <<heard, said, writer, s2c, skeys, ckeys, handled, pc>>
        /\ client' = "ready" => script.kind = "plain"
    BY <1>5, ScriptIs DEF Hello, TypeInv
  <2>2. heard = <<>> /\ s2c = <<>> /\ said = <<>> /\ WriteMuFree /\ handled = <<>>
    BY <1>1, <1>4, <2>1
  <2>3. client' = "ready" => ckeys = NoKeys /\ skeys = NoKeys
    BY <2>1 DEF HandshakeInv, PlainInv
  <2>4. client' = "ready" => ckeys.recv.key = <<>> /\ skeys.send.key = <<>>
    BY <2>3 DEF NoKeys, NoRC4, NewRC4
  <2>5. WriteMuFree'
    BY <2>1, <2>2 DEF WriteMuFree
  <2>6. heard' = <<>> /\ s2c' = <<>> /\ said' = <<>>
    BY <2>1, <2>2
  <2>7. client' = "ready" => ckeys'.recv.key = <<>> /\ skeys'.send.key = <<>>
    BY <2>1, <2>4
  <2> QED BY ONLY <1>0, <2>5, <2>6, <2>7 DEF RepliesInv, WriteMuFree
<1>6. CASE AnswerRead
  <2>1. /\ client = "hello" /\ UNCHANGED <<heard, said, writer, skeys, handled, pc>>
    BY <1>6 DEF AnswerRead
  <2>2. /\ pc = "hdr" /\ script.kind = "obfuscated" /\ s2c' = <<>> /\ skeys.send.pos \in Nat
        /\ ckeys' = [send |-> [key |-> KeyIn, pos |-> ReplySize],
                     recv |-> [key |-> KeyOut, pos |-> skeys.send.pos]]
    BY <1>6, AnswerReadIs
  <2>3. heard = <<>> /\ handled = <<>> /\ said = <<>> /\ WriteMuFree
    BY <1>1, <1>4, <2>1, <2>2 DEF Framing
  <2>4. skeys.send.key = KeyOut
    BY <2>2 DEF HandshakeInv, ObfuscatedInv, Proving
  <2>5. ckeys'.recv.key = skeys'.send.key /\ ckeys'.recv.pos = skeys'.send.pos /\ skeys'.send.pos \in Nat
    BY <2>1, <2>2, <2>4
  <2>6. WriteMuFree' /\ heard' = <<>> /\ said' = <<>> /\ s2c' = <<>>
    BY <2>1, <2>2, <2>3 DEF WriteMuFree
  <2> QED BY ONLY <1>0, <2>5, <2>6 DEF RepliesInv, WriteMuFree
<1>7. CASE ClientSend
  <2>1. ckeys'.recv = ckeys.recv
    <3>1. ckeys' = [ckeys EXCEPT !.send = Advanced(@, Len(Encode(Head(todo))))]
      BY <1>7 DEF ClientSend
    <3> QED BY <1>0, <3>1
  <2> QED BY <1>7, <2>1, QuietStep DEF ClientSend
<1>8. CASE ClientRead
  <2> DEFINE code == Crypt(ckeys.recv, s2c)
  <2>1. /\ client = "ready" /\ heard' = heard \o code /\ s2c' = <<>>
        /\ ckeys' = [ckeys EXCEPT !.recv = Advanced(@, Len(s2c))]
        /\ UNCHANGED <<client, skeys, said, writer, handled, pc>>
    BY <1>8 DEF ClientRead
  <2>2. /\ code \in Seq(Bytes) /\ Len(code) = Len(s2c)
        /\ \A i \in 1..Len(s2c) : code[i] = Sealed(ckeys.recv.key, ckeys.recv.pos + i, s2c[i])
    BY <1>0, CryptIs
  <2> HIDE DEF code
  <2>3. /\ Len(heard \o code) = Len(heard) + Len(code)
        /\ \A i \in 1..Len(heard) : (heard \o code)[i] = heard[i]
        /\ \A i \in 1..Len(code) : (heard \o code)[Len(heard) + i] = code[i]
    <3>1. heard \in Seq(Bytes) /\ code \in Seq(Bytes)
      BY <1>0, <2>2
    <3> QED BY ONLY <3>1, Joined
  <2>4. Len(heard') = Len(heard) + Len(s2c) /\ Len(heard') <= Len(said)
    BY <1>2, <2>1, <2>2, <2>3
  <2>5. ASSUME NEW i \in 1..Len(s2c) PROVE code[i] = said[Len(heard) + i]
    <3>1. Len(heard) + i \in 1..Len(said)
      BY <1>0, <1>2, <2>1
    <3>2. said[Len(heard) + i] \in Bytes
      BY ONLY <1>0, <3>1, ElementOfSeq
    <3>3. code[i] = Sealed(ckeys.recv.key, ckeys.recv.pos + i,
                        Sealed(ckeys.recv.key, ckeys.recv.pos + i, said[Len(heard) + i]))
      BY <1>2, <2>1, <2>2
    <3> QED BY ONLY <3>2, <3>3, SealedTwice
  <2>6. ASSUME NEW i \in 1..Len(heard') PROVE heard'[i] = said[i]
    <3>1. CASE i <= Len(heard)
      BY <1>0, <1>1, <2>1, <2>3, <3>1
    <3>2. CASE i > Len(heard)
      <4>1. i - Len(heard) \in 1..Len(s2c) /\ Len(heard) + (i - Len(heard)) = i
        BY <1>0, <2>4, <3>2
      <4>2. (heard \o code)[Len(heard) + (i - Len(heard))] = said[Len(heard) + (i - Len(heard))]
        BY <2>2, <2>3, <2>5, <4>1
      <4> QED BY <2>1, <4>1, <4>2
    <3> QED BY <1>0, <2>4, <3>1, <3>2
  <2>7. /\ ckeys'.recv.key = ckeys.recv.key
        /\ ckeys.recv.key # <<>> => ckeys'.recv.pos = ckeys.recv.pos + Len(s2c)
    <3>1. ckeys'.recv = Advanced(ckeys.recv, Len(s2c))
      BY <1>0, <2>1
    <3> QED BY <1>0, <3>1, AdvancedIs
  <2>8. ckeys.recv.pos \in Nat
    BY <1>0 DEF RC4s, NoRC4, NewRC4
  <2>9. WriteMuFree' <=> WriteMuFree
    BY <2>1 DEF WriteMuFree
  <2>10. Len(s2c') = 0
    BY <2>1
  <2>11. pc # "closed" =>
           /\ ckeys'.recv.key = skeys.send.key
           /\ ckeys'.recv.key # <<>> => skeys.send.pos = ckeys'.recv.pos + Len(said) - Len(heard')
           /\ Len(said) = Len(heard') + Len(s2c') + (IF WriteMuFree THEN 0 ELSE 1)
    BY <1>0, <1>2, <2>1, <2>4, <2>7, <2>8, <2>10
  <2>12. Len(heard') + Len(s2c') <= Len(said)
    BY <1>0, <2>4, <2>10
  <2>13. \A i \in 1..Len(s2c') : FALSE
    BY <2>10
  <2>14. /\ (handled = <<>> => said = <<>> /\ WriteMuFree)'
         /\ (writer["own"] # <<>> => pc \in {"reply", "closed"})'
         /\ (\A v, w \in Writers : writer[v] # <<>> /\ writer[w] # <<>> => v = w)'
    BY <1>1, <2>1, <2>9
  <2>15. (\A w \in Writers : writer[w] # <<>> =>
          /\ said # <<>>
          /\ writer[w] = <<Sealed(skeys.send.key, skeys.send.pos, said[Len(said)])>>)'
    BY <2>1 DEF RepliesInv, Sealed
  <2>16. UNCHANGED <<said, skeys, pc>>
    BY <2>1
  <2> QED BY ONLY <2>4, <2>6, <2>9, <2>11, <2>12, <2>13, <2>14, <2>15, <2>16 DEF RepliesInv
<1>9. CASE ClientLeave
  <2>1. /\ client' = "left" /\ UNCHANGED <<ckeys, skeys, heard, said, writer, s2c, handled, pc>>
    BY <1>9 DEF ClientLeave
  <2>2. WriteMuFree' <=> WriteMuFree
    BY <2>1 DEF WriteMuFree
  <2>3. (\A w \in Writers : writer[w] # <<>> =>
          /\ said # <<>>
          /\ writer[w] = <<Sealed(skeys.send.key, skeys.send.pos, said[Len(said)])>>)'
    BY <2>1 DEF RepliesInv, Sealed
  <2>4. client' # "ready"
    BY <2>1
  <2>5. /\ (Len(heard) <= Len(said))'
        /\ (\A i \in 1..Len(heard) : heard[i] = said[i])'
        /\ (handled = <<>> => said = <<>> /\ WriteMuFree)'
        /\ (writer["own"] # <<>> => pc \in {"reply", "closed"})'
        /\ (\A v, w \in Writers : writer[v] # <<>> /\ writer[w] # <<>> => v = w)'
    BY <1>1, <2>1, <2>2
  <2> QED BY ONLY <2>3, <2>4, <2>5 DEF RepliesInv
<1>10. CASE ReadFirst
  <2>1. /\ pc = "first" /\ UNCHANGED <<client, heard, said, writer, ckeys, skeys, handled>>
        /\ pc' \in {"header", "ga", "closed"}
    BY <1>10 DEF ReadFirst
  <2>2. CASE UNCHANGED s2c
    BY <2>1, <2>2, QuietStep
  <2>3. CASE s2c' # s2c
    <3>1. pc' = "closed"
      BY <1>10, <2>3 DEF ReadFirst
    <3>2. handled = <<>> /\ said = <<>> /\ WriteMuFree
      BY <1>1, <1>4, <2>1 DEF Framing
    <3>3. client # "ready"
      <4>1. CASE script.kind = "plain"
        <5>1. PlainInv
          BY <4>1 DEF HandshakeInv
        <5>2. ~ \E m \in PlainMarkers : Legible(c2s[1], m)
          BY <1>10, <3>1 DEF ReadFirst
        <5> QED BY <1>10, <2>1, <5>1, <5>2 DEF PlainInv, ReadFirst
      <4>2. CASE script.kind # "plain"
        <5>1. AskingInv
          BY <4>2 DEF HandshakeInv, ObfuscatedInv
        <5> QED BY <2>1, <5>1 DEF AskingInv, Asking
      <4> QED BY <4>1, <4>2
    <3>4. WriteMuFree' /\ said' = <<>> /\ client' # "ready" /\ pc' = "closed" /\ heard' = heard
      BY <2>1, <3>1, <3>2, <3>3 DEF WriteMuFree
    <3>5. Len(heard) <= Len(said) /\ said = <<>>
      BY <1>1, <3>2
    <3>6. heard' = <<>>
      BY <1>0, <3>4, <3>5
    <3> QED BY ONLY <1>0, <3>4, <3>6 DEF RepliesInv, WriteMuFree
  <2> QED BY <2>2, <2>3
<1>11. CASE ReadGA
  <2>1. /\ pc = "ga" /\ pc' = "padlen" /\ UNCHANGED <<client, heard, said, writer, s2c, ckeys, skeys, handled>>
    BY <1>11 DEF ReadGA
  <2> QED BY <2>1, QuietStep
<1>12. CASE ReadPadLen
  <2>1. /\ pc = "padlen" /\ UNCHANGED <<client, heard, said, writer, s2c, ckeys, skeys, handled>>
    BY <1>12 DEF ReadPadLen
  <2> QED BY <2>1, QuietStep
<1>13. CASE ReadPad
  <2>1. pc = "pad" /\ UNCHANGED <<client, heard, said, writer, ckeys, handled>>
    BY <1>13 DEF ReadPad
  <2>2. client # "ready"
    BY <1>13, ReadPadIs
  <2>3. handled = <<>> /\ said = <<>> /\ WriteMuFree
    BY <1>1, <1>4, <2>1 DEF Framing
  <2>4. WriteMuFree' /\ said' = <<>> /\ client' # "ready" /\ heard' = heard
    BY <2>1, <2>2, <2>3 DEF WriteMuFree
  <2>5. Len(heard) <= Len(said) /\ said = <<>>
    BY <1>1, <2>3
  <2>6. heard' = <<>>
    BY <1>0, <2>4, <2>5
  <2> QED BY ONLY <1>0, <2>4, <2>6 DEF RepliesInv, WriteMuFree
<1>14. CASE ReadHdr
  <2>1. /\ pc = "hdr" /\ UNCHANGED <<client, heard, said, writer, s2c, ckeys, handled>>
        /\ skeys' = [skeys EXCEPT !.recv = Advanced(@, 3)]
    BY <1>14 DEF ReadHdr, TailSize
  <2>2. skeys'.send = skeys.send
    BY <1>0, <2>1
  <2> QED BY <2>1, <2>2, QuietStep
<1>15. CASE ReadPad2
  <2>1. /\ pc = "pad2" /\ UNCHANGED <<client, heard, said, writer, s2c, ckeys, handled>>
        /\ skeys' = [skeys EXCEPT !.recv = Advanced(@, local.pad)]
    BY <1>15 DEF ReadPad2
  <2>2. skeys'.send = skeys.send
    BY <1>0, <2>1
  <2> QED BY <2>1, <2>2, QuietStep
<1>16. CASE ReadChunk
  <2>1. /\ pc = "chunk" /\ UNCHANGED <<client, heard, said, writer, s2c, ckeys, handled>>
        /\ \E n : skeys' = [skeys EXCEPT !.recv = Advanced(@, n)]
    BY <1>16 DEF ReadChunk
  <2>2. skeys'.send = skeys.send
    BY <1>0, <2>1
  <2> QED BY <2>1, <2>2, QuietStep
<1>17. CASE ReadPrefix
  BY <1>17, QuietStep DEF ReadPrefix
<1>18. CASE ReadConn
  <2>1. /\ UNCHANGED <<client, heard, said, writer, s2c, ckeys, handled, pc>>
        /\ \E n : skeys' = [skeys EXCEPT !.recv = Advanced(@, n)]
    BY <1>18 DEF ReadConn
  <2>2. skeys'.send = skeys.send
    BY <1>0, <2>1
  <2> QED BY <2>1, <2>2, QuietStep
<1>19. CASE GotHeader
  <2>1. pc = "header" /\ UNCHANGED <<client, heard, said, writer, s2c, ckeys, skeys, handled>>
    BY <1>19 DEF GotHeader
  <2> QED BY <2>1, QuietStep
<1>20. CASE GotBody
  <2>1. /\ pc = "body" /\ UNCHANGED <<client, heard, said, writer, s2c, ckeys, skeys>>
        /\ handled' = handled \/ \E frame : handled' = Append(handled, frame)
    BY <1>20 DEF GotBody
  <2>2. handled' = <<>> => handled = <<>>
    BY <2>1, NeverEmpty DEF TypeInv
  <2> QED BY <2>1, <2>2, QuietStep
<1>21. CASE ReadEnds
  <2>1. /\ pc' = "closed" /\ pc # "closed"
        /\ UNCHANGED <<client, heard, said, writer, s2c, ckeys, skeys, handled>>
    <3>1. pc = "closed" => Wanted = 0
      BY DEF Wanted
    <3>2. Len(c2s) \in Nat
      BY DEF TypeInv
    <3> QED BY <1>21, <3>1, <3>2 DEF ReadEnds
  <2> QED BY <2>1, QuietStep
<1>22. ASSUME NEW w \in Writers, EncryptReply(w) PROVE RepliesInv'
  <2>1. PICK message \in {Byte(w, 0), Byte(w, Len(handled))} :
           /\ Wants(w, message)
           /\ writer' = [writer EXCEPT ![w] = Crypt(skeys.send, <<message>>)]
           /\ said' = Append(said, message)
    BY <1>22 DEF EncryptReply
  <2>2. /\ WriteMuFree /\ skeys' = [skeys EXCEPT !.send = Advanced(@, 1)]
        /\ UNCHANGED <<client, heard, s2c, ckeys, handled, pc>>
    BY <1>22 DEF EncryptReply
  <2>3. handled # <<>> /\ pc # "closed" /\ (w = "own" => pc = "reply")
    BY <1>4, <2>1 DEF Wants
  <2>4. message \in Bytes
    <3>1. 0 \in Int /\ Len(handled) \in Int
      BY DEF TypeInv
    <3> QED BY <3>1, AnyByte
  <2>5. /\ said' \in Seq(Bytes) /\ Len(said') = Len(said) + 1
        /\ \A i \in 1..Len(said) : said'[i] = said[i]
        /\ said'[Len(said) + 1] = message
    BY ONLY <1>0, <2>1, <2>4, AppendProperties
  <2>6. <<message>> \in Seq(Bytes) /\ Len(<<message>>) = 1 /\ <<message>>[1] = message
    BY <2>4
  <2>7. Crypt(skeys.send, <<message>>) = <<Sealed(skeys.send.key, skeys.send.pos + 1, message)>>
    <3> DEFINE m == <<message>>
               code == Crypt(skeys.send, m)
    <3>1. /\ code \in Seq(Bytes) /\ Len(code) = Len(m)
          /\ \A i \in 1..Len(m) : code[i] = Sealed(skeys.send.key, skeys.send.pos + i, m[i])
      <4>1. m \in Seq(Bytes)
        BY <2>6
      <4> HIDE DEF m
      <4> QED BY <1>0, <4>1, CryptIs
    <3>2. Len(m) = 1 /\ m[1] = message
      BY <2>6
    <3> HIDE DEF m, code
    <3>3. Len(code) = 1 /\ code[1] = Sealed(skeys.send.key, skeys.send.pos + 1, message)
      BY <3>1, <3>2
    <3>4. code = <<code[1]>>
      BY <3>1, <3>3
    <3> QED BY <3>3, <3>4 DEF code, m
  <2>8. /\ skeys'.send.key = skeys.send.key
        /\ skeys.send.key # <<>> => skeys'.send.pos = skeys.send.pos + 1
    <3>1. skeys'.send = Advanced(skeys.send, 1)
      BY <1>0, <2>2
    <3> QED BY <1>0, <3>1, AdvancedIs
  <2>9. Sealed(skeys.send.key, skeys.send.pos + 1, message) = Sealed(skeys'.send.key, skeys'.send.pos, message)
    BY <2>8 DEF Sealed
  <2>10. /\ \A v \in Writers : v # w => writer'[v] = <<>>
         /\ writer'[w] = <<Sealed(skeys'.send.key, skeys'.send.pos, said'[Len(said')])>>
         /\ said' # <<>> /\ writer'[w] # <<>>
    <3>1. \A v \in Writers : v # w => writer'[v] = <<>>
      BY <1>0, <2>1, <2>2 DEF WriteMuFree
    <3>2. writer'[w] = <<Sealed(skeys'.send.key, skeys'.send.pos, message)>>
      BY <1>0, <2>1, <2>7, <2>9
    <3>3. said'[Len(said')] = message
      BY <2>5
    <3>4. said' # <<>>
      BY <1>0, <2>5
    <3>5. writer'[w] # <<>>
      BY <3>2
    <3> QED BY <3>1, <3>2, <3>3, <3>4, <3>5
  <2>11. ~ WriteMuFree'
    BY <2>10 DEF WriteMuFree
  <2>12. /\ Len(heard) <= Len(said')
         /\ \A i \in 1..Len(heard) : heard[i] = said'[i]
    BY <1>0, <1>1, <2>5, SMTT(30)
  <2>13. ASSUME client = "ready"
         PROVE  /\ Len(heard) + Len(s2c) <= Len(said')
                /\ \A i \in 1..Len(s2c) :
                      s2c[i] = Sealed(ckeys.recv.key, ckeys.recv.pos + i, said'[Len(heard) + i])
                /\ ckeys.recv.key = skeys'.send.key
                /\ ckeys.recv.key # <<>> =>
                      skeys'.send.pos = ckeys.recv.pos + Len(said') - Len(heard)
                /\ Len(said') = Len(heard) + Len(s2c) + 1
    <3>1. /\ Len(heard) + Len(s2c) <= Len(said)
          /\ ckeys.recv.key = skeys.send.key
          /\ ckeys.recv.key # <<>> => skeys.send.pos = ckeys.recv.pos + Len(said) - Len(heard)
          /\ Len(said) = Len(heard) + Len(s2c)
      BY <1>0, <1>2, <2>2, <2>3, <2>13
    <3>2. ASSUME NEW i \in 1..Len(s2c)
          PROVE  s2c[i] = Sealed(ckeys.recv.key, ckeys.recv.pos + i, said'[Len(heard) + i])
      <4>1. Len(heard) + i \in 1..Len(said)
        BY <1>0, <3>1
      <4> QED BY <1>2, <2>5, <2>13, <4>1
    <3>3. ckeys.recv.pos \in Nat /\ skeys.send.pos \in Nat
      BY <1>0 DEF RC4s, NoRC4, NewRC4
    <3>4. ckeys.recv.key # <<>> => skeys'.send.pos = ckeys.recv.pos + Len(said') - Len(heard)
      BY <1>0, <2>5, <2>8, <3>1, <3>3
    <3> QED BY <1>0, <2>5, <2>8, <3>1, <3>2, <3>4
  <2>14. /\ handled' # <<>>
         /\ writer'["own"] # <<>> => pc' = "reply"
         /\ \A u, v \in Writers : writer'[u] # <<>> /\ writer'[v] # <<>> => u = v
         /\ \A v \in Writers : writer'[v] # <<>> =>
               /\ said' # <<>>
               /\ writer'[v] = <<Sealed(skeys'.send.key, skeys'.send.pos, said'[Len(said')])>>
    BY <1>0, <2>2, <2>3, <2>10
  <2>15. UNCHANGED <<client, heard, s2c, ckeys, handled, pc>>
    BY <2>2
  <2> QED BY ONLY <2>11, <2>12, <2>13, <2>14, <2>15 DEF RepliesInv
<1>23. ASSUME NEW w \in Writers, WriteReply(w) PROVE RepliesInv'
  <2>1. /\ writer[w] # <<>> /\ pc # "closed" /\ s2c' = s2c \o writer[w]
        /\ writer' = [writer EXCEPT ![w] = <<>>] /\ pc' \in {pc, "header"}
        /\ UNCHANGED <<client, heard, said, ckeys, skeys, handled>>
    BY <1>23 DEF WriteReply
  <2> DEFINE b == Sealed(skeys.send.key, skeys.send.pos, said[Len(said)])
  <2>2. writer[w] = <<b>> /\ said # <<>> /\ ~WriteMuFree
    BY <2>1 DEF RepliesInv, WriteMuFree
  <2>3. \A v \in Writers : writer'[v] = <<>>
    BY <1>0, <1>1, <2>1
  <2>4. WriteMuFree'
    BY <2>3 DEF WriteMuFree
  <2>5. writer[w] \in Seq(Bytes) /\ Len(writer[w]) = 1 /\ writer[w][1] = b
    <3>1. writer[w] \in Seq(Bytes)
      BY <1>0
    <3> HIDE DEF b
    <3> QED BY ONLY <2>2, <3>1
  <2> HIDE DEF b
  <2>6. /\ Len(s2c \o writer[w]) = Len(s2c) + Len(writer[w])
        /\ \A i \in 1..Len(s2c) : (s2c \o writer[w])[i] = s2c[i]
        /\ \A i \in 1..Len(writer[w]) : (s2c \o writer[w])[Len(s2c) + i] = writer[w][i]
    <3>1. s2c \in Seq(Bytes) /\ writer[w] \in Seq(Bytes)
      BY <1>0, <2>5
    <3> QED BY ONLY <3>1, Joined
  <2>7. /\ Len(s2c') = Len(s2c) + 1
        /\ \A i \in 1..Len(s2c) : s2c'[i] = s2c[i]
        /\ s2c'[Len(s2c) + 1] = b
    BY <2>1, <2>5, <2>6
  <2>8. ASSUME client = "ready"
        PROVE  /\ Len(heard) + Len(s2c') <= Len(said)
               /\ \A i \in 1..Len(s2c') :
                     s2c'[i] = Sealed(ckeys.recv.key, ckeys.recv.pos + i, said[Len(heard) + i])
               /\ ckeys.recv.key = skeys.send.key
               /\ ckeys.recv.key # <<>> =>
                     skeys.send.pos = ckeys.recv.pos + Len(said) - Len(heard)
               /\ Len(said) = Len(heard) + Len(s2c') + 0
    <3>1. /\ ckeys.recv.key = skeys.send.key
          /\ ckeys.recv.key # <<>> => skeys.send.pos = ckeys.recv.pos + Len(said) - Len(heard)
          /\ Len(said) = Len(heard) + Len(s2c) + 1
      BY <1>2, <2>1, <2>2, <2>8
    <3>2. ckeys.recv.pos \in Nat
      BY <1>0 DEF RC4s, NoRC4, NewRC4
    <3>3. ASSUME NEW i \in 1..Len(s2c')
          PROVE  s2c'[i] = Sealed(ckeys.recv.key, ckeys.recv.pos + i, said[Len(heard) + i])
      <4>1. CASE i \in 1..Len(s2c)
        BY <1>2, <2>7, <2>8, <4>1
      <4>2. CASE i = Len(s2c) + 1
        <5>1. s2c'[i] = b /\ Len(heard) + i = Len(said)
          BY <1>0, <2>7, <3>1, <4>2
        <5>2. ckeys.recv.key # <<>> => skeys.send.pos = ckeys.recv.pos + i
          BY <1>0, <3>1, <3>2, <4>2
        <5>3. b = Sealed(ckeys.recv.key, ckeys.recv.pos + i, said[Len(said)])
          BY <3>1, <5>2 DEF b, Sealed
        <5> QED BY <5>1, <5>3
      <4> QED BY <1>0, <2>7, <4>1, <4>2
    <3> QED BY <1>0, <2>7, <3>1, <3>3
  <2>9. handled # <<>> /\ writer'["own"] = <<>>
    BY <1>0, <1>1, <2>2, <2>3
  <2>10. UNCHANGED <<client, heard, said, ckeys, skeys, handled>>
    BY <2>1
  <2>11. /\ (Len(heard) <= Len(said))' /\ (\A i \in 1..Len(heard) : heard[i] = said[i])'
    BY <1>1, <2>10
  <2> QED BY ONLY <2>3, <2>4, <2>8, <2>9, <2>10, <2>11 DEF RepliesInv
<1>24. ASSUME NEW w \in Writers, WriteFails(w) PROVE RepliesInv'
  <2>1. /\ writer[w] # <<>> /\ (client = "left" \/ pc = "closed")
        /\ writer' = [writer EXCEPT ![w] = <<>>] /\ pc' \in {pc, "closed"}
        /\ UNCHANGED <<client, heard, said, s2c, ckeys, skeys, handled>>
    BY <1>24 DEF WriteFails
  <2>2. \A v \in Writers : writer'[v] = <<>>
    BY <1>0, <1>1, <1>24, <2>1 DEF WriteFails
  <2>3. handled # <<>>
    BY <1>1, <1>24 DEF WriteFails, WriteMuFree
  <2>4. client' = "ready" => pc' = "closed"
    BY <1>24, <2>1 DEF WriteFails
  <2>5. UNCHANGED <<client, heard, said, s2c, ckeys, handled>>
    BY <2>1
  <2>6. client = "ready" =>
           /\ Len(heard) + Len(s2c) <= Len(said)
           /\ \A i \in 1..Len(s2c) :
                 s2c[i] = Sealed(ckeys.recv.key, ckeys.recv.pos + i, said[Len(heard) + i])
    BY <1>2
  <2>7. (client = "ready" =>
           /\ Len(heard) + Len(s2c) <= Len(said)
           /\ \A i \in 1..Len(s2c) :
                 s2c[i] = Sealed(ckeys.recv.key, ckeys.recv.pos + i, said[Len(heard) + i]))'
    BY <2>5, <2>6 DEF Sealed
  <2>8. (Len(heard) <= Len(said))' /\ (\A i \in 1..Len(heard) : heard[i] = said[i])'
    BY <1>1, <2>5
  <2>9. handled' # <<>> /\ writer'["own"] = <<>>
    BY <1>0, <2>2, <2>3, <2>5
  <2> QED BY ONLY <2>2, <2>4, <2>7, <2>8, <2>9 DEF RepliesInv
<1>25. CASE UNCHANGED vars
  BY <1>25, QuietStep DEF vars
<1> QED
  BY <1>5, <1>6, <1>7, <1>8, <1>9, <1>10, <1>11, <1>12, <1>13, <1>14, <1>15, <1>16,
     <1>17, <1>18, <1>19, <1>20, <1>21, <1>22, <1>23, <1>24, <1>25
  DEF Next, Client, Serve, Handshake, ReadFrame, Send

----------------------------------------------------------------------------
(* Frames are dispatched as they were sent.                                *)

\* What was read and not dispatched: header, then buffer, then prefix.
LEMMA GotIs ==
    ASSUME TypeInv
    PROVE  /\ Got \in Seq(Bytes) /\ Len(header) \in Nat /\ Len(buf) \in Nat /\ Len(prefix) \in Nat
           /\ Len(Got) = Len(header) + Len(buf) + Len(prefix)
           /\ \A i \in 1..Len(header) : Got[i] = header[i]
           /\ \A i \in 1..Len(buf) : Got[Len(header) + i] = buf[i]
           /\ \A i \in 1..Len(prefix) : Got[Len(header) + Len(buf) + i] = prefix[i]
<1>1. header \in Seq(Bytes) /\ buf \in Seq(Bytes) /\ prefix \in Seq(Bytes)
  BY DEF TypeInv
<1> DEFINE p == header \o buf
<1>2. /\ p \in Seq(Bytes) /\ Len(p) = Len(header) + Len(buf)
      /\ Len(header) \in Nat /\ Len(buf) \in Nat
      /\ \A i \in 1..Len(header) : p[i] = header[i]
      /\ \A i \in 1..Len(buf) : p[Len(header) + i] = buf[i]
  BY ONLY <1>1, Joined
<1> HIDE DEF p
<1>3. /\ p \o prefix \in Seq(Bytes) /\ Len(p \o prefix) = Len(p) + Len(prefix)
      /\ Len(prefix) \in Nat
      /\ \A i \in 1..Len(p) : (p \o prefix)[i] = p[i]
      /\ \A i \in 1..Len(prefix) : (p \o prefix)[Len(p) + i] = prefix[i]
  <2>1. p \in Seq(Bytes) /\ prefix \in Seq(Bytes)
    BY <1>1, <1>2
  <2> QED BY ONLY <2>1, Joined
<1>4. Got = p \o prefix
  BY DEF Got, p
<1>5. \A i \in 1..Len(header) : i \in 1..Len(p)
  BY ONLY <1>2
<1>6. \A i \in 1..Len(buf) : Len(header) + i \in 1..Len(p)
  BY ONLY <1>2
<1> QED BY ONLY <1>2, <1>3, <1>4, <1>5, <1>6

\* Nothing is read and nothing is sent.
LEMMA FlowSame ==
    ASSUME NEW w, NEW base, Flow(w, base), UNCHANGED <<client, c2s>>,
           skeys'.recv = skeys.recv, ckeys'.send = ckeys.send, Got' = Got, Ahead' = Ahead
    PROVE  Flow(w, base)'
  BY DEF Flow, Sealed

\* The part of the client's half still ahead of the frames.
LEMMA AheadIs ==
    ASSUME TypeInv
    PROVE  ReplySize \in Nat /\ Ahead \in Nat
<1>1. script.pad2 \in Nat
  BY ScriptIs DEF TypeInv
<1> QED BY <1>1 DEF Ahead, ReplySize

\* A part of the client's half is read.
LEMMA FlowSkip ==
    ASSUME TypeInv, NEW w, NEW base \in Nat, Flow(w, base), NEW n \in 0..Len(c2s), Consume(n),
           n <= Ahead, Ahead' = Ahead - n,
           skeys'.recv = Advanced(skeys.recv, n), Got' = Got, UNCHANGED <<client, ckeys>>
    PROVE  Flow(w, base)'
<1>0. /\ c2s \in Seq(Bytes) /\ Len(c2s) \in Nat /\ skeys.recv \in RC4s /\ Got \in Seq(Bytes)
      /\ skeys.recv.pos \in Nat /\ Len(Got) \in Nat /\ Ahead \in Nat /\ n \in Nat /\ n <= Len(c2s)
  <2>1. Got \in Seq(Bytes) /\ Len(Got) \in Nat /\ Ahead \in Nat
    BY GotIs, AheadIs
  <2>2. c2s \in Seq(Bytes) /\ Len(c2s) \in Nat /\ skeys.recv \in RC4s
    BY DEF TypeInv
  <2>3. skeys.recv.pos \in Nat
    BY ONLY <2>2 DEF RC4s, NoRC4, NewRC4
  <2>4. n \in Nat /\ n <= Len(c2s)
    BY ONLY <2>2, n \in 0..Len(c2s)
  <2> QED BY ONLY <2>1, <2>2, <2>3, <2>4
<1>1. Len(c2s') = Len(c2s) - n /\ \A i \in 1..(Len(c2s) - n) : c2s'[i] = c2s[n + i]
  BY <1>0, ConsumeIs
<1>2. /\ skeys'.recv.key = skeys.recv.key
      /\ skeys.recv.key # <<>> => skeys'.recv.pos = skeys.recv.pos + n
  <2>1. /\ Advanced(skeys.recv, n).key = skeys.recv.key
        /\ skeys.recv.key # <<>> => Advanced(skeys.recv, n).pos = skeys.recv.pos + n
    BY ONLY <1>0, AdvancedIs
  <2> QED BY <2>1
<1>3. Len(c2s') - Ahead' = Len(c2s) - Ahead
  BY <1>0, <1>1
<1>4. ASSUME NEW i \in 1..(Len(c2s') - Ahead')
      PROVE  /\ base + Len(Got) + i <= Len(w)
             /\ c2s'[Ahead' + i] =
                  Sealed(skeys'.recv.key, skeys'.recv.pos + Ahead' + i, w[base + Len(Got) + i])
  <2>1. i \in 1..(Len(c2s) - Ahead) /\ i \in Nat
    BY <1>3
  <2>2. /\ base + Len(Got) + i <= Len(w)
        /\ c2s[Ahead + i] =
             Sealed(skeys.recv.key, skeys.recv.pos + Ahead + i, w[base + Len(Got) + i])
    BY <2>1 DEF Flow
  <2>3. Ahead' + i \in 1..(Len(c2s) - n) /\ n + (Ahead' + i) = Ahead + i
    BY <1>0, <2>1
  <2>4. c2s'[Ahead' + i] = c2s[n + (Ahead' + i)]
    BY <1>1, <2>3
  <2>5. skeys.recv.key # <<>> => skeys'.recv.pos + Ahead' + i = skeys.recv.pos + Ahead + i
    BY <1>0, <1>2, <2>1
  <2> QED BY <1>2, <2>2, <2>3, <2>4, <2>5 DEF Sealed
<1>5. client = "ready" =>
        /\ base + Len(Got) + Len(c2s') - Ahead' = Len(w)
        /\ ckeys.send.key = skeys'.recv.key
        /\ ckeys.send.key # <<>> => ckeys.send.pos = skeys'.recv.pos + Len(c2s')
  <2>1. SUFFICES ASSUME client = "ready"
                 PROVE  /\ base + Len(Got) + Len(c2s') - Ahead' = Len(w)
                        /\ ckeys.send.key = skeys'.recv.key
                        /\ ckeys.send.key # <<>> => ckeys.send.pos = skeys'.recv.pos + Len(c2s')
    OBVIOUS
  <2>2. /\ base + Len(Got) + Len(c2s) - Ahead = Len(w)
        /\ ckeys.send.key = skeys.recv.key
        /\ ckeys.send.key # <<>> => ckeys.send.pos = skeys.recv.pos + Len(c2s)
    BY <2>1 DEF Flow
  <2>3. base + Len(Got) + Len(c2s') - Ahead' = base + Len(Got) + Len(c2s) - Ahead
    BY <1>0, <1>1
  <2>4. skeys.recv.key # <<>> => skeys'.recv.pos + Len(c2s') = skeys.recv.pos + Len(c2s)
    BY <1>0, <1>1, <1>2
  <2> QED BY <1>2, <2>2, <2>3, <2>4
<1>6. base + Len(Got) <= Len(w) /\ \A i \in 1..Len(Got) : Got[i] = w[base + i]
  BY DEF Flow
<1>7. UNCHANGED <<client, ckeys>> /\ Got' = Got
  OBVIOUS
<1> QED BY ONLY <1>4, <1>5, <1>6, <1>7 DEF Flow

\* Bytes of frames are read, through the keystream if there is one.
LEMMA FlowTake ==
    ASSUME TypeInv, NEW w \in Seq(PlainBytes), NEW base \in Nat, Flow(w, base),
           NEW n \in 0..Len(c2s), Consume(n), Ahead = 0, Ahead' = 0,
           skeys'.recv = Advanced(skeys.recv, n),
           Got' = Got \o Crypt(skeys.recv, SubSeq(c2s, 1, n)), UNCHANGED <<client, ckeys>>
    PROVE  Flow(w, base)'
<1>0. /\ c2s \in Seq(Bytes) /\ Len(c2s) \in Nat /\ skeys.recv \in RC4s /\ Got \in Seq(Bytes)
      /\ skeys.recv.pos \in Nat /\ Len(Got) \in Nat /\ n \in Nat /\ n <= Len(c2s)
      /\ w \in Seq(Bytes) /\ Len(w) \in Nat
  <2>1. Got \in Seq(Bytes) /\ Len(Got) \in Nat
    BY GotIs
  <2>2. c2s \in Seq(Bytes) /\ Len(c2s) \in Nat /\ skeys.recv \in RC4s
    BY DEF TypeInv
  <2>3. skeys.recv.pos \in Nat
    BY ONLY <2>2 DEF RC4s, NoRC4, NewRC4
  <2>4. n \in Nat /\ n <= Len(c2s)
    BY ONLY <2>2, n \in 0..Len(c2s)
  <2>5. w \in Seq(Bytes) /\ Len(w) \in Nat
    BY ONLY w \in Seq(PlainBytes), PlainAreBytes
  <2> QED BY ONLY <2>1, <2>2, <2>3, <2>4, <2>5
<1> DEFINE key == skeys.recv.key
           pos == skeys.recv.pos
           L == Len(Got)
           code == Crypt(skeys.recv, SubSeq(c2s, 1, n))
<1>1. Len(c2s') = Len(c2s) - n /\ \A i \in 1..(Len(c2s) - n) : c2s'[i] = c2s[n + i]
  BY <1>0, ConsumeIs
<1>2. /\ skeys'.recv.key = key
      /\ key # <<>> => skeys'.recv.pos = pos + n
  <2>1. /\ Advanced(skeys.recv, n).key = skeys.recv.key
        /\ skeys.recv.key # <<>> => Advanced(skeys.recv, n).pos = skeys.recv.pos + n
    BY ONLY <1>0, AdvancedIs
  <2> QED BY <2>1
<1>3. ASSUME NEW i \in 1..Len(c2s)
      PROVE  base + L + i <= Len(w) /\ c2s[i] = Sealed(key, pos + i, w[base + L + i])
  <2>1. Len(c2s) - Ahead = Len(c2s) /\ Ahead + i = i /\ pos + Ahead + i = pos + i
    BY <1>0
  <2> QED BY <2>1 DEF Flow
<1>4. /\ code \in Seq(Bytes) /\ Len(code) = n
      /\ \A i \in 1..n : code[i] = Sealed(key, pos + i, c2s[i])
  <2> DEFINE p == SubSeq(c2s, 1, n)
  <2>1. p \in Seq(Bytes) /\ Len(p) = n /\ \A i \in 1..n : p[i] = c2s[i]
    BY <1>0, Split
  <2> HIDE DEF p
  <2>2. /\ Crypt(skeys.recv, p) \in Seq(Bytes) /\ Len(Crypt(skeys.recv, p)) = Len(p)
        /\ \A i \in 1..Len(p) : Crypt(skeys.recv, p)[i] = Sealed(key, pos + i, p[i])
    BY ONLY <1>0, <2>1, CryptIs
  <2>3. code = Crypt(skeys.recv, p)
    BY DEF p
  <2> QED BY ONLY <2>1, <2>2, <2>3
<1>5. ASSUME NEW i \in 1..n PROVE code[i] = w[base + L + i]
  <2>1. i \in 1..Len(c2s) /\ base + L + i \in 1..Len(w)
    BY <1>0, <1>3
  <2>2. w[base + L + i] \in Bytes
    BY ONLY <1>0, <2>1, ElementOfSeq
  <2>3. code[i] = Sealed(key, pos + i, Sealed(key, pos + i, w[base + L + i]))
    BY <1>3, <1>4, <2>1
  <2> QED BY ONLY <2>2, <2>3, SealedTwice
<1>6. Got' = Got \o code
  OBVIOUS
<1> HIDE DEF code
<1>7. /\ Len(Got') = L + n
      /\ \A i \in 1..L : Got'[i] = Got[i]
      /\ \A i \in 1..n : Got'[L + i] = code[i]
  <2>1. Got \in Seq(Bytes) /\ code \in Seq(Bytes)
    BY <1>0, <1>4
  <2>2. /\ Len(Got \o code) = Len(Got) + Len(code)
        /\ \A i \in 1..Len(Got) : (Got \o code)[i] = Got[i]
        /\ \A i \in 1..Len(code) : (Got \o code)[Len(Got) + i] = code[i]
    BY ONLY <2>1, Joined
  <2> QED BY ONLY <1>4, <1>6, <2>2
<1>8. base + L <= Len(w) /\ \A i \in 1..L : Got[i] = w[base + i]
  BY DEF Flow
<1> HIDE DEF L
<1>9. L \in Nat
  BY <1>0 DEF L
<1>10. base + Len(Got') <= Len(w)
  <2>1. CASE n = 0
    BY <1>0, <1>7, <1>8, <1>9, <2>1
  <2>2. CASE n \in 1..Len(c2s)
    <3>1. base + L + n <= Len(w)
      BY <1>3, <2>2
    <3> QED BY <1>0, <1>7, <1>9, <3>1
  <2> QED BY <1>0, <2>1, <2>2
<1>11. ASSUME NEW i \in 1..Len(Got') PROVE Got'[i] = w[base + i]
  <2>1. CASE i \in 1..L
    BY <1>7, <1>8, <2>1
  <2>2. CASE i \notin 1..L
    <3>1. i - L \in 1..n /\ L + (i - L) = i /\ base + L + (i - L) = base + i
      BY <1>0, <1>7, <1>9, <2>2
    <3> QED BY <1>5, <1>7, <3>1
  <2> QED BY <2>1, <2>2
<1>12. ASSUME NEW i \in 1..(Len(c2s') - Ahead')
       PROVE  /\ base + Len(Got') + i <= Len(w)
              /\ c2s'[Ahead' + i] =
                   Sealed(skeys'.recv.key, skeys'.recv.pos + Ahead' + i, w[base + Len(Got') + i])
  <2>0. Len(c2s') - Ahead' = Len(c2s) - n /\ i \in Nat
    BY <1>0, <1>1
  <2>1. /\ i \in 1..(Len(c2s) - n) /\ n + i \in 1..Len(c2s) /\ Ahead' + i = i
        /\ base + L + (n + i) = base + Len(Got') + i
    <3>1. i \in 1..(Len(c2s) - n)
      BY <2>0
    <3>2. n + i \in 1..Len(c2s)
      BY ONLY <1>0, <3>1
    <3>3. Ahead' + i = i
      BY <2>0
    <3>4. base + L + (n + i) = base + (L + n) + i
      BY <1>0, <1>9, <2>0
    <3> QED BY <1>7, <3>1, <3>2, <3>3, <3>4
  <2>2. c2s'[i] = Sealed(key, pos + (n + i), w[base + L + (n + i)]) /\ base + L + (n + i) <= Len(w)
    BY <1>1, <1>3, <2>1
  <2>3. key # <<>> => skeys'.recv.pos + Ahead' + i = pos + (n + i)
    BY <1>0, <1>2
  <2> QED BY <1>2, <2>1, <2>2, <2>3 DEF Sealed
<1>13. client = "ready" =>
         /\ base + Len(Got') + Len(c2s') - Ahead' = Len(w)
         /\ ckeys.send.key = skeys'.recv.key
         /\ ckeys.send.key # <<>> => ckeys.send.pos = skeys'.recv.pos + Len(c2s')
  <2>1. SUFFICES ASSUME client = "ready"
                 PROVE  /\ base + Len(Got') + Len(c2s') - Ahead' = Len(w)
                        /\ ckeys.send.key = skeys'.recv.key
                        /\ ckeys.send.key # <<>> => ckeys.send.pos = skeys'.recv.pos + Len(c2s')
    OBVIOUS
  <2>2. /\ base + Len(Got) + Len(c2s) - Ahead = Len(w)
        /\ ckeys.send.key = skeys.recv.key
        /\ ckeys.send.key # <<>> => ckeys.send.pos = skeys.recv.pos + Len(c2s)
    BY <2>1 DEF Flow
  <2>3. base + Len(Got') + Len(c2s') - Ahead' = base + Len(Got) + Len(c2s) - Ahead
    <3>1. base + (L + n) + (Len(c2s) - n) - 0 = base + L + Len(c2s) - 0
      BY ONLY <1>0, <1>9, base \in Nat
    <3> QED BY <1>1, <1>7, <3>1 DEF L
  <2>4. key # <<>> => skeys'.recv.pos + Len(c2s') = pos + Len(c2s)
    BY <1>0, <1>1, <1>2
  <2> QED BY <1>2, <2>2, <2>3, <2>4
<1>14. UNCHANGED <<client, ckeys>>
  OBVIOUS
<1> QED BY ONLY <1>10, <1>11, <1>12, <1>13, <1>14 DEF Flow

\* Only ClientSend takes a frame from what is to be sent, and nothing goes back to
\* the beginning.
LEMMA TodoStays ==
    ASSUME [Next]_vars, ~ClientSend
    PROVE  /\ UNCHANGED <<script, todo>>
           /\ client' \in {"start", "probe", "hello"} => client \in {"start", "probe", "hello"}
           /\ pc' \in Asking => pc \in Asking
<1>1. UNCHANGED script
  BY ScriptStays
<1>2. UNCHANGED todo
  BY DEF vars, peer, setting, Next, Client, Serve, Handshake, ReadFrame, Send, Hello,
         AnswerRead, ClientRead, ClientLeave, ReadFirst, ReadGA, ReadPadLen, ReadPad,
         ReadHdr, ReadPad2, ReadChunk, ReadPrefix, ReadConn, GotHeader, GotBody, ReadEnds,
         EncryptReply, WriteReply, WriteFails
<1>3. client' \in {"start", "probe", "hello"} => client \in {"start", "probe", "hello"}
  BY DEF vars, peer, setting, Next, Client, Serve, Handshake, ReadFrame, Send, Hello,
         AnswerRead, ClientRead, ClientLeave, ReadFirst, ReadGA, ReadPadLen, ReadPad,
         ReadHdr, ReadPad2, ReadChunk, ReadPrefix, ReadConn, GotHeader, GotBody, ReadEnds,
         EncryptReply, WriteReply, WriteFails
<1>4. pc' \in Asking => pc \in Asking
  BY DEF vars, reading, setting, Next, Client, Serve, Handshake, ReadFrame, Send, Hello,
         AnswerRead, ClientRead, ClientLeave, ReadFirst, ReadGA, ReadPadLen, ReadPad,
         ReadHdr, ReadPad2, ReadChunk, ReadPrefix, ReadConn, GotHeader, GotBody, ReadEnds,
         EncryptReply, WriteReply, WriteFails, Asking
<1> QED BY <1>1, <1>2, <1>3, <1>4

\* Frames leave the client's list at its head only.
LEMMA TodoStep == TypeInv /\ HandshakeInv /\ TodoInv /\ [Next]_vars => TodoInv'
<1> SUFFICES ASSUME TypeInv, HandshakeInv, TodoInv, [Next]_vars PROVE TodoInv'
  OBVIOUS
<1>1. CASE ~ClientSend
  <2>1. /\ UNCHANGED <<script, todo>>
        /\ client' \in {"start", "probe", "hello"} => client \in {"start", "probe", "hello"}
        /\ pc' \in Asking => pc \in Asking
    BY <1>1, TodoStays
  <2>2. Sent' = Sent
    BY <2>1 DEF Sent
  <2> QED BY <2>1, <2>2 DEF TodoInv
<1>2. CASE ClientSend
  <2>1. /\ client = "ready" /\ client' = client /\ pc' = pc /\ todo # <<>> /\ todo' = Tail(todo)
        /\ script' = script
    BY <1>2 DEF ClientSend, reading, setting
  <2>2. script.kind # "plain" => pc \notin Asking
    BY <2>1 DEF HandshakeInv, ObfuscatedInv, AskingInv
  <2>3. /\ todo \in Seq(Frames) /\ Len(todo) \in Nat /\ Len(script.frames) \in Nat
        /\ Len(todo) <= Len(script.frames)
    BY ScriptIs DEF TypeInv, TodoInv
  <2>4. /\ Len(todo') = Len(todo) - 1 /\ Len(todo') \in Nat
        /\ \A i \in 1..Len(todo') : todo'[i] = todo[i + 1]
    BY <2>1, <2>3, HeadTailProperties
  <2>5. Sent \in Nat /\ Sent' = Sent + 1
    BY <2>1, <2>3, <2>4 DEF Sent
  <2>6. ASSUME NEW i \in 1..Len(todo') PROVE todo'[i] = script'.frames[Sent' + i]
    <3>1. i + 1 \in 1..Len(todo) /\ Sent + (i + 1) = Sent' + i
      BY <2>3, <2>4, <2>5
    <3>2. todo[i + 1] = script.frames[Sent + (i + 1)]
      BY <3>1 DEF TodoInv
    <3> QED BY <2>1, <2>4, <3>1, <3>2
  <2>7. Len(todo') <= Len(script'.frames)
    BY <2>1, <2>3, <2>4
  <2>8. ~(client' \in {"start", "probe", "hello"} \/ (script'.kind # "plain" /\ pc' \in Asking))
    BY <2>1, <2>2
  <2> QED BY <2>6, <2>7, <2>8 DEF TodoInv
<1> QED BY <1>1, <1>2

\* Bytes of frames are in a buffer only where the frames are read.
LEMMA BuffersStep ==
    TypeInv /\ HandshakeInv /\ RepliesInv /\ BuffersInv /\ [Next]_vars => BuffersInv'
<1> SUFFICES ASSUME TypeInv, HandshakeInv, RepliesInv, BuffersInv, [Next]_vars PROVE BuffersInv'
  OBVIOUS
<1>0. UNCHANGED script
  BY ScriptStays
<1> USE DEF setting, peer, reading, BuffersInv, Asking, Proving
<1>1. CASE Hello \/ AnswerRead \/ ClientSend \/ ClientRead \/ ClientLeave
  BY <1>0, <1>1 DEF Hello, AnswerRead, ClientSend, ClientRead, ClientLeave
<1>2. CASE ReadFirst
  <2>1. pc' \in {"header", "ga", "closed"} /\ pc = "first" /\ UNCHANGED <<buf, header>>
        /\ (pc' # "header" => prefix' = prefix)
    BY <1>2 DEF ReadFirst
  <2> QED BY <2>1
<1>3. CASE ReadGA
  BY <1>3 DEF ReadGA
<1>4. CASE ReadPadLen
  BY <1>4 DEF ReadPadLen
<1>5. CASE ReadPad
  BY <1>5 DEF ReadPad
<1>6. CASE ReadHdr
  <2>1. pc = "hdr" /\ UNCHANGED <<buf, prefix, header>>
    BY <1>6 DEF ReadHdr
  <2>2. pc' \in {"pad2", "closed"} /\ local' = [local EXCEPT !.pad = script.pad2]
    BY <1>6, ReadHdrIs
  <2>3. local'.pad = script.pad2
    BY <2>2 DEF TypeInv
  <2> QED BY <1>0, <2>1, <2>2, <2>3
<1>7. CASE ReadPad2
  BY <1>7 DEF ReadPad2
<1>8. CASE ReadChunk
  BY <1>8 DEF ReadChunk
<1>9. CASE ReadPrefix \/ ReadConn
  BY <1>9 DEF ReadPrefix, ReadConn
<1>10. CASE GotHeader
  BY <1>10 DEF GotHeader
<1>11. CASE GotBody
  <2>1. pc' \in {"closed", "reply"} /\ buf' = <<>> /\ header' = <<>>
    BY <1>11 DEF GotBody
  <2> QED BY <2>1
<1>12. CASE ReadEnds
  BY <1>12 DEF ReadEnds
<1>13. ASSUME NEW w \in Writers, EncryptReply(w) PROVE BuffersInv'
  BY <1>0, <1>13 DEF EncryptReply
<1>14. ASSUME NEW w \in Writers, WriteReply(w) PROVE BuffersInv'
  <2>1. w = "own" => pc = "reply"
    BY <1>14 DEF WriteReply, RepliesInv
  <2>2. /\ pc' = IF w = "own" THEN "header" ELSE pc
        /\ UNCHANGED <<local, buf, prefix, header>>
    BY <1>14 DEF WriteReply
  <2> QED BY <1>0, <2>1, <2>2
<1>15. ASSUME NEW w \in Writers, WriteFails(w) PROVE BuffersInv'
  BY <1>0, <1>15 DEF WriteFails
<1>16. CASE UNCHANGED vars
  BY <1>0, <1>16 DEF vars
<1> QED
  BY <1>1, <1>2, <1>3, <1>4, <1>5, <1>6, <1>7, <1>8, <1>9, <1>10, <1>11, <1>12, <1>13, <1>14,
     <1>15, <1>16
  DEF Next, Client, Serve, Handshake, ReadFrame, Send

\* No bytes of frames yet.
LEMMA NothingSent ==
    ASSUME Sent = 0
    PROVE  Wire(<<>>, <<0>>)
<1>1. <<0>> \in [1..(0 + 1) -> Nat] /\ <<0>>[1] = 0 /\ <<0>>[0 + 1] = 0
  OBVIOUS
<1> QED BY <1>1 DEF Wire

LEMMA InitFrames == Init => TodoInv /\ BuffersInv /\ HandledInv /\ FlowInv
<1> SUFFICES ASSUME Init PROVE TodoInv /\ BuffersInv /\ HandledInv /\ FlowInv
  OBVIOUS
<1>1. Len(script.frames) \in Nat /\ todo = script.frames
  BY ScriptIs DEF Init
<1>2. Sent = 0
  BY <1>1 DEF Sent
<1>3. TodoInv
  BY <1>1, <1>2 DEF TodoInv
<1>4. BuffersInv
  BY DEF Init, BuffersInv
<1>5. HandledInv
  BY <1>2 DEF Init, HandledInv
<1>6. Got = <<>> /\ Ahead = 0
  BY DEF Init, Got, Ahead
<1>7. Flow(<<>>, 0)
  BY <1>6 DEF Init, Flow
<1>8. Wire(<<>>, <<0>>)
  BY <1>2, NothingSent
<1>9. <<0>>[Len(handled) + 1] = 0
  BY DEF Init
<1>10. FlowInv
  BY <1>7, <1>8, <1>9 DEF FlowInv
<1> QED BY <1>3, <1>4, <1>5, <1>10

\* The client sends no more frames than it has.
LEMMA SentIs ==
    ASSUME TypeInv, TodoInv
    PROVE  Sent \in Nat /\ Sent <= Len(script.frames) /\ Len(script.frames) \in Nat
           /\ script.frames \in Seq(Frames)
<1>1. /\ script.frames \in Seq(Frames) /\ Len(script.frames) \in Nat /\ Len(todo) \in Nat
      /\ Len(todo) <= Len(script.frames)
  BY ScriptIs DEF TypeInv, TodoInv
<1> QED BY ONLY <1>1 DEF Sent

\* A header and a body that are read whole are those of the next frame.
LEMMA FrameIs ==
    ASSUME TypeInv, TodoInv, HandledInv, pc = "body", Wanted = 0, NEW w, NEW s,
           Wire(w, s), Flow(w, s[Len(handled) + 1]), NEW f, f = Len(handled) + 1
    PROVE  /\ f \in 1..Sent /\ f \in Nat /\ script.frames[f] \in Frames
           /\ Legible(header[1], "edonkey") <=> script.frames[f].protocol = "edonkey"
           /\ Packed(header) <=> script.frames[f].protocol = "packed"
           /\ header[3].val[2] = script.frames[f].op
           /\ buf = script.frames[f].body
           /\ s[f] \in Nat /\ s[f + 1] = s[f] + (3 + Len(buf))
<1>1. Sent \in Nat /\ Sent <= Len(script.frames) /\ Len(script.frames) \in Nat
      /\ script.frames \in Seq(Frames)
  BY SentIs
<1>2. Len(handled) \in Nat /\ Len(handled) <= Sent
  BY DEF TypeInv, HandledInv
<1>3. f \in 1..(Sent + 1) /\ f \in Nat
  BY ONLY <1>1, <1>2, f = Len(handled) + 1
<1>4. /\ w \in Seq(PlainBytes) /\ Len(w) \in Nat /\ s[f] \in Nat /\ s[Sent + 1] = Len(w)
  BY <1>3 DEF Wire
<1>5. /\ s[f] + Len(Got) <= Len(w)
      /\ \A i \in 1..Len(Got) : Got[i] = w[s[f] + i]
  BY DEF Flow
<1>6. Len(header) = 3 /\ header \in Seq(Bytes) /\ buf \in Seq(Bytes)
  BY DEF TypeInv, HeaderSize
<1>7. /\ Len(Got) = 3 + Len(buf) + Len(prefix) /\ Len(buf) \in Nat /\ Len(prefix) \in Nat
      /\ \A i \in 1..3 : Got[i] = header[i]
      /\ \A i \in 1..Len(buf) : Got[3 + i] = buf[i]
  <2>1. /\ Len(header) \in Nat /\ Len(buf) \in Nat /\ Len(prefix) \in Nat
        /\ Len(Got) = Len(header) + Len(buf) + Len(prefix)
        /\ \A i \in 1..Len(header) : Got[i] = header[i]
        /\ \A i \in 1..Len(buf) : Got[Len(header) + i] = buf[i]
    BY GotIs
  <2> QED BY ONLY <1>6, <2>1
<1>8. f \in 1..Sent
  <2>1. f # Sent + 1
    BY ONLY <1>4, <1>5, <1>7
  <2> QED BY ONLY <1>1, <1>3, <2>1
<1> DEFINE F == script.frames[f]
           E == Encode(F)
<1>9. F \in Frames
  <2>1. f \in 1..Len(script.frames)
    BY ONLY <1>1, <1>8
  <2> QED BY ONLY <1>1, <2>1, ElementOfSeq
<1>10. /\ Len(F.body) \in Nat
       /\ E[1] = Byte(F.protocol, 0) /\ E[2] = Byte("n", 1 + Len(F.body))
       /\ E[3] = Byte("op", F.op)
       /\ \A i \in 1..Len(F.body) : E[3 + i] = F.body[i]
  BY <1>9, EncodeIs
<1>11. /\ s[f + 1] = s[f] + 3 + Len(F.body)
       /\ \A i \in 1..(s[f + 1] - s[f]) : w[s[f] + i] = E[i]
  BY <1>8 DEF Wire, HeaderSize
<1> HIDE DEF F, E
<1>12. \A i \in 1..(3 + Len(F.body)) : w[s[f] + i] = E[i]
  <2>1. s[f + 1] - s[f] = 3 + Len(F.body)
    BY ONLY <1>4, <1>10, <1>11
  <2> QED BY ONLY <1>11, <2>1
<1>13. ASSUME NEW i \in 1..3 PROVE header[i] = E[i]
  <2>1. i \in 1..Len(Got) /\ i \in 1..(3 + Len(F.body))
    BY ONLY <1>7, <1>10, i \in 1..3
  <2> QED BY ONLY <1>5, <1>7, <1>12, <2>1, i \in 1..3
<1>14. /\ header[1] = Byte(F.protocol, 0) /\ header[2] = Byte("n", 1 + Len(F.body))
       /\ header[3] = Byte("op", F.op)
  BY <1>10, <1>13
<1>15. Len(buf) = Len(F.body)
  <2>1. Number(header[2]) = 1 + Len(F.body)
    <3>1. 1 + Len(F.body) \in Int
      BY <1>10
    <3> QED BY ONLY <1>14, <3>1, NumberIs
  <2>2. Number(header[2]) - 1 - Len(buf) = 0
    BY DEF Wanted
  <2> QED BY ONLY <1>7, <1>10, <2>1, <2>2
<1>16. ASSUME NEW i \in 1..Len(buf) PROVE buf[i] = F.body[i]
  <2>1. 3 + i \in 1..Len(Got) /\ 3 + i \in 1..(3 + Len(F.body)) /\ i \in 1..Len(F.body)
    BY ONLY <1>7, <1>10, <1>15, i \in 1..Len(buf)
  <2>2. buf[i] = w[s[f] + (3 + i)]
    BY ONLY <1>5, <1>7, <2>1, i \in 1..Len(buf)
  <2>3. w[s[f] + (3 + i)] = F.body[i]
    BY ONLY <1>10, <1>12, <2>1
  <2> QED BY <2>2, <2>3
<1>17. buf = F.body
  <2>1. F.body \in Seq(Bytes)
    BY <1>9, PlainAreBytes DEF Frames
  <2> QED BY ONLY <1>6, <1>15, <1>16, <2>1, SeqEqual
<1>18. s[f + 1] = s[f] + (3 + Len(buf))
  <2>1. s[f] + 3 + Len(F.body) = s[f] + (3 + Len(F.body))
    BY ONLY <1>4, <1>10
  <2> QED BY ONLY <1>11, <1>15, <2>1
<1>19. /\ Legible(header[1], "edonkey") <=> F.protocol = "edonkey"
       /\ Legible(header[1], "packed") <=> F.protocol = "packed"
  BY ONLY <1>14, LegibleIs
<1>20. header[3].val[2] = F.op
  BY ONLY <1>14 DEF Byte
<1> QED BY <1>3, <1>4, <1>8, <1>9, <1>17, <1>18, <1>19, <1>20 DEF F, Packed

\* The client sends a frame.
LEMMA SendIs ==
    ASSUME TypeInv, TodoInv, HandledInv, ClientSend, NEW w, NEW s, Wire(w, s),
           Flow(w, s[Len(handled) + 1]), UNCHANGED script
    PROVE  \E v, t : Wire(v, t)' /\ Flow(v, t[Len(handled) + 1])'
<1> DEFINE F == Head(todo)
           E == Encode(F)
           code == Crypt(ckeys.send, E)
<1>v. PICK v : v = w \o E
  OBVIOUS
<1>t. PICK t : t = [i \in 1..(Sent + 2) |-> IF i = Sent + 2 THEN Len(v) ELSE s[i]]
  OBVIOUS
<1>b. PICK base : base = s[Len(handled) + 1]
  OBVIOUS
<1>1. /\ client = "ready" /\ todo # <<>> /\ todo' = Tail(todo) /\ c2s' = c2s \o code
      /\ ckeys' = [ckeys EXCEPT !.send = Advanced(@, Len(E))]
      /\ UNCHANGED <<client, pc, skeys, header, buf, prefix, handled>>
  BY DEF ClientSend, reading
<1>2. Sent \in Nat /\ Sent <= Len(script.frames) /\ Len(script.frames) \in Nat
      /\ script.frames \in Seq(Frames)
  BY SentIs
<1>3. Len(handled) \in Nat /\ Len(handled) <= Sent
  BY DEF TypeInv, HandledInv
<1>4. Sent' = Sent + 1 /\ F = script.frames[Sent + 1] /\ F \in Frames
  <2>1. todo \in Seq(Frames) /\ Len(todo) \in Nat /\ Len(todo) > 0
    BY <1>1 DEF TypeInv
  <2>2. Len(Tail(todo)) = Len(todo) - 1 /\ F = todo[1] /\ F \in Frames
    BY ONLY <1>1, <2>1, HeadTailProperties
  <2>3. Sent' = Sent + 1
    BY <1>1, <1>2, <2>1, <2>2 DEF Sent
  <2>4. todo[1] = script.frames[Sent + 1]
    BY <2>1 DEF TodoInv
  <2> QED BY <2>2, <2>3, <2>4
<1>5. /\ w \in Seq(PlainBytes) /\ Len(w) \in Nat /\ s \in [1..(Sent + 1) -> Nat]
      /\ s[1] = 0 /\ s[Sent + 1] = Len(w)
      /\ \A f \in 1..Sent :
            /\ s[f + 1] = s[f] + 3 + Len(script.frames[f].body)
            /\ s[f + 1] <= Len(w)
            /\ \A i \in 1..(s[f + 1] - s[f]) : w[s[f] + i] = Encode(script.frames[f])[i]
  BY DEF Wire, HeaderSize
<1>6. E \in Seq(PlainBytes) /\ Len(F.body) \in Nat /\ Len(E) = 3 + Len(F.body) /\ Len(E) \in Nat
      /\ E \in Seq(Bytes)
  BY <1>4, EncodeIs, PlainAreBytes
<1>n. Len(w) \in Nat /\ Len(E) \in Nat /\ Len(F.body) \in Nat
  BY ONLY <1>5, <1>6
<1>7. /\ code \in Seq(Bytes) /\ Len(code) = Len(E)
      /\ \A i \in 1..Len(E) : code[i] = Sealed(ckeys.send.key, ckeys.send.pos + i, E[i])
  <2>1. ckeys.send \in RC4s
    BY DEF TypeInv
  <2> HIDE DEF E
  <2> QED BY ONLY <1>6, <2>1, CryptIs
<1>8. base \in Nat
  BY <1>b, <1>2, <1>3, <1>5
<1> HIDE DEF F, E, code
<1>9. /\ v \in Seq(PlainBytes) /\ Len(v) = Len(w) + Len(E)
      /\ \A i \in 1..Len(w) : v[i] = w[i]
      /\ \A i \in 1..Len(E) : v[Len(w) + i] = E[i]
  <2>1. w \in Seq(PlainBytes) /\ E \in Seq(PlainBytes)
    BY <1>5, <1>6
  <2> QED BY ONLY <1>v, <2>1, Joined
<1>10. Len(v) \in Nat
  BY ONLY <1>5, <1>6, <1>9
<1>11. /\ t \in [1..(Sent' + 1) -> Nat] /\ \A i \in 1..(Sent + 1) : t[i] = s[i]
       /\ t[Sent + 2] = Len(v)
  <2>1. Sent' + 1 = Sent + 2 /\ \A i \in 1..(Sent + 2) : i # Sent + 2 => i \in 1..(Sent + 1)
    BY <1>2, <1>4
  <2>2. \A i \in 1..(Sent + 1) : i \in 1..(Sent + 2) /\ i # Sent + 2
    BY <1>2
  <2>3. Sent + 2 \in 1..(Sent + 2)
    BY <1>2
  <2> QED BY ONLY <1>t, <1>5, <1>10, <2>1, <2>2, <2>3
<1>12. Wire(v, t)'
  <2>1. t[1] = 0 /\ t[Sent' + 1] = Len(v)
    BY <1>2, <1>4, <1>5, <1>11
  <2>2. ASSUME NEW f \in 1..Sent'
        PROVE  /\ t[f + 1] = t[f] + HeaderSize + Len(script'.frames[f].body)
               /\ t[f + 1] <= Len(v)
               /\ \A i \in 1..(t[f + 1] - t[f]) : v[t[f] + i] = Encode(script'.frames[f])[i]
    <3>1. CASE f \in 1..Sent
      <4>1. t[f] = s[f] /\ t[f + 1] = s[f + 1] /\ s[f] \in Nat /\ s[f + 1] \in Nat
        <5>1. f \in 1..(Sent + 1) /\ f + 1 \in 1..(Sent + 1)
          BY ONLY <1>2, <3>1
        <5> QED BY ONLY <1>5, <1>11, <5>1
      <4>2. t[f + 1] <= Len(v)
        BY ONLY <1>5, <1>6, <1>9, <3>1, <4>1
      <4>3. ASSUME NEW i \in 1..(t[f + 1] - t[f]) PROVE v[t[f] + i] = Encode(script.frames[f])[i]
        <5>0. s[f + 1] <= Len(w) /\ i \in 1..(s[f + 1] - s[f])
          BY <1>5, <3>1, <4>1
        <5>1. s[f] + i \in 1..Len(w) /\ i \in 1..(s[f + 1] - s[f])
          BY ONLY <1>n, <4>1, <5>0
        <5> QED BY <1>5, <1>9, <3>1, <4>1, <5>1
      <4> QED BY <1>5, <3>1, <4>1, <4>2, <4>3 DEF HeaderSize
    <3>2. CASE f = Sent + 1
      <4>1. t[f] = Len(w) /\ t[f + 1] = Len(v)
        <5>1. f + 1 = Sent + 2 /\ f \in 1..(Sent + 1)
          BY <1>2, <3>2
        <5> QED BY <1>5, <1>11, <3>2, <5>1
      <4>2. script'.frames[f] = F
        BY <1>4, <3>2
      <4>3. t[f + 1] = t[f] + HeaderSize + Len(F.body)
        <5>0. \A a, b \in Nat : a + (3 + b) = a + 3 + b
          OBVIOUS
        <5>1. Len(w) + (3 + Len(F.body)) = Len(w) + 3 + Len(F.body)
          BY ONLY <1>n, <5>0, Zenon
        <5> QED BY ONLY <1>6, <1>9, <4>1, <5>1 DEF HeaderSize
      <4>4. t[f + 1] - t[f] = Len(E)
        BY ONLY <1>5, <1>6, <1>9, <4>1
      <4>5. \A i \in 1..(t[f + 1] - t[f]) : v[t[f] + i] = E[i]
        BY ONLY <1>9, <4>1, <4>4
      <4>6. t[f + 1] <= Len(v)
        BY ONLY <1>10, <4>1
      <4> QED BY ONLY <4>2, <4>3, <4>5, <4>6 DEF E
    <3> QED BY <1>2, <1>4, <3>1, <3>2
  <2> QED BY ONLY <1>9, <1>11, <2>1, <2>2 DEF Wire
<1>13. Flow(v, base)'
  <2> DEFINE key == skeys.recv.key
             pos == skeys.recv.pos
             L == Len(Got)
             A == Ahead
             C == Len(c2s)
  <2>1. /\ L \in Nat /\ A \in Nat /\ C \in Nat /\ pos \in Nat /\ c2s \in Seq(Bytes)
    <3>1. skeys.recv \in RC4s /\ c2s \in Seq(Bytes) /\ Len(c2s) \in Nat
      BY DEF TypeInv
    <3>2. skeys.recv.pos \in Nat
      BY ONLY <3>1 DEF RC4s, NoRC4, NewRC4
    <3>3. Len(Got) \in Nat /\ Ahead \in Nat
      BY GotIs, AheadIs
    <3> QED BY <3>1, <3>2, <3>3
  <2>n. L \in Nat /\ A \in Nat /\ C \in Nat /\ pos \in Nat
    BY ONLY <2>1
  <2>2. Got' = Got /\ Ahead' = Ahead
    BY <1>1 DEF Got, Ahead, ReplySize
  <2>3. /\ base + L <= Len(w)
        /\ \A i \in 1..L : Got[i] = w[base + i]
        /\ \A i \in 1..(C - A) :
              base + L + i <= Len(w) /\ c2s[A + i] = Sealed(key, pos + A + i, w[base + L + i])
        /\ base + L + C - A = Len(w)
        /\ ckeys.send.key = key
        /\ key # <<>> => ckeys.send.pos = pos + C
    BY <1>b, <1>1 DEF Flow
  <2>4. /\ Len(c2s') = C + Len(E)
        /\ \A i \in 1..C : c2s'[i] = c2s[i]
        /\ \A i \in 1..Len(E) : c2s'[C + i] = code[i]
    <3>1. c2s \in Seq(Bytes) /\ code \in Seq(Bytes)
      BY <1>7, <2>1
    <3>2. /\ Len(c2s \o code) = Len(c2s) + Len(code)
          /\ \A i \in 1..Len(c2s) : (c2s \o code)[i] = c2s[i]
          /\ \A i \in 1..Len(code) : (c2s \o code)[Len(c2s) + i] = code[i]
      BY ONLY <3>1, Joined
    <3> QED BY ONLY <1>1, <1>7, <3>2
  <2>5. /\ ckeys'.send.key = ckeys.send.key
        /\ ckeys.send.key # <<>> => ckeys'.send.pos = ckeys.send.pos + Len(E)
    <3>1. ckeys.send \in RC4s /\ ckeys'.send = Advanced(ckeys.send, Len(E))
      BY <1>1 DEF TypeInv
    <3>2. PICK n : n = Len(E)
      OBVIOUS
    <3>3. n \in Nat /\ ckeys'.send = Advanced(ckeys.send, n)
      BY ONLY <1>6, <3>1, <3>2
    <3>4. /\ Advanced(ckeys.send, n).key = ckeys.send.key
          /\ ckeys.send.key # <<>> => Advanced(ckeys.send, n).pos = ckeys.send.pos + n
      BY ONLY <3>1, <3>3, AdvancedIs
    <3> QED BY ONLY <3>2, <3>3, <3>4
  <2> HIDE DEF key, pos, L, A, C
  <2>6. base + L <= Len(v) /\ \A i \in 1..L : Got[i] = v[base + i]
    <3>1. base + L <= Len(v)
      BY ONLY <1>5, <1>6, <1>8, <1>9, <2>1, <2>3
    <3>2. ASSUME NEW i \in 1..L PROVE Got[i] = v[base + i]
      <4>1. base + i \in 1..Len(w)
        BY ONLY <1>5, <1>8, <2>1, <2>3, i \in 1..L
      <4> QED BY <1>9, <2>3, <4>1
    <3> QED BY <3>1, <3>2
  <2>m. Len(c2s') - A = C + Len(E) - A
    <3>1. Len(c2s') = C + Len(E)
      BY <2>4
    <3> QED BY <1>n, <2>n, <3>1
  <2>7. ASSUME NEW i \in 1..(Len(c2s') - A)
        PROVE  base + L + i <= Len(v) /\ c2s'[A + i] = Sealed(key, pos + A + i, v[base + L + i])
    <3>1. CASE i \in 1..(C - A)
      <4>1. base + L + i \in 1..Len(w) /\ A + i \in 1..C
        <5>1. base + L + i <= Len(w)
          BY ONLY <2>3, <3>1
        <5> QED BY ONLY <1>n, <1>8, <2>n, <3>1, <5>1
      <4>2. base + L + i <= Len(v)
        BY ONLY <1>5, <1>6, <1>9, <4>1
      <4> QED BY <1>9, <2>3, <2>4, <3>1, <4>1, <4>2
    <3>2. CASE i \notin 1..(C - A)
      <4> DEFINE j == i - (C - A)
      <4>1. j \in 1..Len(E) /\ C + j = A + i /\ base + L + i = Len(w) + j /\ j \in Nat
        <5>1. i \in 1..(C + Len(E) - A)
          BY ONLY <2>m, i \in 1..(Len(c2s') - A)
        <5>2. C - A \in Int /\ C - A >= 0
          BY ONLY <1>5, <1>8, <2>1, <2>3
        <5>3. i > C - A
          BY ONLY <3>2, <5>1, <5>2
        <5>4. j \in 1..Len(E)
          BY ONLY <1>6, <2>1, <5>1, <5>2, <5>3
        <5>5. C + j = A + i
          BY ONLY <2>1, <5>1
        <5>6. base + L + i = base + L + C - A + j
          BY ONLY <1>8, <2>1, <5>1
        <5> QED BY ONLY <1>6, <2>3, <5>4, <5>5, <5>6
      <4> HIDE DEF j
      <4>2. c2s'[A + i] = Sealed(ckeys.send.key, ckeys.send.pos + j, v[base + L + i])
        BY <1>7, <1>9, <2>4, <4>1
      <4>3. key # <<>> => ckeys.send.pos + j = pos + A + i
        <5>1. pos + C + j = pos + A + i
          <6>1. i \in Int
            OBVIOUS
          <6> QED BY ONLY <2>1, <4>1, <6>1
        <5> QED BY ONLY <2>3, <5>1
      <4>4. base + L + i <= Len(v)
        BY ONLY <1>5, <1>6, <1>9, <4>1
      <4> QED BY ONLY <2>3, <4>2, <4>3, <4>4 DEF Sealed
    <3> QED BY <3>1, <3>2
  <2>8. base + L + Len(c2s') - A = Len(v)
    <3>1. base + L + (C + Len(E)) - A = base + L + C - A + Len(E)
      BY ONLY <1>n, <1>8, <2>n
    <3> QED BY ONLY <1>9, <2>3, <2>4, <3>1
  <2>9. key # <<>> => ckeys'.send.pos = pos + Len(c2s')
    BY ONLY <1>6, <2>1, <2>3, <2>4, <2>5
  <2>10. /\ key = skeys'.recv.key /\ pos = skeys'.recv.pos /\ L = Len(Got') /\ A = Ahead'
         /\ Got' = Got
    BY <1>1, <2>2 DEF key, pos, L, A
  <2>11. ckeys'.send.key = key
    BY <2>3, <2>5
  <2> HIDE DEF key, pos, L, A
  <2> QED BY ONLY <2>6, <2>7, <2>8, <2>9, <2>10, <2>11 DEF Flow
<1>14. t[Len(handled') + 1] = base
  <2>1. Len(handled) + 1 \in 1..(Sent + 1) /\ handled' = handled
    BY <1>1, <1>2, <1>3
  <2> QED BY ONLY <1>b, <1>11, <2>1
<1> QED BY <1>12, <1>13, <1>14

\* The bytes of frames go on from what they were.
LEMMA FlowCarried ==
    ASSUME TypeInv, TodoInv, HandledInv, FlowInv, UNCHANGED <<script, todo, handled>>,
           pc' # "closed" /\ (script.kind = "plain" \/ pc' \notin Asking) =>
               pc # "closed" /\ (script.kind = "plain" \/ pc \notin Asking),
           pc' # "closed" =>
               \A w \in Seq(PlainBytes), base \in Nat : Flow(w, base) => Flow(w, base)'
    PROVE  FlowInv'
<1>1. SUFFICES ASSUME pc' # "closed", script.kind = "plain" \/ pc' \notin Asking
               PROVE  \E w, s : Wire(w, s)' /\ Flow(w, s[Len(handled) + 1])'
  BY DEF FlowInv
<1>2. PICK w, s : Wire(w, s) /\ Flow(w, s[Len(handled) + 1])
  BY <1>1 DEF FlowInv
<1>3. Sent' = Sent
  BY DEF Sent
<1>4. Wire(w, s)'
  BY <1>2, <1>3 DEF Wire
<1>5. PICK base : base = s[Len(handled) + 1]
  OBVIOUS
<1>6. w \in Seq(PlainBytes) /\ base \in Nat
  <2>1. Sent \in Nat /\ Len(handled) \in Nat /\ Len(handled) <= Sent
    BY SentIs DEF HandledInv, TypeInv
  <2>2. Len(handled) + 1 \in 1..(Sent + 1)
    BY ONLY <2>1
  <2> QED BY <1>2, <1>5, <2>2 DEF Wire
<1>7. Flow(w, base)'
  BY <1>1, <1>2, <1>5, <1>6
<1>8. s[Len(handled') + 1] = base
  BY <1>5
<1> QED BY <1>4, <1>7, <1>8

\* The bytes of frames begin after the client's half.
LEMMA FlowBegins ==
    ASSUME TypeInv', Sent' = 0, handled' = <<>>, Got' = <<>>, Len(c2s') <= Ahead', Ahead' \in Nat,
           client' = "ready" =>
               /\ Len(c2s') = Ahead'
               /\ ckeys'.send.key = skeys'.recv.key
               /\ ckeys'.send.key # <<>> => ckeys'.send.pos = skeys'.recv.pos + Len(c2s')
    PROVE  FlowInv'
<1>1. Wire(<<>>, <<0>>)'
  <2>1. <<0>> \in [1..(0 + 1) -> Nat] /\ <<0>>[1] = 0 /\ <<0>>[0 + 1] = 0
    OBVIOUS
  <2> QED BY <2>1 DEF Wire
<1>2. Flow(<<>>, 0)'
  <2>1. Len(c2s') \in Nat /\ Len(Got') = 0
    BY DEF TypeInv
  <2>2. ~ \E i : i \in 1..(Len(c2s') - Ahead')
    BY <2>1
  <2>3. client' = "ready" => 0 + Len(Got') + Len(c2s') - Ahead' = 0
    BY <2>1
  <2> QED BY <2>1, <2>2, <2>3 DEF Flow
<1>3. <<0>>[Len(handled') + 1] = 0
  OBVIOUS
<1> QED BY <1>1, <1>2, <1>3 DEF FlowInv

\* A step that dispatches nothing keeps what was dispatched right.
LEMMA HandledStays ==
    ASSUME TypeInv, TodoInv, HandledInv, Sent <= Sent', Sent' \in Nat,
           UNCHANGED <<script, handled>>, pc' # "closed" => pc # "closed"
    PROVE  HandledInv'
<1>1. Len(handled) \in Nat /\ Len(handled) <= Sent /\ Sent \in Nat
  BY SentIs DEF TypeInv, HandledInv
<1>2. Len(handled') <= Sent'
  BY <1>1
<1> QED BY <1>2 DEF HandledInv

\* A whole frame is dispatched as the client means it, or the connection ends.
LEMMA GotBodyIs ==
    ASSUME TypeInv, TodoInv, HandledInv, FlowInv, GotBody
    PROVE  HandledInv' /\ FlowInv'
<1> DEFINE frame == [op |-> header[3].val[2], body |-> Unpack(header, buf)]
           fine == Legible(header[1], "edonkey") \/ (Packed(header) /\ CanInflate(buf))
<1>1. /\ pc = "body" /\ Wanted = 0
      /\ handled' = IF fine THEN Append(handled, frame) ELSE handled
      /\ pc' = IF ~fine \/ frame.op = 0 THEN "closed" ELSE "reply"
      /\ buf' = <<>> /\ header' = <<>>
      /\ UNCHANGED <<script, client, ckeys, todo, c2s, prefix, skeys>>
  BY DEF GotBody, setting, peer
<1>2. PICK w, s : Wire(w, s) /\ Flow(w, s[Len(handled) + 1])
  BY <1>1 DEF FlowInv, Asking
<1>3. PICK f : f = Len(handled) + 1
  OBVIOUS
<1> DEFINE F == script.frames[f]
<1>4. /\ f \in 1..Sent /\ f \in Nat /\ F \in Frames
      /\ Legible(header[1], "edonkey") <=> F.protocol = "edonkey"
      /\ Packed(header) <=> F.protocol = "packed"
      /\ header[3].val[2] = F.op
      /\ buf = F.body
      /\ s[f] \in Nat /\ s[f + 1] = s[f] + (3 + Len(buf))
  BY <1>1, <1>2, <1>3, FrameIs
<1>5. fine <=> Acceptable(F)
  BY <1>4 DEF Acceptable
<1>6. frame = Meaning(F) /\ frame.op = F.op
  BY <1>4 DEF Meaning, Unpack
<1> HIDE DEF frame, fine, F
<1>7. Sent' = Sent
  BY <1>1 DEF Sent
<1>8. Len(handled) \in Nat /\ Sent \in Nat /\ handled \in Seq([op : Int, body : Seq(Bytes)])
  BY SentIs DEF TypeInv
<1>9. ASSUME NEW i \in 1..Len(handled)
      PROVE  /\ handled[i] = Meaning(script.frames[i]) /\ Acceptable(script.frames[i])
             /\ script.frames[i].op # 0
  BY <1>1 DEF HandledInv
<1>10. CASE ~fine
  <2>1. handled' = handled /\ pc' = "closed"
    BY <1>1, <1>10
  <2>2. HandledInv'
    <3>1. Len(handled') <= Sent'
      BY <1>7, <2>1 DEF HandledInv
    <3> QED BY <1>1, <1>9, <2>1, <3>1 DEF HandledInv
  <2> QED BY <2>1, <2>2 DEF FlowInv
<1>11. CASE fine
  <2>1. handled' = Append(handled, Meaning(F))
    BY <1>1, <1>6, <1>11
  <2>2. /\ Len(handled') = f
        /\ \A i \in 1..Len(handled) : handled'[i] = handled[i]
        /\ handled'[f] = Meaning(F)
    <3> DEFINE S == [op : Int, body : Seq(Bytes)]
               T == S \cup {Meaning(F)}
    <3>1. S \subseteq T /\ Meaning(F) \in T /\ handled \in Seq(S)
      BY <1>8
    <3> HIDE DEF S, T
    <3>2. handled \in Seq(T)
      BY ONLY <3>1, SeqMonotonic
    <3>3. /\ Len(Append(handled, Meaning(F))) = Len(handled) + 1
          /\ \A i \in 1..Len(handled) : Append(handled, Meaning(F))[i] = handled[i]
          /\ Append(handled, Meaning(F))[Len(handled) + 1] = Meaning(F)
      BY ONLY <3>1, <3>2, AppendProperties
    <3> QED BY ONLY <1>3, <2>1, <3>3
  <2>3. Acceptable(F) /\ (pc' # "closed" => F.op # 0)
    BY <1>1, <1>5, <1>6, <1>11
  <2>4. HandledInv'
    <3>1. Len(handled') <= Sent'
      BY ONLY <1>4, <1>7, <1>8, <2>2
    <3>2. ASSUME NEW i \in 1..Len(handled')
          PROVE  /\ handled'[i] = Meaning(script.frames[i]) /\ Acceptable(script.frames[i])
                 /\ pc' # "closed" \/ i < Len(handled') => script.frames[i].op # 0
      <4>1. CASE i \in 1..Len(handled)
        BY <1>9, <2>2, <4>1
      <4>2. CASE i = f
        <5>1. ~(i < Len(handled'))
          BY ONLY <1>4, <2>2, <4>2
        <5> QED BY <2>2, <2>3, <4>2, <5>1 DEF F
      <4> QED BY <1>3, <1>8, <2>2, <4>1, <4>2
    <3>3. script' = script
      BY <1>1
    <3> QED BY ONLY <3>1, <3>2, <3>3 DEF HandledInv
  <2>5. CASE pc' = "closed"
    BY <2>4, <2>5 DEF FlowInv
  <2>6. CASE pc' = "reply"
    <3>1. Wire(w, s)'
      BY <1>1, <1>2, <1>7 DEF Wire
    <3>2. PICK base, next : base = s[f] /\ next = s[f + 1]
      OBVIOUS
    <3>3. Ahead = 0 /\ Ahead' = 0
      BY <1>1, <2>6 DEF Ahead
    <3>4. Got' = prefix
      <4>1. prefix \in Seq(Bytes) /\ Got' = (<<>> \o <<>>) \o prefix
        BY <1>1 DEF Got, TypeInv
      <4>2. (<<>> \o <<>>) = <<>> /\ <<>> \o prefix = prefix
        BY <4>1, ConcatEmptySeq
      <4> QED BY <4>1, <4>2
    <3>5. Len(header) = 3
      BY <1>1 DEF TypeInv, HeaderSize
    <3>6. /\ Len(buf) \in Nat /\ Len(prefix) \in Nat
          /\ Len(Got) = 3 + Len(buf) + Len(prefix)
          /\ \A i \in 1..Len(prefix) : Got[3 + Len(buf) + i] = prefix[i]
      <4>1. /\ Len(header) \in Nat /\ Len(buf) \in Nat /\ Len(prefix) \in Nat
            /\ Len(Got) = Len(header) + Len(buf) + Len(prefix)
            /\ \A i \in 1..Len(prefix) : Got[Len(header) + Len(buf) + i] = prefix[i]
        BY GotIs
      <4> QED BY ONLY <3>5, <4>1
    <3>7. /\ base \in Nat /\ next = base + (3 + Len(buf)) /\ next \in Nat
          /\ base + Len(Got) = next + Len(Got')
      <4>1. base \in Nat /\ next = base + (3 + Len(buf))
        BY ONLY <1>4, <3>2
      <4>2. next \in Nat /\ base + (3 + Len(buf) + Len(prefix)) = next + Len(prefix)
        BY ONLY <3>6, <4>1
      <4> QED BY ONLY <3>4, <3>6, <4>1, <4>2
    <3>8. /\ base + Len(Got) <= Len(w)
          /\ \A i \in 1..Len(Got) : Got[i] = w[base + i]
          /\ \A i \in 1..(Len(c2s) - Ahead) :
                /\ base + Len(Got) + i <= Len(w)
                /\ c2s[Ahead + i] =
                      Sealed(skeys.recv.key, skeys.recv.pos + Ahead + i, w[base + Len(Got) + i])
          /\ client = "ready" =>
                /\ base + Len(Got) + Len(c2s) - Ahead = Len(w)
                /\ ckeys.send.key = skeys.recv.key
                /\ ckeys.send.key # <<>> => ckeys.send.pos = skeys.recv.pos + Len(c2s)
      BY <1>2, <1>3, <3>2 DEF Flow
    <3>9. ASSUME NEW i \in 1..Len(prefix) PROVE prefix[i] = w[next + i]
      <4>1. 3 + Len(buf) + i \in 1..Len(Got) /\ base + (3 + Len(buf) + i) = next + i
        BY ONLY <3>6, <3>7, i \in 1..Len(prefix)
      <4> QED BY <3>6, <3>8, <4>1
    <3>10. Flow(w, next)'
      BY <1>1, <3>3, <3>4, <3>7, <3>8, <3>9 DEF Flow
    <3>11. s[Len(handled') + 1] = next
      BY ONLY <2>2, <3>2
    <3>12. FlowInv'
      BY <3>1, <3>10, <3>11 DEF FlowInv
    <3> QED BY <2>4, <3>12
  <2> QED BY <1>1, <2>5, <2>6
<1> QED BY <1>10, <1>11

LEMMA Regrouped ==
    \A x, y, z \in Seq(Bytes) : (x \o y) \o z = x \o (y \o z)
BY ConcatAssociative

\* Every step keeps the bytes of frames in their order, each once: sent, under way
\* or read, and dispatched when its frame is whole.
LEMMA FlowStep ==
    ASSUME TypeInv, TypeInv', HandshakeInv, RepliesInv, TodoInv, TodoInv', BuffersInv, BuffersInv',
           HandledInv, FlowInv, [Next]_vars
    PROVE  HandledInv' /\ FlowInv'
<1>0. /\ c2s \in Seq(Bytes) /\ Len(c2s) \in Nat /\ skeys.recv \in RC4s
      /\ prefix \in Seq(Bytes) /\ buf \in Seq(Bytes) /\ header \in Seq(Bytes)
      /\ skeys \in [send : RC4s, recv : RC4s] /\ ckeys \in [send : RC4s, recv : RC4s]
      /\ Len(prefix) \in Nat /\ UNCHANGED script
  <2>1. UNCHANGED script
    BY ScriptStays
  <2>2. /\ c2s \in Seq(Bytes) /\ prefix \in Seq(Bytes) /\ buf \in Seq(Bytes) /\ header \in Seq(Bytes)
        /\ skeys \in [send : RC4s, recv : RC4s] /\ ckeys \in [send : RC4s, recv : RC4s]
    BY DEF TypeInv
  <2>3. skeys.recv \in RC4s
    BY <2>2
  <2>4. Len(c2s) \in Nat /\ Len(prefix) \in Nat
    BY <2>2
  <2> QED BY <2>1, <2>2, <2>3, <2>4
<1>1. /\ client = "start" => pc = "first" /\ c2s = <<>>
      /\ handled # <<>> => pc \in Framing \cup {"closed"}
  BY DEF HandshakeInv
<1>2. ASSUME Sent' = Sent, handled' = handled, pc' # "closed" => pc # "closed" PROVE HandledInv'
  <2>1. Sent \in Nat
    BY SentIs
  <2>2. Sent <= Sent' /\ Sent' \in Nat /\ UNCHANGED <<script, handled>>
    BY <1>0, <1>2, <2>1
  <2> QED BY <1>2, <2>2, HandledStays
<1>3. todo' = todo => Sent' = Sent
  BY <1>0 DEF Sent
\* Steps that leave the bytes of frames where they are.
<1>4. ASSUME UNCHANGED <<todo, handled, client, c2s, header, buf, prefix>>,
             skeys'.recv = skeys.recv, ckeys'.send = ckeys.send,
             pc' # "closed" => pc # "closed" /\ Ahead' = Ahead,
             pc' \notin Asking => pc' = "closed" \/ pc \notin Asking
      PROVE  HandledInv' /\ FlowInv'
  <2>1. HandledInv'
    BY <1>2, <1>3, <1>4
  <2>2. Got' = Got
    BY <1>4 DEF Got
  <2>3. pc' # "closed" => \A w \in Seq(PlainBytes), base \in Nat : Flow(w, base) => Flow(w, base)'
    BY <1>4, <2>2, FlowSame
  <2>4. FlowInv'
    BY <1>0, <1>4, <2>3, FlowCarried
  <2> QED BY <2>1, <2>4
\* Nothing of frames was sent yet.
<1>5. ASSUME pc \notin Framing \cup {"closed"}, todo = script.frames, UNCHANGED <<todo, handled>>
      PROVE  handled = <<>> /\ handled' = <<>> /\ Sent' = 0
  <2>1. Len(script.frames) \in Nat
    BY SentIs
  <2> QED BY <1>0, <1>1, <1>5, <2>1 DEF Sent
<1>6. pc \in Asking \cup Proving => Got = <<>>
  BY DEF BuffersInv, Got, Framing, Asking, Proving
<1>7. pc' \in Asking \cup Proving => Got' = <<>>
  BY DEF BuffersInv, Got, Framing, Asking, Proving
<1>8. ReplySize \in Nat /\ ReplySize' = ReplySize /\ script.pad2 \in Nat /\ ReplySize = 3 + script.pad2
  BY <1>0, AheadIs, ScriptIs DEF ReplySize, TypeInv
<1>n. ASSUME pc' = "closed" PROVE FlowInv'
  BY <1>n DEF FlowInv
<1>9. CASE Hello
  <2>1. /\ client = "start" /\ UNCHANGED <<todo, handled, pc, skeys, ckeys>>
        /\ script.kind = "plain" => UNCHANGED c2s
    BY <1>9 DEF Hello, reading
  <2>2. pc = "first" /\ c2s = <<>> /\ todo = script.frames
    BY <1>1, <2>1 DEF TodoInv
  <2>3. HandledInv'
    BY <1>2, <1>3, <2>1
  <2>4. FlowInv'
    <3>1. CASE script.kind = "plain"
      <4>1. handled' = <<>> /\ Sent' = 0
        BY <1>5, <2>1, <2>2 DEF Framing
      <4>2. Got' = <<>> /\ Ahead' = 0 /\ Len(c2s') = 0
        BY <1>7, <2>1, <2>2, <3>1 DEF Asking, Ahead
      <4>3. ckeys'.send.key = <<>> /\ skeys'.recv.key = <<>>
        BY <2>1, <3>1 DEF HandshakeInv, PlainInv, NoKeys, NoRC4, NewRC4
      <4> QED BY <4>1, <4>2, <4>3, FlowBegins
    <3>2. CASE script.kind # "plain"
      BY <1>0, <2>1, <2>2, <3>2 DEF FlowInv, Asking
    <3> QED BY <3>1, <3>2
  <2> QED BY <2>3, <2>4
<1>10. CASE AnswerRead
  <2>1. client = "hello" /\ UNCHANGED <<todo, handled, pc, skeys>>
    BY <1>10 DEF AnswerRead, reading
  <2>2. /\ pc = "hdr" /\ script.kind = "obfuscated" /\ Len(c2s') = ReplySize
        /\ ckeys' = [send |-> [key |-> KeyIn, pos |-> ReplySize],
                     recv |-> [key |-> KeyOut, pos |-> skeys.send.pos]]
    BY <1>10, AnswerReadIs
  <2>3. skeys.recv.key = KeyIn /\ skeys.recv.pos = 0
    BY <2>2 DEF HandshakeInv, ObfuscatedInv, HdrInv, Proving
  <2>4. HandledInv'
    BY <1>2, <1>3, <2>1
  <2>5. handled' = <<>> /\ Sent' = 0
    BY <1>5, <2>1, <2>2 DEF Framing, TodoInv
  <2>6. Got' = <<>> /\ Ahead' = ReplySize
    BY <1>7, <1>8, <2>1, <2>2 DEF Proving, Ahead
  <2>7. /\ ckeys'.send.key = skeys'.recv.key
        /\ ckeys'.send.pos = skeys'.recv.pos + Len(c2s')
    <3>1. ckeys'.send.key = KeyIn /\ ckeys'.send.pos = ReplySize
      BY <2>2
    <3>2. 0 + ReplySize = ReplySize
      BY <1>8
    <3> QED BY <2>1, <2>2, <2>3, <3>1, <3>2
  <2>8. Len(c2s') <= Ahead' /\ Len(c2s') = Ahead' /\ Ahead' \in Nat
    BY <1>8, <2>2, <2>6
  <2>9. FlowInv'
    BY <2>5, <2>6, <2>7, <2>8, FlowBegins
  <2> QED BY <2>4, <2>9
<1>11. CASE ClientSend
  <2>1. pc' = pc /\ handled' = handled /\ client = "ready"
    BY <1>11 DEF ClientSend, reading
  <2>2. Sent <= Sent' /\ Sent' \in Nat
    <3>1. todo \in Seq(Frames) /\ todo # <<>> /\ todo' = Tail(todo)
      BY <1>11 DEF ClientSend, TypeInv
    <3>2. Len(todo') = Len(todo) - 1 /\ Len(todo) \in Nat
      BY ONLY <3>1, HeadTailProperties
    <3>3. Sent \in Nat /\ Len(script.frames) \in Nat
      BY SentIs
    <3> QED BY <1>0, <3>2, <3>3 DEF Sent
  <2>3. HandledInv'
    BY <1>0, <2>1, <2>2, HandledStays
  <2>4. FlowInv'
    <3>1. SUFFICES ASSUME pc # "closed", script.kind = "plain" \/ pc \notin Asking PROVE FlowInv'
      BY <1>0, <2>1 DEF FlowInv
    <3>2. PICK w, s : Wire(w, s) /\ Flow(w, s[Len(handled) + 1])
      BY <3>1 DEF FlowInv
    <3>3. \E v, t : Wire(v, t)' /\ Flow(v, t[Len(handled) + 1])'
      BY <1>0, <1>11, <3>2, SendIs
    <3> QED BY <3>3 DEF FlowInv
  <2> QED BY <2>3, <2>4
<1>12. CASE ClientRead
  <2>1. /\ UNCHANGED <<todo, handled, client, c2s, header, buf, prefix, pc, skeys>>
        /\ ckeys' = [ckeys EXCEPT !.recv = Advanced(@, Len(s2c))]
    BY <1>12 DEF ClientRead, reading
  <2>2. ckeys'.send = ckeys.send /\ Ahead' = Ahead
    BY <1>0, <1>8, <2>1 DEF Ahead
  <2> QED BY <1>4, <2>1, <2>2
<1>13. CASE ClientLeave
  <2>1. /\ UNCHANGED <<todo, handled, header, buf, prefix, pc, skeys, ckeys>> /\ client' = "left"
        /\ \E n \in 0..Len(c2s) : c2s' = SubSeq(c2s, 1, n)
    BY <1>13 DEF ClientLeave, reading
  <2>2. PICK n \in 0..Len(c2s) : c2s' = SubSeq(c2s, 1, n)
    BY <2>1
  <2>3. Len(c2s') = n /\ (\A i \in 1..n : c2s'[i] = c2s[i]) /\ n \in Nat /\ n <= Len(c2s)
    BY <1>0, <2>2, Split
  <2>4. Got' = Got /\ Ahead' = Ahead /\ Ahead \in Nat
    <3>1. Got' = Got
      BY <2>1 DEF Got
    <3>2. Ahead' = Ahead
      BY <1>0, <1>8, <2>1 DEF Ahead
    <3>3. Ahead \in Nat
      BY AheadIs
    <3> QED BY <3>1, <3>2, <3>3
  <2>5. ASSUME NEW w, NEW base, Flow(w, base) PROVE Flow(w, base)'
    <3>1. ASSUME NEW i \in 1..(Len(c2s') - Ahead)
          PROVE  /\ base + Len(Got) + i <= Len(w)
                 /\ c2s'[Ahead + i] =
                       Sealed(skeys.recv.key, skeys.recv.pos + Ahead + i, w[base + Len(Got) + i])
      <4>1. i \in 1..(Len(c2s) - Ahead) /\ Ahead + i \in 1..n
        BY <1>0, <2>3, <2>4
      <4> QED BY <2>3, <2>5, <4>1 DEF Flow
    <3> QED BY <2>1, <2>4, <2>5, <3>1 DEF Flow
  <2>6. HandledInv'
    BY <1>2, <1>3, <2>1
  <2>7. FlowInv'
    BY <1>0, <2>1, <2>5, FlowCarried
  <2> QED BY <2>6, <2>7
\* Bytes of frames are read.
<1>14. ASSUME NEW n \in 0..Len(c2s), Consume(n), UNCHANGED <<todo, handled, client, ckeys>>,
              pc # "closed", pc \notin Asking \/ script.kind = "plain", Ahead = 0, Ahead' = 0,
              skeys'.recv = Advanced(skeys.recv, n),
              Got' = Got \o Crypt(skeys.recv, SubSeq(c2s, 1, n))
       PROVE  HandledInv' /\ FlowInv'
  <2>1. HandledInv'
    BY <1>2, <1>3, <1>14
  <2>2. ASSUME NEW w \in Seq(PlainBytes), NEW base \in Nat, Flow(w, base) PROVE Flow(w, base)'
    BY <1>14, <2>2, FlowTake
  <2>3. FlowInv'
    BY <1>0, <1>14, <2>2, FlowCarried
  <2> QED BY <2>1, <2>3
<1>15. CASE ReadFirst
  <2>1. /\ pc = "first" /\ c2s # <<>> /\ Consume(1) /\ pc' \in {"header", "ga", "closed"}
        /\ pc' = "header" => prefix' = <<c2s[1]>>
        /\ UNCHANGED <<todo, handled, client, ckeys, skeys, buf, header>>
    BY <1>15 DEF ReadFirst, peer
  <2>2. CASE script.kind # "plain"
    <3>1. pc' # "header"
      <4>1. pc' = "header" => skeys'.recv.key = KeyIn
        BY <2>2, ObfuscatedStep DEF ObfuscatedInv, Framing
      <4>2. skeys.recv.key = <<>>
        BY <2>1, <2>2 DEF HandshakeInv, ObfuscatedInv, AskingInv, Asking, NoKeys, NoRC4, NewRC4
      <4> QED BY <2>1, <4>1, <4>2, KeysDiffer
    <3>2. HandledInv'
      BY <1>2, <1>3, <2>1
    <3> QED BY <1>0, <2>1, <2>2, <3>1, <3>2 DEF FlowInv, Asking
  <2>3. CASE script.kind = "plain"
    <3>1. pc' = "header" /\ skeys = NoKeys
      BY <1>15, <2>1, <2>3 DEF ReadFirst, HandshakeInv, PlainInv
    <3>2. 1 \in 0..Len(c2s) /\ 1 \in 1..Len(c2s)
      BY <1>0, <2>1
    <3>3. skeys'.recv = Advanced(skeys.recv, 1) /\ Crypt(skeys.recv, SubSeq(c2s, 1, 1)) = SubSeq(c2s, 1, 1)
      BY <2>1, <3>1 DEF NoKeys, Advanced, Crypt
    <3>4. SubSeq(c2s, 1, 1) = <<c2s[1]>> /\ SubSeq(c2s, 1, 1) \in Seq(Bytes)
      <4> DEFINE p == SubSeq(c2s, 1, 1)
      <4>1. p \in Seq(Bytes) /\ Len(p) = 1 /\ p[1] = c2s[1]
        BY <1>0, <3>2, Split
      <4> HIDE DEF p
      <4>2. p = <<p[1]>>
        BY <4>1
      <4> QED BY <4>1, <4>2 DEF p
    <3>5. Got' = Got \o Crypt(skeys.recv, SubSeq(c2s, 1, 1))
      <4>1. header = <<>> /\ buf = <<>> /\ Got = <<>>
        BY <1>6, <2>1 DEF BuffersInv, Asking
      <4>2. Got' = (<<>> \o <<>>) \o <<c2s[1]>>
        BY <2>1, <3>1, <4>1 DEF Got
      <4>3. Got \o SubSeq(c2s, 1, 1) = SubSeq(c2s, 1, 1) /\ <<>> \o SubSeq(c2s, 1, 1) = SubSeq(c2s, 1, 1)
        BY <3>4, <4>1, ConcatEmptySeq
      <4>4. <<>> \o <<>> = <<>>
        BY ConcatEmptySeq
      <4>5. Got' = <<>> \o SubSeq(c2s, 1, 1)
        BY ONLY <3>4, <4>2, <4>4
      <4> QED BY ONLY <3>3, <4>3, <4>5
    <3>6. Ahead = 0 /\ Ahead' = 0
      BY <2>1, <3>1 DEF Ahead
    <3> QED BY <1>14, <2>1, <2>3, <3>2, <3>3, <3>5, <3>6
  <2> QED BY <2>2, <2>3
<1>16. CASE ReadGA
  <2>1. pc = "ga" /\ pc' = "padlen" /\ UNCHANGED <<todo, handled>>
    BY <1>16 DEF ReadGA, peer
  <2>2. script.kind # "plain"
    BY <2>1 DEF HandshakeInv, PlainInv, Framing
  <2>3. HandledInv'
    BY <1>2, <1>3, <2>1
  <2> QED BY <1>0, <2>1, <2>2, <2>3 DEF FlowInv, Asking
<1>17. CASE ReadPadLen
  <2>1. pc = "padlen" /\ pc' \in {"pad", "closed"} /\ UNCHANGED <<todo, handled>>
    BY <1>17 DEF ReadPadLen, peer
  <2>2. script.kind # "plain"
    BY <2>1 DEF HandshakeInv, PlainInv, Framing
  <2>3. HandledInv'
    BY <1>2, <1>3, <2>1
  <2> QED BY <1>0, <2>1, <2>2, <2>3 DEF FlowInv, Asking
<1>18. CASE ReadPad
  <2>1. pc = "pad" /\ pc' \in {"closed", "hdr"} /\ UNCHANGED <<todo, handled, client>>
    BY <1>18 DEF ReadPad, peer
  <2>2. script.kind = "obfuscated" /\ c2s' = <<>> /\ client # "ready"
    BY <1>18, ReadPadIs
  <2>3. HandledInv'
    BY <1>2, <1>3, <2>1
  <2>4. handled' = <<>> /\ Sent' = 0
    BY <1>5, <2>1, <2>2 DEF Framing, TodoInv, Asking
  <2>5. pc' = "hdr" => Got' = <<>> /\ Ahead' = ReplySize
    BY <1>7, <1>8 DEF Proving, Ahead
  <2>6. Len(c2s') = 0 /\ 0 <= ReplySize
    BY <1>8, <2>2
  <2>7. pc' = "hdr" => Len(c2s') <= Ahead' /\ Ahead' \in Nat
    BY <1>8, <2>5, <2>6
  <2>8. pc' = "hdr" => FlowInv'
    BY <2>1, <2>2, <2>4, <2>5, <2>7, FlowBegins
  <2> QED BY <1>n, <2>1, <2>3, <2>8
\* A part of the client's half is read.
<1>19. ASSUME NEW n \in 0..Len(c2s), Consume(n), UNCHANGED <<todo, handled, client, ckeys>>,
              pc # "closed", pc \notin Asking,
              pc' # "closed" => n <= Ahead /\ Ahead' = Ahead - n /\ Got' = Got,
              skeys'.recv = Advanced(skeys.recv, n)
       PROVE  HandledInv' /\ FlowInv'
  <2>1. HandledInv'
    BY <1>2, <1>3, <1>19
  <2>2. ASSUME NEW w \in Seq(PlainBytes), NEW base \in Nat, Flow(w, base), pc' # "closed"
        PROVE  Flow(w, base)'
    BY <1>19, <2>2, FlowSkip
  <2>3. FlowInv'
    BY <1>0, <1>19, <2>2, FlowCarried
  <2> QED BY <2>1, <2>3
<1>20. CASE ReadHdr
  <2>1. /\ pc = "hdr" /\ skeys' = [skeys EXCEPT !.recv = Advanced(@, 3)]
        /\ UNCHANGED <<todo, handled, client, ckeys>>
    BY <1>20 DEF ReadHdr, TailSize, peer
  <2>2. 3 \in 0..Len(c2s) /\ Consume(3) /\ pc' \in {"pad2", "closed"}
    BY <1>20, ReadHdrIs
  <2>3. pc' # "closed" => 3 <= Ahead /\ Ahead' = Ahead - 3 /\ Got' = Got
    BY <1>0, <1>6, <1>7, <1>8, <2>1, <2>2 DEF Ahead, Proving
  <2>4. skeys'.recv = Advanced(skeys.recv, 3)
    BY <1>0, <2>1
  <2>5. pc # "closed" /\ pc \notin Asking
    BY <2>1 DEF Asking
  <2> QED BY <1>19, <2>1, <2>2, <2>3, <2>4, <2>5
<1>21. CASE ReadPad2
  <2>1. /\ pc = "pad2" /\ pc' = "chunk" /\ Len(c2s) >= local.pad /\ Consume(local.pad)
        /\ skeys' = [skeys EXCEPT !.recv = Advanced(@, local.pad)]
        /\ UNCHANGED <<todo, handled, client, ckeys>>
    BY <1>21 DEF ReadPad2, peer
  <2>2. PICK n : n = local.pad
    OBVIOUS
  <2>3. n = script.pad2 /\ n \in 0..Len(c2s) /\ Consume(n)
    BY <1>0, <1>8, <2>1, <2>2 DEF BuffersInv
  <2>4. n <= Ahead /\ Ahead' = Ahead - n /\ Got' = Got
    BY <1>6, <1>7, <1>8, <2>1, <2>3 DEF Ahead, Proving
  <2>5. skeys'.recv = Advanced(skeys.recv, n)
    BY <1>0, <2>1, <2>2
  <2>6. pc # "closed" /\ pc \notin Asking
    BY <2>1 DEF Asking
  <2> QED BY <1>19, <2>1, <2>3, <2>4, <2>5, <2>6
<1>22. CASE ReadChunk
  <2>1. PICK n \in 1..Len(c2s) :
           /\ prefix' = XorInPlace(skeys.recv, SubSeq(c2s, 1, n))
           /\ skeys' = [skeys EXCEPT !.recv = Advanced(@, n)]
           /\ Consume(n)
    BY <1>22 DEF ReadChunk, Leftover
  <2>2. pc = "chunk" /\ pc' = "header" /\ UNCHANGED <<todo, handled, client, ckeys, buf, header>>
    BY <1>22 DEF ReadChunk, peer
  <2>3. skeys.recv.key = KeyIn
    BY <2>2 DEF HandshakeInv, PlainInv, ObfuscatedInv, Framing, Proving
  <2>4. n \in 0..Len(c2s)
    BY <1>0
  <2>5. SubSeq(c2s, 1, n) \in Seq(Bytes)
    BY <1>0, <2>4, Split
  <2>6. prefix' = Crypt(skeys.recv, SubSeq(c2s, 1, n)) /\ Crypt(skeys.recv, SubSeq(c2s, 1, n)) \in Seq(Bytes)
    <3>1. /\ XorInPlace(skeys.recv, SubSeq(c2s, 1, n)) = Crypt(skeys.recv, SubSeq(c2s, 1, n))
          /\ Crypt(skeys.recv, SubSeq(c2s, 1, n)) \in Seq(Bytes)
      BY ONLY <1>0, <2>3, <2>5, CryptIs, KeysDiffer
    <3> QED BY <2>1, <3>1
  <2>7. Got' = Got \o Crypt(skeys.recv, SubSeq(c2s, 1, n))
    <3>1. header = <<>> /\ buf = <<>> /\ Got = <<>>
      BY <1>6, <2>2 DEF BuffersInv, Proving
    <3>2. Got' = (<<>> \o <<>>) \o prefix'
      BY <2>2, <3>1 DEF Got
    <3>3. (<<>> \o <<>>) \o prefix' = <<>> \o prefix'
      OBVIOUS
    <3> QED BY <2>6, <3>1, <3>2, <3>3
  <2>8. Ahead = 0 /\ Ahead' = 0 /\ pc # "closed" /\ pc \notin Asking
    BY <2>2 DEF Ahead, Asking
  <2>9. skeys'.recv = Advanced(skeys.recv, n)
    BY <1>0, <2>1
  <2> QED BY <1>14, <2>1, <2>2, <2>4, <2>7, <2>8, <2>9
<1>23. CASE ReadPrefix
  <2>1. /\ pc \in {"header", "body"} /\ Smaller(Wanted, Len(prefix)) > 0
        /\ buf' = buf \o SubSeq(prefix, 1, Smaller(Wanted, Len(prefix)))
        /\ prefix' = SubSeq(prefix, Smaller(Wanted, Len(prefix)) + 1, Len(prefix))
        /\ UNCHANGED <<todo, handled, client, c2s, header, pc, skeys, ckeys>>
    BY <1>23 DEF ReadPrefix, peer
  <2>2. PICK n : n = Smaller(Wanted, Len(prefix))
    OBVIOUS
  <2>3. n \in 0..Len(prefix)
    BY <1>0, <2>1, <2>2, WantedIs DEF Smaller
  <2>4. Got' = Got
    <3> DEFINE a == SubSeq(prefix, 1, n)
               b == SubSeq(prefix, n + 1, Len(prefix))
    <3>1. a \in Seq(Bytes) /\ b \in Seq(Bytes) /\ a \o b = prefix
      BY <1>0, <2>3, Split, CutAndJoined
    <3>2. Got' = (header \o (buf \o a)) \o b
      BY <2>1, <2>2 DEF Got
    <3> HIDE DEF a, b
    <3>m. header \in Seq(Bytes) /\ buf \in Seq(Bytes) /\ a \in Seq(Bytes)
      BY ONLY <1>0, <3>1
    <3>3. header \o (buf \o a) = (header \o buf) \o a
      BY ONLY <3>m, Regrouped, Zenon
    <3>4. header \o buf \in Seq(Bytes)
      BY ONLY <3>m, ConcatProperties
    <3>5. ((header \o buf) \o a) \o b = (header \o buf) \o (a \o b)
      BY ONLY <3>1, <3>4, Regrouped, Zenon
    <3> QED BY ONLY <3>1, <3>2, <3>3, <3>5 DEF Got
  <2>5. HandledInv'
    BY <1>2, <1>3, <2>1
  <2>6. Ahead' = Ahead
    BY <1>0, <1>8, <2>1 DEF Ahead
  <2>7. ASSUME NEW w, NEW base, Flow(w, base) PROVE Flow(w, base)'
    BY <2>1, <2>4, <2>6, <2>7, FlowSame
  <2>8. FlowInv'
    BY <1>0, <2>1, <2>7, FlowCarried
  <2> QED BY <2>5, <2>8
<1>24. CASE ReadConn
  <2>1. PICK n \in 1..Smaller(Wanted, Len(c2s)) :
           /\ buf' = buf \o Crypt(skeys.recv, SubSeq(c2s, 1, n))
           /\ skeys' = [skeys EXCEPT !.recv = Advanced(@, n)]
           /\ Consume(n)
    BY <1>24 DEF ReadConn
  <2>2. /\ pc \in {"header", "body"} /\ prefix = <<>>
        /\ UNCHANGED <<todo, handled, client, ckeys, header, prefix, pc>>
    BY <1>24 DEF ReadConn, peer
  <2>3. n \in 0..Len(c2s)
    BY <1>0, <2>1, <2>2, WantedIs DEF Smaller
  <2>4. Got' = Got \o Crypt(skeys.recv, SubSeq(c2s, 1, n))
    <3> DEFINE x == Crypt(skeys.recv, SubSeq(c2s, 1, n))
    <3>1. SubSeq(c2s, 1, n) \in Seq(Bytes)
      BY <1>0, <2>3, Split
    <3>2. x \in Seq(Bytes)
      BY ONLY <1>0, <3>1, CryptIs
    <3>3. Got' = (header \o (buf \o x)) \o <<>> /\ Got = (header \o buf) \o <<>>
      BY <2>1, <2>2 DEF Got
    <3> HIDE DEF x
    <3>m. header \in Seq(Bytes) /\ buf \in Seq(Bytes)
      BY ONLY <1>0
    <3>4. /\ header \o (buf \o x) = (header \o buf) \o x
          /\ header \o buf \in Seq(Bytes)
      <4>1. header \o (buf \o x) = (header \o buf) \o x
        BY ONLY <3>m, <3>2, Regrouped, Zenon
      <4>2. header \o buf \in Seq(Bytes)
        BY ONLY <3>m, ConcatProperties
      <4> QED BY <4>1, <4>2
    <3>5. (header \o buf) \o x \in Seq(Bytes)
      BY ONLY <3>2, <3>4, ConcatProperties
    <3>6. /\ ((header \o buf) \o x) \o <<>> = (header \o buf) \o x
          /\ (header \o buf) \o <<>> = header \o buf
      BY ONLY <3>4, <3>5, ConcatEmptySeq
    <3>7. Got' = Got \o x
      BY ONLY <3>3, <3>4, <3>6
    <3> QED BY <3>7 DEF x
  <2>5. Ahead = 0 /\ Ahead' = 0 /\ pc # "closed" /\ pc \notin Asking
    BY <2>2 DEF Ahead, Asking
  <2>6. skeys'.recv = Advanced(skeys.recv, n)
    BY <1>0, <2>1
  <2> QED BY <1>14, <2>1, <2>2, <2>3, <2>4, <2>5, <2>6
<1>25. CASE GotHeader
  <2>1. /\ pc = "header" /\ pc' \in {"closed", "body"} /\ header' = buf /\ buf' = <<>>
        /\ UNCHANGED <<todo, handled, client, c2s, prefix, skeys, ckeys>>
    BY <1>25 DEF GotHeader, peer
  <2>2. Got' = Got
    <3>1. header = <<>>
      BY <2>1 DEF BuffersInv
    <3>2. Got' = (buf \o <<>>) \o prefix /\ Got = (<<>> \o buf) \o prefix
      BY <2>1, <3>1 DEF Got
    <3>3. buf \o <<>> = buf /\ <<>> \o buf = buf
      BY ONLY <1>0, ConcatEmptySeq
    <3> QED BY <3>2, <3>3
  <2>3. HandledInv'
    BY <1>2, <1>3, <2>1
  <2>4. Ahead' = Ahead
    BY <2>1 DEF Ahead
  <2>5. ASSUME NEW w, NEW base, Flow(w, base) PROVE Flow(w, base)'
    BY <2>1, <2>2, <2>4, <2>5, FlowSame
  <2>6. FlowInv'
    <3>1. pc # "closed" /\ pc \notin Asking
      BY <2>1 DEF Asking
    <3> QED BY <1>0, <2>1, <2>5, <3>1, FlowCarried
  <2> QED BY <2>3, <2>6
<1>26. CASE GotBody
  BY <1>26, GotBodyIs
<1>27. CASE ReadEnds
  <2>1. pc' = "closed" /\ UNCHANGED <<todo, handled>>
    BY <1>27 DEF ReadEnds, peer
  <2>2. HandledInv'
    BY <1>2, <1>3, <2>1
  <2> QED BY <1>n, <2>1, <2>2
<1>28. ASSUME NEW w \in Writers, EncryptReply(w) PROVE HandledInv' /\ FlowInv'
  <2>1. /\ UNCHANGED <<todo, handled, client, c2s, header, buf, prefix, pc, ckeys>>
        /\ skeys' = [skeys EXCEPT !.send = Advanced(@, 1)]
    BY <1>28 DEF EncryptReply, peer, reading
  <2>2. skeys'.recv = skeys.recv /\ Ahead' = Ahead
    BY <1>0, <1>8, <2>1 DEF Ahead
  <2> QED BY <1>4, <2>1, <2>2
<1>29. ASSUME NEW w \in Writers, WriteReply(w) PROVE HandledInv' /\ FlowInv'
  <2>1. /\ UNCHANGED <<todo, handled, client, c2s, header, buf, prefix, ckeys, skeys>>
        /\ pc' = IF w = "own" THEN "header" ELSE pc
        /\ pc # "closed"
    BY <1>29 DEF WriteReply, peer
  <2>2. w = "own" => pc = "reply"
    BY <1>29 DEF WriteReply, RepliesInv
  <2>3. Ahead' = Ahead
    BY <1>0, <1>8, <2>1, <2>2 DEF Ahead
  <2>4. pc' \notin Asking => pc \notin Asking
    BY <2>1, <2>2 DEF Asking
  <2> QED BY <1>4, <2>1, <2>3, <2>4
<1>30. ASSUME NEW w \in Writers, WriteFails(w) PROVE HandledInv' /\ FlowInv'
  <2>1. /\ UNCHANGED <<todo, handled, client, c2s, header, buf, prefix, ckeys, skeys>>
        /\ pc' \in {pc, "closed"}
    BY <1>30 DEF WriteFails, peer
  <2>2. pc' # "closed" => Ahead' = Ahead
    BY <1>0, <1>8, <2>1 DEF Ahead
  <2> QED BY <1>4, <2>1, <2>2
<1>31. CASE UNCHANGED vars
  <2>1. UNCHANGED <<todo, handled, client, c2s, header, buf, prefix, ckeys, skeys, pc>>
    BY <1>31 DEF vars, peer, reading
  <2>2. Ahead' = Ahead
    BY <1>0, <1>8, <2>1 DEF Ahead
  <2> QED BY <1>4, <2>1, <2>2
<1> QED
  BY <1>9, <1>10, <1>11, <1>12, <1>13, <1>15, <1>16, <1>17, <1>18, <1>20, <1>21, <1>22, <1>23,
     <1>24, <1>25, <1>26, <1>27, <1>28, <1>29, <1>30, <1>31
  DEF Next, Client, Serve, Handshake, ReadFrame, Send

----------------------------------------------------------------------------
(* The invariants give the properties.                                     *)

\* A set of naturals has a least member.
LEMMA LeastNat ==
    ASSUME NEW T, T \subseteq Nat, T # {}
    PROVE  \E x \in T : \A y \in T : x <= y
<1> DEFINE R == OpToRel(<, Nat)
<1>1. IsWellFoundedOn(R, Nat)
  BY NatLessThanWellFounded, Zenon
<1>2. \A x, y \in Nat : y < x => <<y, x>> \in R
  BY Zenon DEF OpToRel
<1> HIDE DEF R
<1>3. PICK x \in T : \A y \in T : ~ (<<y, x>> \in R)
  BY <1>1, WFMin
<1>4. \A y \in T : ~(y < x)
  BY <1>2, <1>3
<1>5. x \in Nat /\ \A y \in T : y \in Nat
  OBVIOUS
<1>6. \A y \in T : x <= y
  BY ONLY <1>4, <1>5
<1> QED BY <1>3, <1>6

\* A set of some of the numbers 1..L that has, with each of its members, all the
\* smaller ones is an interval.
LEMMA Interval ==
    ASSUME NEW L \in Nat, NEW D, D \subseteq 1..L,
           \A i \in D : \A j \in 1..i : j \in D
    PROVE  \E n \in Nat : n <= L /\ D = 1..n
<1> DEFINE T == {x \in Nat : x + 1 \notin D}
<1>1. L \in T
  BY ONLY L \in Nat, D \subseteq 1..L
<1>2. T \subseteq Nat /\ T # {}
  BY <1>1
<1> HIDE DEF T
<1>3. PICK n \in T : \A y \in T : n <= y
  BY ONLY <1>2, LeastNat
<1>4. n \in Nat /\ n + 1 \notin D /\ n <= L
  BY <1>1, <1>3 DEF T
<1>5. ASSUME NEW i \in D PROVE i \in 1..n
  <2>1. i \in Nat /\ i >= 1
    BY D \subseteq 1..L
  <2>2. CASE i > n
    <3>1. n + 1 \in 1..i
      BY ONLY <1>4, <2>1, <2>2
    <3> QED BY <1>4, <3>1
  <2> QED BY <1>4, <2>1, <2>2
<1>6. ASSUME NEW i \in 1..n PROVE i \in D
  <2>1. i - 1 \in Nat /\ ~(n <= i - 1) /\ (i - 1) + 1 = i
    BY ONLY <1>4, i \in 1..n
  <2>2. i - 1 \notin T
    BY ONLY <1>3, <2>1
  <2> QED BY <2>1, <2>2 DEF T
<1> QED BY <1>4, <1>5, <1>6

\* What is to be dispatched of the frames is a sequence.
LEMMA DispatchedIs ==
    ASSUME NEW frames \in Seq(Frames)
    PROVE  \E n \in Nat :
              /\ n <= Len(frames)
              /\ Dispatched(frames) = [i \in 1..n |-> Meaning(frames[i])]
              /\ \A i \in 1..Len(frames) :
                    (/\ \A j \in 1..i : Acceptable(frames[j])
                     /\ \A j \in 1..(i - 1) : frames[j].op # 0) => i <= n
<1> DEFINE D == {i \in DOMAIN frames :
                    /\ \A j \in 1..i : Acceptable(frames[j])
                    /\ \A j \in 1..(i - 1) : frames[j].op # 0}
<1>1. Len(frames) \in Nat /\ DOMAIN frames = 1..Len(frames)
  OBVIOUS
<1>2. Dispatched(frames) = [i \in D |-> Meaning(frames[i])]
  BY DEF Dispatched
<1>3. D \subseteq 1..Len(frames)
  BY <1>1
<1>4. ASSUME NEW i \in D, NEW j \in 1..i PROVE j \in D
  <2>1. i \in 1..Len(frames)
    BY <1>3
  <2>2. j \in 1..Len(frames)
    BY ONLY <1>1, <2>1, j \in 1..i
  <2>3. \A k \in 1..j : k \in 1..i
    BY ONLY <1>1, <2>1, j \in 1..i
  <2>4. \A k \in 1..(j - 1) : k \in 1..(i - 1)
    BY ONLY <1>1, <2>1, j \in 1..i
  <2> QED BY <1>1, <2>2, <2>3, <2>4
<1>5. \A i \in 1..Len(frames) :
         (/\ \A j \in 1..i : Acceptable(frames[j])
          /\ \A j \in 1..(i - 1) : frames[j].op # 0) => i \in D
  BY <1>1
<1> HIDE DEF D
<1>6. PICK n \in Nat : n <= Len(frames) /\ D = 1..n
  BY ONLY <1>1, <1>3, <1>4, Interval
<1>7. Dispatched(frames) = [i \in 1..n |-> Meaning(frames[i])]
  BY ONLY <1>2, <1>6
<1>8. \A i \in 1..n : i <= n
  OBVIOUS
<1> QED BY <1>5, <1>6, <1>7, <1>8

\* A sequence that agrees with another one, and is no longer, is a prefix of it.
LEMMA Prefix ==
    ASSUME NEW S, NEW s \in Seq(S), NEW T, NEW t \in Seq(T), Len(s) <= Len(t),
           \A i \in 1..Len(s) : s[i] = t[i]
    PROVE  IsPrefix(s, t)
<1>1. Len(s) \in Nat /\ Len(t) \in Nat
  OBVIOUS
<1>2. SubSeq(s, 1, Len(s)) = SubSeq(t, 1, Len(s))
  BY <1>1
<1> QED BY <1>2 DEF IsPrefix

\* What was dispatched begins what is to be dispatched.
LEMMA HandledDelivered == TypeInv /\ TodoInv /\ HandledInv => DeliveredAsSent
<1> SUFFICES ASSUME TypeInv, TodoInv, HandledInv PROVE DeliveredAsSent
  OBVIOUS
<1>1. script.frames \in Seq(Frames)
  BY ScriptIs DEF TypeInv
<1>2. PICK n \in Nat :
         /\ n <= Len(script.frames)
         /\ Dispatched(script.frames) = [i \in 1..n |-> Meaning(script.frames[i])]
         /\ \A i \in 1..Len(script.frames) :
               (/\ \A j \in 1..i : Acceptable(script.frames[j])
                /\ \A j \in 1..(i - 1) : script.frames[j].op # 0) => i <= n
  BY <1>1, DispatchedIs
<1>3. /\ Len(handled) \in Nat /\ Len(script.frames) \in Nat /\ Len(todo) \in Nat
      /\ handled \in Seq([op : Int, body : Seq(Bytes)])
  BY <1>1 DEF TypeInv
<1>4. Len(handled) <= Len(script.frames)
  BY <1>3 DEF HandledInv, Sent
<1>5. Len(handled) <= n
  <2>1. CASE Len(handled) = 0
    BY ONLY <1>2, <2>1
  <2>2. CASE Len(handled) # 0
    <3>1. Len(handled) \in 1..Len(script.frames)
      BY ONLY <1>3, <1>4, <2>2
    <3>2. \A j \in 1..Len(handled) : Acceptable(script.frames[j])
      BY DEF HandledInv
    <3>3. ASSUME NEW j \in 1..(Len(handled) - 1) PROVE script.frames[j].op # 0
      <4>1. j \in 1..Len(handled) /\ j < Len(handled)
        BY ONLY <1>3, j \in 1..(Len(handled) - 1)
      <4> QED BY <4>1 DEF HandledInv
    <3> QED BY <1>2, <3>1, <3>2, <3>3
  <2> QED BY <2>1, <2>2
<1>6. \A i \in 1..Len(handled) : handled[i] = Meaning(script.frames[i])
  BY DEF HandledInv
<1> DEFINE d == Dispatched(script.frames)
           V == {Meaning(script.frames[i]) : i \in 1..n}
<1>7. d \in Seq(V) /\ Len(d) = n /\ \A i \in 1..n : d[i] = Meaning(script.frames[i])
  <2>1. d = [i \in 1..n |-> Meaning(script.frames[i])]
    BY <1>2
  <2>2. d \in [1..n -> V]
    BY <2>1
  <2>3. d \in Seq(V)
    BY ONLY <2>2, n \in Nat, SeqDef, Zenon
  <2>4. DOMAIN d = 1..n
    BY <2>1
  <2>5. Len(d) = n
    BY ONLY <2>3, <2>4, n \in Nat
  <2> QED BY <2>1, <2>3, <2>5
<1> HIDE DEF d, V
<1>8. \A i \in 1..Len(handled) : i \in 1..n
  BY ONLY <1>3, <1>5, n \in Nat
<1>9. \A i \in 1..Len(handled) : handled[i] = d[i]
  BY ONLY <1>6, <1>7, <1>8
<1>10. IsPrefix(handled, d)
  BY <1>3, <1>5, <1>7, <1>9, Prefix
<1> QED BY <1>10 DEF DeliveredAsSent, d

LEMMA RepliesReadableIs == TypeInv /\ RepliesInv => RepliesReadable
BY Prefix DEF TypeInv, RepliesInv, RepliesReadable

LEMMA HandshakeMade == HandshakeInv => OnlyAfterHandshake
BY DEF HandshakeInv, ObfuscatedInv, OnlyAfterHandshake, Honest

----------------------------------------------------------------------------
(* Theorems.                                                               *)

\* At every step only a plain client, or one that keeps to the handshake and has
\* shown under the agreed key that it shares the secret, has had a frame
\* dispatched (the checks of serverObfuscatedHandshake), whatever the sizes of
\* numbers and paddings, the clients and the goroutines that write to them.
THEOREM OnlyHonestDispatched == Spec => []OnlyAfterHandshake
<1>1. Init => TypeInv /\ HandshakeInv /\ RepliesInv
  BY InitType, InitHandshake, InitReplies
<1>2. TypeInv /\ HandshakeInv /\ RepliesInv /\ [Next]_vars => (TypeInv /\ HandshakeInv /\ RepliesInv)'
  BY TypeStep, HandshakeStep, RepliesStep
<1>3. HandshakeInv => OnlyAfterHandshake
  BY HandshakeMade
<1> QED BY <1>1, <1>2, <1>3, PTL DEF Spec

\* What the client reads is what was said to it, in the order in which writeMu
\* was taken, however replies and callbacks interleave and its reads cut them
\* (obfConn.Write and sendLocked), for any number of goroutines.
THEOREM RepliesStayReadable == Spec => []RepliesReadable
<1>1. Init => TypeInv /\ HandshakeInv /\ RepliesInv
  BY InitType, InitHandshake, InitReplies
<1>2. TypeInv /\ HandshakeInv /\ RepliesInv /\ [Next]_vars => (TypeInv /\ HandshakeInv /\ RepliesInv)'
  BY TypeStep, HandshakeStep, RepliesStep
<1>3. TypeInv /\ RepliesInv => RepliesReadable
  BY RepliesReadableIs
<1> QED BY <1>1, <1>2, <1>3, PTL DEF Spec

\* The frames that readFrame gives to dispatch are the client's, each once, whole
\* and in order, for frames of any length and number, however TCP cuts the bytes
\* into reads: past the end of the handshake (the leftover), out of the prefix of
\* prependConn and through obfConn.
THEOREM FramesDeliveredAsSent == Spec => []DeliveredAsSent
<1> DEFINE IInv == /\ TypeInv /\ HandshakeInv /\ RepliesInv
                   /\ TodoInv /\ BuffersInv /\ HandledInv /\ FlowInv
<1>1. Init => IInv
  BY InitType, InitHandshake, InitReplies, InitFrames
<1>2. IInv /\ [Next]_vars => IInv'
  <2>1. TypeInv /\ HandshakeInv /\ RepliesInv /\ [Next]_vars =>
           TypeInv' /\ HandshakeInv' /\ RepliesInv'
    BY TypeStep, HandshakeStep, RepliesStep
  <2>2. TypeInv /\ HandshakeInv /\ TodoInv /\ [Next]_vars => TodoInv'
    BY TodoStep
  <2>3. IInv /\ [Next]_vars => BuffersInv'
    BY BuffersStep
  <2>4. IInv /\ [Next]_vars /\ TypeInv' /\ TodoInv' /\ BuffersInv' => HandledInv' /\ FlowInv'
    BY FlowStep
  <2> QED BY <2>1, <2>2, <2>3, <2>4
<1>3. IInv => DeliveredAsSent
  BY HandledDelivered
<1> QED BY <1>1, <1>2, <1>3, PTL DEF Spec

=============================================================================
