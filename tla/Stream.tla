------------------------------- MODULE Stream -------------------------------
(***************************************************************************)
(* One TCP connection from its first byte to the frames the dispatcher     *)
(* gets and the replies the client can read: handleConn and readFrame      *)
(* (ed2ksrv/server.go), the obfuscation handshake and the layers it puts   *)
(* on the connection (ed2ksrv/obfuscate.go).                               *)
(*                                                                         *)
(* A byte is a value under the keystream bytes it was XORed with: `mask'   *)
(* is the set of them, so that XORing twice with the same one takes it     *)
(* away, and a byte is legible when none is left.  A keystream byte is a   *)
(* key and a position.  Numbers of 96 bytes are PrimeSize bytes here, the  *)
(* four bytes of the magic value are one, and so are those of a size.      *)
(*                                                                         *)
(* TCP keeps bytes in order and forgets how they were written: one Read    *)
(* returns any number of those that have arrived.  io.ReadFull is one      *)
(* action, since nobody else reads; a single Read is not.                  *)
(***************************************************************************)
EXTENDS Integers, Sequences, SequencesExt

CONSTANTS
    PrimeSize,   \* primeSizeBytes
    MaxPad,      \* the longest padding, 15
    MaxDecoded,  \* maxDecodedFrameBytes
    Kinds,       \* kinds of bytes: what a byte may stand for
    Scripts,     \* what a client may do: see Honest
    Writers      \* goroutines that send to the client: its own and others

ASSUME SizesAssumption == /\ PrimeSize \in Nat \ {0}
                          /\ MaxPad \in Nat
                          /\ MaxDecoded \in Nat
ASSUME WritersAssumption == "own" \in Writers

PlainMarkers == {"edonkey", "packed", "emule"}
PlainBytes == [val : Kinds \X Int, mask : {{}}]
Frames == [protocol : Kinds, op : Int, body : Seq(PlainBytes)]

ASSUME KindsAssumption ==
    PlainMarkers \cup {"client", "server", "zero", "n", "pad", "op", "data", "sync", "rc4",
                      "400"} \subseteq Kinds

\* A plain client begins with a protocol marker, the others with another byte.
ASSUME ScriptsAssumption ==
    \A s \in Scripts :
        /\ s.kind \in {"plain", "probe", "obfuscated"}
        /\ {s.marker, s.magic, s.method} \subseteq Kinds
        /\ s.number \in {"client", "zero"}
        /\ s.pad1 \in Nat /\ s.pad2 \in Nat
        /\ s.frames \in Seq(Frames)
        /\ IF s.kind = "plain"
           THEN s.frames # <<>> => s.frames[1].protocol \in PlainMarkers
           ELSE s.marker \notin PlainMarkers

VARIABLES
    obfuscation, \* Config.ProtocolObfuscation
    script,      \* what this client does
    client,      \* where the client is, or "left"
    ckeys,       \* the client's keystreams
    c2s, s2c,    \* bytes on their way
    todo,        \* frames the client has still to send
    heard,       \* bytes the client has read and decrypted after the handshake
    pc,          \* where handleConn is
    local,       \* local to the handshake: gaBuf and a padding length
    skeys,       \* obfConn.send and obfConn.recv; none on a plain connection
    prefix,      \* prependConn.prefix
    buf,         \* what readFrame has read of a header or a body
    header,      \* the header it has read
    handled,     \* frames given to dispatch
    writer,      \* writer -> what it is about to write, with writeMu held
    said         \* messages in the order in which writeMu was taken for them

setting == <<obfuscation, script>>
peer == <<client, ckeys, todo, heard>>
reading == <<pc, local, prefix, buf, header, handled>>
vars == <<setting, peer, c2s, s2c, reading, skeys, writer, said>>

----------------------------------------------------------------------------
(* Bytes and keystreams.                                                   *)

Byte(kind, n) == [val |-> <<kind, n>>, mask |-> {}]
Legible(b, kind) == b.mask = {} /\ b.val[1] = kind

\* The number in a length byte; -1 for a byte that is no number.
Number(b) == IF Legible(b, "n") THEN b.val[2] ELSE -1

Padding(n) == [i \in 1..n |-> Byte("pad", i)]
Toggle(s, x) == IF x \in s THEN s \ {x} ELSE s \cup {x}

\* amuleRC4: a key and the position in its keystream.
NewRC4(key) == [key |-> key, pos |-> 0]
NoRC4 == NewRC4(<<>>)

XorInPlace(rc4, p) ==
    [i \in DOMAIN p |-> [p[i] EXCEPT !.mask = Toggle(@, <<rc4.key, rc4.pos + i>>)]]

\* A connection without keys leaves the bytes alone (prependConn on the bare conn).
Advanced(rc4, n) == IF rc4 = NoRC4 THEN rc4 ELSE [rc4 EXCEPT !.pos = @ + n]
Crypt(rc4, p) == IF rc4 = NoRC4 THEN p ELSE XorInPlace(rc4, p)

\* Diffie-Hellman: the public number of a private one, as encodeFixed96 lays it
\* out, and the secret that both sides compute.  "zero" has no valid number.
Public(x) == [i \in 1..PrimeSize |-> Byte(x, i)]
Agree(x, number) ==
    IF \E y \in {"client", "server"} : number = Public(y)
    THEN {<<x>>, <<number[1].val[1]>>}
    ELSE {<<x, number>>}

\* md5Key97 with magicValueRequester or magicValueServer.
Key(secret, magic) == <<secret, magic>>

\* The two keystreams of a side.
Keys(secret, sendMagic, recvMagic) ==
    [send |-> NewRC4(Key(secret, sendMagic)), recv |-> NewRC4(Key(secret, recvMagic))]
NoKeys == [send |-> NoRC4, recv |-> NoRC4]

\* What a side sends under its keystream: magic value, methods, padding length
\* and padding.
TailSize == 3
Half(magic, method, n) == <<Byte(magic, 0), Byte(method, 0), Byte("n", n)>> \o Padding(n)

----------------------------------------------------------------------------
(* Frames.                                                                 *)

HeaderSize == 3

\* A frame on the wire: protocol, size (opcode and body) and opcode; the body.
Encode(f) ==
    <<Byte(f.protocol, 0), Byte("n", 1 + Len(f.body)), Byte("op", f.op)>> \o f.body

\* What zlib makes of a body: Byte("zip", n) is n bytes compressed.
Inflatable(body) == Len(body) = 1 /\ Legible(body[1], "zip")
Inflated(body) == [i \in 1..body[1].val[2] |-> Byte("data", i)]

\* inflatePackedFrame.
Packed(h) == Legible(h[1], "packed")
CanInflate(body) == Inflatable(body) /\ Len(Inflated(body)) <= MaxDecoded
Unpack(h, body) == IF Packed(h) THEN Inflated(body) ELSE body

\* What the client means by its frame.
Meaning(f) ==
    [op |-> f.op, body |-> IF f.protocol = "packed" THEN Inflated(f.body) ELSE f.body]

\* The frames of a client that are to be dispatched: all up to the first that is
\* refused, and none after one whose handling fails (opcode 0).
Acceptable(f) ==
    f.protocol = "edonkey" \/ (f.protocol = "packed" /\ CanInflate(f.body))
Dispatched(frames) ==
    LET due == {i \in DOMAIN frames :
                   /\ \A j \in 1..i : Acceptable(frames[j])
                   /\ \A j \in 1..(i - 1) : frames[j].op # 0}
    IN  [i \in due |-> Meaning(frames[i])]

----------------------------------------------------------------------------
\* A client that keeps to the protocol.
Honest(s) ==
    \/ s.kind = "plain"
    \/ /\ s.kind = "obfuscated"
       /\ s.number = "client"
       /\ s.pad1 <= MaxPad /\ s.pad2 <= MaxPad
       /\ s.magic = "sync" /\ s.method = "rc4"

Init ==
    /\ obfuscation \in BOOLEAN
    /\ script \in Scripts
    /\ client = "start"
    /\ ckeys = NoKeys
    /\ c2s = <<>> /\ s2c = <<>>
    /\ todo = script.frames
    /\ heard = <<>>
    /\ pc = "first"
    /\ local = [ga |-> <<>>, pad |-> 0]
    /\ skeys = NoKeys
    /\ prefix = <<>>
    /\ buf = <<>>
    /\ header = <<>>
    /\ handled = <<>>
    /\ writer = [w \in Writers |-> <<>>]
    /\ said = <<>>

----------------------------------------------------------------------------
(* The client, as a client of this protocol does it.                       *)

HelloBytes(s) ==
    <<Byte(s.marker, 0)>> \o Public(s.number) \o <<Byte("n", s.pad1)>> \o Padding(s.pad1)

Hello ==
    /\ client = "start"
    /\ CASE script.kind = "plain" -> client' = "ready" /\ UNCHANGED c2s
         [] script.kind = "probe" -> client' = "probe" /\ c2s' = <<Byte(script.marker, 0)>>
         [] script.kind = "obfuscated" ->
               /\ client' = "hello"
               /\ c2s' = HelloBytes(script)
    /\ UNCHANGED <<setting, ckeys, todo, heard, s2c, reading, skeys, writer, said>>

\* The client reads the server's answer, its number and its half, and sends its own.
AnswerRead ==
    LET keys == Keys(Agree("client", SubSeq(s2c, 1, PrimeSize)), "requester", "server")
        tail == XorInPlace(keys.recv, SubSeq(s2c, PrimeSize + 1, Len(s2c)))
        size == TailSize + Number(tail[TailSize])
        reply == Half(script.magic, script.method, script.pad2) IN
    /\ client = "hello"
    /\ Len(s2c) >= PrimeSize + TailSize
    /\ Legible(tail[1], "sync")
    /\ Len(tail) >= size
    /\ client' = "ready"
    /\ ckeys' = [send |-> Advanced(keys.send, Len(reply)), recv |-> Advanced(keys.recv, size)]
    /\ c2s' = c2s \o XorInPlace(keys.send, reply)
    /\ s2c' = SubSeq(s2c, PrimeSize + size + 1, Len(s2c))
    /\ UNCHANGED <<setting, todo, heard, reading, skeys, writer, said>>

ClientSend ==
    LET frame == Encode(Head(todo)) IN
    /\ client = "ready"
    /\ todo # <<>>
    /\ todo' = Tail(todo)
    /\ c2s' = c2s \o Crypt(ckeys.send, frame)
    /\ ckeys' = [ckeys EXCEPT !.send = Advanced(@, Len(frame))]
    /\ UNCHANGED <<setting, client, heard, s2c, reading, skeys, writer, said>>

ClientRead ==
    /\ client = "ready"
    /\ s2c # <<>>
    /\ heard' = heard \o Crypt(ckeys.recv, s2c)
    /\ ckeys' = [ckeys EXCEPT !.recv = Advanced(@, Len(s2c))]
    /\ s2c' = <<>>
    /\ UNCHANGED <<setting, client, todo, c2s, reading, skeys, writer, said>>

\* The client closes the connection, or it breaks: the last bytes that were sent
\* may not arrive.
ClientLeave ==
    /\ client # "left"
    /\ client' = "left"
    /\ \E n \in 0..Len(c2s) : c2s' = SubSeq(c2s, 1, n)
    /\ UNCHANGED <<setting, ckeys, todo, heard, s2c, reading, skeys, writer, said>>

----------------------------------------------------------------------------
(* handleConn up to the session.                                           *)

\* The first n bytes are read from the connection.
Consume(n) == c2s' = SubSeq(c2s, n + 1, Len(c2s))

\* The first byte tells a plain client, an obfuscated one and others apart.
ReadFirst ==
    /\ pc = "first"
    /\ c2s # <<>>
    /\ Consume(1)
    /\ LET plain == \E m \in PlainMarkers : Legible(c2s[1], m) IN
       \/ /\ plain
          /\ prefix' = <<c2s[1]>>
          /\ pc' = "header"
          /\ UNCHANGED s2c
       \/ /\ ~plain /\ obfuscation
          /\ pc' = "ga"
          /\ UNCHANGED <<prefix, s2c>>
       \/ /\ ~plain /\ ~obfuscation
          /\ s2c' = IF Legible(c2s[1], "http") THEN Append(s2c, Byte("400", 0)) ELSE s2c
          /\ pc' = "closed"
          /\ UNCHANGED prefix
    /\ UNCHANGED <<setting, peer, local, buf, header, handled, skeys, writer, said>>

\* serverObfuscatedHandshake: the number of the client and its padding length ...
ReadGA ==
    /\ pc = "ga"
    /\ Len(c2s) >= PrimeSize
    /\ local' = [local EXCEPT !.ga = SubSeq(c2s, 1, PrimeSize)]
    /\ pc' = "padlen"
    /\ Consume(PrimeSize)
    /\ UNCHANGED <<setting, peer, s2c, prefix, buf, header, handled, skeys, writer, said>>

ReadPadLen ==
    /\ pc = "padlen"
    /\ Len(c2s) >= 1
    /\ local' = [local EXCEPT !.pad = Number(c2s[1])]
    /\ pc' = IF Number(c2s[1]) \in 0..MaxPad THEN "pad" ELSE "closed"
    /\ Consume(1)
    /\ UNCHANGED <<setting, peer, s2c, prefix, buf, header, handled, skeys, writer, said>>

\* ... the padding; then the keys, and the answer with a padding of any length.
ReadPad ==
    LET keys == Keys(Agree("server", local.ga), "server", "requester") IN
    /\ pc = "pad"
    /\ Len(c2s) >= local.pad
    /\ Consume(local.pad)
    /\ \/ /\ local.ga = Public("zero")
          /\ pc' = "closed"
          /\ UNCHANGED <<s2c, skeys>>
       \/ /\ local.ga # Public("zero")
          /\ \E n \in 0..MaxPad :
                LET tail == Half("sync", "rc4", n)
                IN  /\ s2c' = s2c \o Public("server") \o XorInPlace(keys.send, tail)
                    /\ skeys' = [keys EXCEPT !.send = Advanced(@, Len(tail))]
          /\ pc' = "hdr"
    /\ UNCHANGED <<setting, peer, local, prefix, buf, header, handled, writer, said>>

\* (A mutant: the magic value is not looked at.)
GoodHdrMutant(hdr) == Legible(hdr[2], "rc4") /\ Number(hdr[3]) \in 0..MaxPad

\* The client's half: magic, method and padding length.
GoodHdr(hdr) ==
    Legible(hdr[1], "sync") /\ Legible(hdr[2], "rc4") /\ Number(hdr[3]) \in 0..MaxPad

ReadHdr ==
    LET hdr == XorInPlace(skeys.recv, SubSeq(c2s, 1, TailSize)) IN
    /\ pc = "hdr"
    /\ Len(c2s) >= TailSize
    /\ Consume(TailSize)
    /\ skeys' = [skeys EXCEPT !.recv = Advanced(@, TailSize)]
    /\ local' = [local EXCEPT !.pad = Number(hdr[3])]
    /\ pc' = IF GoodHdr(hdr) THEN "pad2" ELSE "closed"
    /\ UNCHANGED <<setting, peer, s2c, prefix, buf, header, handled, writer, said>>

ReadPad2 ==
    /\ pc = "pad2"
    /\ Len(c2s) >= local.pad
    /\ Consume(local.pad)
    /\ skeys' = [skeys EXCEPT !.recv = Advanced(@, local.pad)]
    /\ pc' = "chunk"
    /\ UNCHANGED <<setting, peer, s2c, local, prefix, buf, header, handled, writer, said>>

\* (Mutants: what was read too far is dropped, or not decrypted.)
LeftoverDroppedMutant(chunk) == <<>>
LeftoverRawMutant(chunk) == chunk

\* What one Read found behind the padding is kept, decrypted.
Leftover(chunk) == XorInPlace(skeys.recv, chunk)

\* One Read: it may find the beginning of the first frame, or several frames.
ReadChunk ==
    /\ pc = "chunk"
    /\ \E n \in 1..Len(c2s) :
          /\ prefix' = Leftover(SubSeq(c2s, 1, n))
          /\ skeys' = [skeys EXCEPT !.recv = Advanced(@, n)]
          /\ Consume(n)
    /\ pc' = "header"
    /\ UNCHANGED <<setting, peer, s2c, local, buf, header, handled, writer, said>>

----------------------------------------------------------------------------
(* readFrame and dispatch.                                                 *)

\* How many bytes the io.ReadFull under way is for.
Wanted ==
    CASE pc = "first" -> 1
      [] pc = "ga" -> PrimeSize
      [] pc = "padlen" -> 1
      [] pc \in {"pad", "pad2"} -> local.pad
      [] pc = "hdr" -> TailSize
      [] pc = "chunk" -> 1
      [] pc = "header" -> HeaderSize - Len(buf)
      [] pc = "body" -> Number(header[2]) - 1 - Len(buf)
      [] OTHER -> 0

Smaller(m, n) == IF m < n THEN m ELSE n

\* prependConn.Read: first what was read too far, ...
ReadPrefix ==
    LET n == Smaller(Wanted, Len(prefix)) IN
    /\ pc \in {"header", "body"}
    /\ n > 0
    /\ buf' = buf \o SubSeq(prefix, 1, n)
    /\ prefix' = SubSeq(prefix, n + 1, Len(prefix))
    /\ UNCHANGED <<setting, peer, c2s, s2c, pc, local, header, handled, skeys, writer, said>>

\* ... then the connection, through obfConn.Read if there is one.
ReadConn ==
    /\ pc \in {"header", "body"}
    /\ prefix = <<>>
    /\ \E n \in 1..Smaller(Wanted, Len(c2s)) :
          /\ buf' = buf \o Crypt(skeys.recv, SubSeq(c2s, 1, n))
          /\ skeys' = [skeys EXCEPT !.recv = Advanced(@, n)]
          /\ Consume(n)
    /\ UNCHANGED <<setting, peer, s2c, pc, local, prefix, header, handled, writer, said>>

GotHeader ==
    /\ pc = "header"
    /\ Wanted = 0
    /\ header' = buf
    /\ buf' = <<>>
    /\ pc' = IF Number(buf[2]) < 1 THEN "closed" ELSE "body"
    /\ UNCHANGED <<setting, peer, c2s, s2c, local, prefix, handled, skeys, writer, said>>

\* A whole frame: inflated if it is packed, dispatched if its protocol is right.
GotBody ==
    LET frame == [op |-> header[3].val[2], body |-> Unpack(header, buf)]
        fine == Legible(header[1], "edonkey") \/ (Packed(header) /\ CanInflate(buf)) IN
    /\ pc = "body"
    /\ Wanted = 0
    /\ handled' = IF fine THEN Append(handled, frame) ELSE handled
    /\ pc' = IF ~fine \/ frame.op = 0 THEN "closed" ELSE "reply"
    /\ buf' = <<>>
    /\ header' = <<>>
    /\ UNCHANGED <<setting, peer, c2s, s2c, local, prefix, skeys, writer, said>>

\* (A mutant: the end of the stream in the middle of a frame is not noticed.)
ReadEndsMutant ==
    /\ client = "left"
    /\ prefix = <<>>
    /\ Len(c2s) < Wanted
    /\ c2s = <<>> /\ buf = <<>>
    /\ pc' = "closed"
    /\ UNCHANGED <<setting, peer, c2s, s2c, local, prefix, buf, header, handled, skeys,
                   writer, said>>

\* The client has left, and the bytes that are wanted will not come.
ReadEnds ==
    /\ client = "left"
    /\ prefix = <<>>
    /\ Len(c2s) < Wanted
    /\ pc' = "closed"
    /\ UNCHANGED <<setting, peer, c2s, s2c, local, prefix, buf, header, handled, skeys,
                   writer, said>>

----------------------------------------------------------------------------
(* Replies and callbacks.                                                  *)

\* (A mutant: writeMu is not taken.)
WriteMuFreeMutant == TRUE

WriteMuFree == \A w \in Writers : writer[w] = <<>>

\* What a writer wants to say: a reply to the frame just dispatched, or (another
\* goroutine) one callback, once the client may be registered.
Wants(w, message) ==
    IF w = "own"
    THEN pc = "reply" /\ writer[w] = <<>> /\ message = Byte("own", Len(handled))
    ELSE /\ handled # <<>>
         /\ pc # "closed"
         /\ message = Byte(w, 0)
         /\ \A i \in DOMAIN said : said[i] # message

\* sendLocked, sendRawEd2k: take writeMu; obfConn.Write encrypts a copy ...
EncryptReply(w) ==
    /\ WriteMuFree
    /\ \E message \in {Byte(w, 0), Byte(w, Len(handled))} :
          /\ Wants(w, message)
          /\ writer' = [writer EXCEPT ![w] = Crypt(skeys.send, <<message>>)]
          /\ said' = Append(said, message)
    /\ skeys' = [skeys EXCEPT !.send = Advanced(@, 1)]
    /\ UNCHANGED <<setting, peer, c2s, s2c, reading>>

\* ... and hands it to the connection.
WriteReply(w) ==
    /\ writer[w] # <<>>
    /\ pc # "closed"
    /\ s2c' = s2c \o writer[w]
    /\ writer' = [writer EXCEPT ![w] = <<>>]
    /\ pc' = IF w = "own" THEN "header" ELSE pc
    /\ UNCHANGED <<setting, peer, c2s, local, prefix, buf, header, handled, skeys, said>>

\* The write fails: an error of the own goroutine ends the connection.
WriteFails(w) ==
    /\ writer[w] # <<>>
    /\ client = "left" \/ pc = "closed"
    /\ writer' = [writer EXCEPT ![w] = <<>>]
    /\ pc' = IF w = "own" THEN "closed" ELSE pc
    /\ UNCHANGED <<setting, peer, c2s, s2c, local, prefix, buf, header, handled, skeys, said>>

----------------------------------------------------------------------------
Client == Hello \/ AnswerRead \/ ClientSend \/ ClientRead
Handshake ==
    \/ ReadFirst \/ ReadGA \/ ReadPadLen \/ ReadPad
    \/ ReadHdr \/ ReadPad2 \/ ReadChunk
ReadFrame == ReadPrefix \/ ReadConn \/ GotHeader \/ GotBody
Serve == Handshake \/ ReadFrame \/ ReadEnds
Send(w) == EncryptReply(w) \/ WriteReply(w) \/ WriteFails(w)

Next == Client \/ ClientLeave \/ Serve \/ \E w \in Writers : Send(w)

\* The goroutines run; a client goes on until it leaves, as it may at any time.
\* Its own goroutine waits for writeMu, which the runtime passes to it in the end.
Spec ==
    /\ Init /\ [][Next]_vars
    /\ WF_vars(Client) /\ WF_vars(Serve)
    /\ \A w \in Writers : WF_vars(WriteReply(w) \/ WriteFails(w))
    /\ SF_vars(EncryptReply("own"))

----------------------------------------------------------------------------
(* Properties.                                                             *)

\* The dispatcher gets the client's frames, each once, whole and in order,
\* however TCP cuts the stream: into the bytes read too far at the end of the
\* handshake, the prefix of prependConn and the reads through obfConn.
DeliveredAsSent == IsPrefix(handled, Dispatched(script.frames))

\* Only a plain client, or one that has shown under the agreed key that it shares
\* the secret, gets a frame dispatched (serverObfuscatedHandshake's checks).
OnlyAfterHandshake ==
    handled # <<>> => Honest(script) /\ (script.kind = "plain" \/ obfuscation)

\* The client can read whatever is written to it, in the order in which writeMu
\* was taken: its keystream and the server's never part, although the reply of
\* the own goroutine and callbacks of others are encrypted by one RC4 state.
RepliesReadable == IsPrefix(heard, said)

\* A client that keeps to the protocol and stays gets all its frames dispatched:
\* no way to cut the stream leaves the handshake or a frame waiting for bytes
\* that were already read.
HonestServed ==
    (Honest(script) /\ (script.kind = "plain" \/ obfuscation)) ~>
        (handled = Dispatched(script.frames) \/ client = "left")

\* When the client leaves, at whatever step of the handshake or of a frame, the
\* goroutine of its connection ends, and nobody keeps writeMu.
ConnectionEnds == client = "left" ~> (pc = "closed" /\ WriteMuFree)
=============================================================================
