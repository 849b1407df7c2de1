------------------------------ MODULE MCStream ------------------------------
(* Stream for TLC: clients that keep to the protocol, and clients with one   *)
(* fault each.                                                               *)
EXTENDS Stream

Frame(protocol, op, body) == [protocol |-> protocol, op |-> op, body |-> body]
Login == Frame("edonkey", 1, <<Byte("data", 7)>>)
List == Frame("edonkey", 2, <<>>)

\* Three requests; a packed one that fits and one that does not; a protocol that
\* is not served; a request that fails.
FrameLists ==
    {<<Login, List, Login>>,
     <<Frame("packed", 3, <<Byte("zip", 1)>>), Frame("packed", 3, <<Byte("zip", 2)>>)>>,
     <<Frame("emule", 4, <<>>), List>>,
     <<Frame("edonkey", 0, <<>>), List>>}

Good(frames) ==
    [kind |-> "obfuscated", marker |-> "other", number |-> "client",
     pad1 |-> 0, pad2 |-> 1, magic |-> "sync", method |-> "rc4", frames |-> frames]

Clients ==
    {[Good(frames) EXCEPT !.marker = m, !.pad1 = n, !.pad2 = MaxPad - n] :
        frames \in FrameLists, m \in {"http", "other"}, n \in 0..MaxPad}
    \cup {[Good(frames) EXCEPT !.kind = "plain"] : frames \in FrameLists}
    \cup {[Good(<<>>) EXCEPT !.kind = "probe", !.marker = m] : m \in {"http", "other"}}
    \cup {[Good(<<List>>) EXCEPT !.number = "zero"],
          [Good(<<List>>) EXCEPT !.pad1 = MaxPad + 1],
          [Good(<<List>>) EXCEPT !.pad2 = MaxPad + 1],
          [Good(<<List>>) EXCEPT !.magic = "noise"],
          [Good(<<List>>) EXCEPT !.method = "none"]}

ByteKinds ==
    PlainMarkers \cup {"client", "server", "zero", "n", "pad", "op", "data", "zip", "sync",
                      "rc4", "400", "http", "other", "noise", "none"}
=============================================================================
