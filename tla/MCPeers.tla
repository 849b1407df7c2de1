------------------------------ MODULE MCPeers -------------------------------
(* Peers for TLC: the addresses of three peers, one of them IPv6; the first  *)
(* is also configured in another spelling.                                    *)
EXTENDS Peers

CONSTANTS a, b, six, odd

Odd == [s \in Spellings |-> a]

\* None that can be used; both spellings, one of them twice; the other spelling
\* alone; one that can only be pinged, with and without another.
ConfiguredPeers == {<<Bad>>, <<odd, a, a>>, <<odd, Bad, b>>, <<six>>, <<six, b>>}

\* Two peers, one of them twice; a body cut short; one with port 0; a count that
\* leaves entries out.
ListBodies ==
    {[count |-> 3, entries |-> <<a, b, a>>], [count |-> 3, entries |-> <<b>>],
     [count |-> 2, entries |-> <<Bad, b>>], [count |-> 1, entries |-> <<a, b>>]}
=============================================================================
