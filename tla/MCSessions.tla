----------------------------- MODULE MCSessions -----------------------------
(* Instances of Sessions for TLC: which addresses the connections come from. *)
EXTENDS Sessions

CONSTANTS alice, bob, carol   \* connection slots

\* Two clients behind one IPv4 address and one without any.  In the runs the
\* ID of the address is the first that the scan tries.
SharedIDs == [s \in Sessions |-> IF s = carol THEN 0 ELSE 2]
=============================================================================
