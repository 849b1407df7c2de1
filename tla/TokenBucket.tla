---------------------------- MODULE TokenBucket -----------------------------
(***************************************************************************)
(* What the rate limiter promises: a token bucket for every address, which *)
(* is never forgotten.  It is full at first, fills up by one unit per tick *)
(* and pays Cost units for every packet it admits.                         *)
(***************************************************************************)
EXTENDS Integers

CONSTANTS
    Addresses,  \* source addresses
    Burst,      \* what a full bucket holds: one second's worth of units
    Cost        \* the units one packet costs

VARIABLES now, level, answer
vars == <<now, level, answer>>

AtMost(x) == IF x > Burst THEN Burst ELSE x

Init ==
    /\ now = 0
    /\ level = [a \in Addresses |-> Burst]
    /\ answer = <<>>

Elapse ==
    /\ now' \in Nat
    /\ now' > now
    /\ level' = [a \in Addresses |-> AtMost(level[a] + (now' - now))]
    /\ UNCHANGED answer

Admit(a) ==
    /\ level[a] >= Cost
    /\ level' = [level EXCEPT ![a] = @ - Cost]
    /\ answer' = <<a, TRUE>>
    /\ UNCHANGED now

Refuse(a) ==
    /\ level[a] < Cost
    /\ answer' = <<a, FALSE>>
    /\ UNCHANGED <<now, level>>

Next == Elapse \/ \E a \in Addresses : Admit(a) \/ Refuse(a)

Spec == Init /\ [][Next]_vars
=============================================================================
