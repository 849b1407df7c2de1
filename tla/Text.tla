-------------------------------- MODULE Text --------------------------------
(***************************************************************************)
(* The operations on strings that searching rests on (package strings).    *)
(* A string is a sequence of characters.                                   *)
(***************************************************************************)
EXTENDS Naturals, Sequences

CONSTANT LowerCase   \* upper-case letter -> its lower-case letter

Space == " "

ToLower(s) ==
    [i \in DOMAIN s |-> IF s[i] \in DOMAIN LowerCase THEN LowerCase[s[i]] ELSE s[i]]

EqualFold(s, t) == ToLower(s) = ToLower(t)

TrimSpace(s) ==
    LET ink == {i \in DOMAIN s : s[i] # Space} IN
    IF ink = {} THEN <<>>
    ELSE SubSeq(s, CHOOSE i \in ink : \A j \in ink : i <= j,
                   CHOOSE i \in ink : \A j \in ink : i >= j)

HasPrefix(s, p) == Len(p) <= Len(s) /\ SubSeq(s, 1, Len(p)) = p

TrimPrefix(s, p) == IF HasPrefix(s, p) THEN SubSeq(s, Len(p) + 1, Len(s)) ELSE s

\* strings.Contains: t occurs in s, at some offset.
HasSubstring(s, t) ==
    \E k \in 0..Len(s) : k + Len(t) <= Len(s) /\ \A j \in 1..Len(t) : s[k + j] = t[j]
=============================================================================
