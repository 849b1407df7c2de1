----------------------------- MODULE MCService ------------------------------
(* Service for TLC.                                                        *)
EXTENDS Service

\* For datagrams of 2: nothing, an exact fit with one block too many, and a block
\* that is too long by itself between two short ones.
Replies == {<<>>, <<1, 2, 3>>, <<1, 4, 5>>}
=============================================================================
