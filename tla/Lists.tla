-------------------------------- MODULE Lists --------------------------------
(***************************************************************************)
(* The one operation on sequences that the models need and the libraries   *)
(* have only in a form nothing can be proved of.                           *)
(***************************************************************************)
EXTENDS Integers, Sequences

\* The members of s that are in S, in order.
Among(s, S) ==
    LET kept[i \in 0..Len(s)] ==
            IF i = 0 THEN <<>>
            ELSE IF s[i] \in S THEN Append(kept[i - 1], s[i]) ELSE kept[i - 1]
    IN  kept[Len(s)]
=============================================================================
