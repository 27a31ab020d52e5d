------------------------------- MODULE Picks --------------------------------
(***************************************************************************)
(* Passes over a sequence that keep some of its elements.                  *)
(***************************************************************************)
EXTENDS Naturals, Sequences

\* The elements of s at the positions in P, in their order.
Picked(s, P) ==
    LET picked[i \in 0 .. Len(s)] ==
            IF i = 0 THEN <<>>
            ELSE IF i \in P THEN Append(picked[i - 1], s[i])
            ELSE picked[i - 1]
    IN  picked[Len(s)]

\* s without the members of S.
Omitting(s, S) == Picked(s, {i \in DOMAIN s : s[i] \notin S})
=============================================================================
