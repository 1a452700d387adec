---------------------------------- MODULE Lists ----------------------------------
(***************************************************************************)
(* JavaScript's arrays, as far as the admin's scripts filter them.         *)
(***************************************************************************)
EXTENDS Naturals, Sequences

\* The entries of a list at the positions in I, in their order (filter, and splice of
\* the others).
Kept(list, I) ==
  LET upTo[n \in 0..Len(list)] ==
        IF n = 0 THEN <<>>
        ELSE IF n \in I THEN Append(upTo[n - 1], list[n]) ELSE upTo[n - 1]
  IN upTo[Len(list)]
================================================================================
