------------------------------- MODULE Sieve -------------------------------
(* A list with some of its members let go: JavaScript's filter.            *)
(*                                                                         *)
(* SelectSeq does the same, but it is a symbol the provers know nothing of *)
(* and cannot open; this is one they can, and SieveProofs says of it what  *)
(* the proofs about lists need.                                            *)
EXTENDS Naturals, Sequences

\* The members of a list that are in a set, in the list's order.
Sieved(s, keep) ==
    LET kept[n \in 0..Len(s)] ==
          IF n = 0 THEN <<>>
          ELSE IF s[n] \in keep THEN Append(kept[n - 1], s[n]) ELSE kept[n - 1]
    IN  kept[Len(s)]
=============================================================================
