------------------------------ MODULE Collections ------------------------------
(***************************************************************************)
(* Two operators of the libraries as definitions that proofs can expand:   *)
(* SelectSeq with a set in the place of a predicate, and TLC's @@.         *)
(***************************************************************************)
EXTENDS Naturals, Sequences

(* The elements of a sequence that are in a set, in the sequence's order.  *)
Keep(seq, set) ==
    LET kept[i \in 0 .. Len(seq)] ==
            IF i = 0 THEN <<>>
            ELSE IF seq[i] \in set THEN Append(kept[i - 1], seq[i])
            ELSE kept[i - 1]
    IN  kept[Len(seq)]

(* Two functions in one; where both are defined the first counts.          *)
f ++ g == [x \in (DOMAIN f) \union (DOMAIN g) |-> IF x \in DOMAIN f THEN f[x] ELSE g[x]]
===============================================================================
