----------------------------- MODULE BlockMaps ------------------------------
(***************************************************************************)
(* Memory maps with one descriptor for each block of neighbours of one     *)
(* type, for the small instances of the hand-offs.                         *)
(***************************************************************************)
EXTENDS Integers, SequencesExt

\* Neighbours of one type.
SameBlock(m, p) == {p - 1, p} \subseteq DOMAIN m /\ m[p - 1] = m[p]
BlockEnd(m, p) ==
    CHOOSE e \in DOMAIN m :
        /\ e >= p /\ ~SameBlock(m, e + 1)
        /\ \A q \in p .. e - 1 : SameBlock(m, q + 1)
Ascending(S) == SelectSeq(<<0, 1, 2, 3, 4, 5, 6, 7>>, LAMBDA p : p \in S)
Blocks(m) ==
    LET starts == Ascending({p \in DOMAIN m : ~SameBlock(m, p)})
    IN  [i \in DOMAIN starts |->
            [type |-> m[starts[i]], start |-> starts[i], pages |-> BlockEnd(m, starts[i]) - starts[i] + 1]]

\* The fewest descriptors in the order of their addresses, and the last of them first.
BlockMaps(m) == LET b == Blocks(m) IN {b, <<Last(b)>> \o Front(b)}
=============================================================================
