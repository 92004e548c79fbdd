----------------------------- MODULE MCSelector -----------------------------
(* Instances of Selector for TLC *)
EXTENDS Selector, TLC

CONSTANTS c1, c2, c3

MCPassive == {0}
MCInterests == {{"OP_READ"}, {"OP_READ", "OP_WRITE"}}
MCReadOnly == {{"OP_READ"}}
MCConn == {c1, c2, c3}
Symmetry == Permutations(MCConn)
=============================================================================
