------------------------------ MODULE MCAdmin ------------------------------
(* Two sessions over a table of two places, with three names, a password   *)
(* that fits and one that does not: the table fills, refuses, gives a      *)
(* place back, and a deletion moves an account down.                       *)
EXTENDS Admin

CONSTANTS s1, s2, n1, n2, n3, short, long

Sessions == {s1, s2}
NameSet == {n1, n2, n3}
PassSet == {short, long}
LongSet == {long}
=============================================================================
