------------------------------ MODULE MCSocks5 ------------------------------
(* Three clients for a pool of two: the pool is full, a place is given back*)
(* and taken again.  Three descriptors: two clients leave one for an       *)
(* origin, so they run out, and the next connection reuses them.           *)
EXTENDS Socks5, TLC

CONSTANTS c1, c2, c3, f1, f2, f3

Conns == {c1, c2, c3}
TwoConns == {c1, c2}
OneConn == {c1}
Fds == {f1, f2, f3}

(* A connect that is in progress, one that is done at once, one that fails *)
Addresses == {"starts", "instant", "ENETUNREACH"}
NoInstant == {"starts", "ENETUNREACH"}
InProgress == {"starts"}

(* Connections and descriptors are alike: no action tells one from another *)
Alike == Permutations(Conns) \cup Permutations(Fds)
=============================================================================
