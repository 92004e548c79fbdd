---------------------------- MODULE EventSource ----------------------------
(***************************************************************************)
(* What a selector promises its users (selector.h): each descriptor has at *)
(* most one owner, a handler is called with the owner of a descriptor that *)
(* is registered and asked for the event, and in a call only what belongs  *)
(* to that owner, or to nobody, changes.                                   *)
(***************************************************************************)
CONSTANTS Fd, Owner, Listener, None, Op

VARIABLES
    table,      \* owner and interest of each descriptor
    at          \* the descriptor whose event is handed out

Unused == [data |-> None, interest |-> {}]

(* An owner changes, drops or adds what is its own *)
ChangesOwn(data) ==
    \A fd \in Fd : table'[fd] # table[fd] =>
                      /\ table[fd].data \in {data, None}
                      /\ table'[fd].data \in {data, None}

(* A listener adds one owner, that had nothing before *)
Adds ==
    \E fd \in Fd, data \in Owner :
        /\ table[fd] = Unused
        /\ \A other \in Fd : table[other].data # data
        /\ table' = [table EXCEPT ![fd] = [data |-> data, interest |-> table'[fd].interest]]

(* An event that the owner of the descriptor asked for *)
Event ==
    /\ at \in Fd /\ table[at].interest # {}
    /\ IF table[at].data = Listener THEN Adds ELSE ChangesOwn(table[at].data)

(* A task of an owner has ended *)
Notified(fd) ==
    /\ table[fd].data \in Owner
    /\ ChangesOwn(table[fd].data)

Destroyed == table' = [fd \in Fd |-> Unused]

Next == Event \/ (\E fd \in Fd : Notified(fd)) \/ Destroyed

Spec == [][Next]_table
=============================================================================
