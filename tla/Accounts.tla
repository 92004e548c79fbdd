------------------------------ MODULE Accounts ------------------------------
(***************************************************************************)
(* What users.c promises whoever manages the users: a set of accounts with *)
(* one password per name, never more than MaxUsers of them.  A client asks *)
(* for an account to be added or deleted and is answered at once: after    *)
(* TRUE that account, and no other, has come or gone; after FALSE nothing  *)
(* has changed, and there was a reason to refuse.                          *)
(***************************************************************************)
EXTENDS Integers, FiniteSets

CONSTANTS Name, Pass, TooLong, MaxUsers, Client, None

VARIABLES accounts, answer

Silent == [op |-> "none", user |-> None, pass |-> None, ok |-> FALSE]
Taken == {acc.name : acc \in accounts}

Init ==
    /\ accounts \subseteq [name : Name, pass : Pass]
    /\ Cardinality(accounts) <= MaxUsers
    /\ \A x, y \in accounts : x.name = y.name => x = y
    /\ answer = [c \in Client |-> Silent]

Answered(c, op, n, p, ok) ==
    /\ answer[c] = Silent
    /\ answer' = [answer EXCEPT ![c] = [op |-> op, user |-> n, pass |-> p, ok |-> ok]]

Add(c, n, p) ==
    /\ Answered(c, "add", n, p, TRUE)
    /\ n \notin Taken
    /\ Cardinality(accounts) < MaxUsers
    /\ accounts' = accounts \cup {[name |-> n, pass |-> p]}

Delete(c, n) ==
    /\ Answered(c, "delete", n, None, TRUE)
    /\ n \in Taken
    /\ accounts' = {acc \in accounts : acc.name # n}

(* None stands for an argument that names nobody *)
RefuseAdd(c, n, p) ==
    /\ Answered(c, "add", n, p, FALSE)
    /\ n \in Taken \cup TooLong \cup {None} \/ p \in TooLong \/ Cardinality(accounts) = MaxUsers
    /\ UNCHANGED accounts

RefuseDelete(c, n) ==
    /\ Answered(c, "delete", n, None, FALSE)
    /\ n \notin Taken
    /\ UNCHANGED accounts

(* The answer is on its way, or its client has gone *)
Release(c) ==
    /\ answer[c] # Silent
    /\ answer' = [answer EXCEPT ![c] = Silent]
    /\ UNCHANGED accounts

(* A client is told something, or has been: no step is about nobody *)
Next ==
    \E c \in Client : answer'[c] # answer[c] /\
        \/ \E n \in Name, p \in Pass : Add(c, n, p)
        \/ \E n \in Name : Delete(c, n)
        \/ \E n \in Name \cup {None}, p \in Pass \cup {None} : RefuseAdd(c, n, p)
        \/ \E n \in Name \cup {None} : RefuseDelete(c, n)
        \/ Release(c)

Spec == Init /\ [][Next]_<<accounts, answer>>
=============================================================================
