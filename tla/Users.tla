-------------------------------- MODULE Users --------------------------------
(***************************************************************************)
(* The users of users.c: an array of MAX_USERS accounts, the first         *)
(* total_users of which are in use.  The table is kept as the sequence of  *)
(* those; the command line fills it before the server starts and every     *)
(* monitoring session changes it.                                          *)
(***************************************************************************)
EXTENDS Integers, Sequences, FiniteSets

CONSTANTS
    Name, Pass,     \* what a user and a password can be
    TooLong,        \* those of them that pass MAX_USER_NAME_LEN or _PASS_LEN
    MaxUsers        \* MAX_USERS of args.h (10)

ASSUME MaxUsersAssumption == MaxUsers \in Nat

Account == [name : Name, pass : Pass]
Names(t) == {t[i].name : i \in DOMAIN t}

(* What every caller finds: as many accounts as there may be, no name twice*)
Sound(t) ==
    /\ Len(t) <= MaxUsers
    /\ \A i, j \in DOMAIN t : t[i].name = t[j].name => i = j
    /\ \A i \in DOMAIN t : t[i].name \notin TooLong /\ t[i].pass \notin TooLong

(* Mutant: nobody looks for the name among the users there are *)
AddStatusNoSearch(t, n, p) ==
    IF Len(t) = MaxUsers THEN -2
    ELSE IF n \in TooLong \/ p \in TooLong THEN -4
    ELSE 0

(* What add_user returns, its tests in the order of the code *)
AddStatus(t, n, p) ==
    IF Len(t) = MaxUsers THEN -2
    ELSE IF n \in Names(t) THEN -3
    ELSE IF n \in TooLong \/ p \in TooLong THEN -4
    ELSE 0

(* Mutant: stored before the lengths are looked at *)
AddUserTooSoon(t, n, p) ==
    IF AddStatus(t, n, p) \in {0, -4} THEN Append(t, [name |-> n, pass |-> p]) ELSE t

(* add_user *)
AddUser(t, n, p) ==
    IF AddStatus(t, n, p) = 0 THEN Append(t, [name |-> n, pass |-> p]) ELSE t

(* The place at which delete_user finds a name *)
Place(t, n) == CHOOSE i \in DOMAIN t : t[i].name = n

(* Mutant: the shift starts one account too late *)
DeleteUserShiftsLate(t, n) ==
    IF n \notin Names(t) THEN t
    ELSE [j \in 1 .. Len(t) - 1 |-> IF j <= Place(t, n) THEN t[j] ELSE t[j + 1]]

(* delete_user: the accounts behind the deleted one move down *)
DeleteUser(t, n) ==
    IF n \notin Names(t) THEN t
    ELSE [j \in 1 .. Len(t) - 1 |-> IF j < Place(t, n) THEN t[j] ELSE t[j + 1]]
=============================================================================
