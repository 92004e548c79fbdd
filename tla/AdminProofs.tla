----------------------------- MODULE AdminProofs -----------------------------
(***************************************************************************)
(* Proofs about the table of users and the monitoring sessions, for any    *)
(* number of sessions, of names and of accounts.                           *)
(***************************************************************************)
EXTENDS Admin, SequenceTheorems, FiniteSetTheorems, TLAPS

-----------------------------------------------------------------------------
(* The table as an array *)

LEMMA TableShape ==
    ASSUME NEW t \in Seq(Account)
    PROVE  /\ Len(t) \in Nat /\ DOMAIN t = 1 .. Len(t)
           /\ \A i \in DOMAIN t : t[i] \in Account /\ t[i].name \in Name /\ t[i].pass \in Pass
<1>1. Len(t) \in Nat /\ DOMAIN t = 1 .. Len(t)
    BY LenProperties
<1>2. \A i \in DOMAIN t : t[i] \in Account
    BY <1>1, ElementOfSeq
<1> QED
    BY <1>1, <1>2 DEF Account

LEMMA Below ==
    ASSUME NEW a \in Nat, NEW b \in Nat, a <= b, a # b
    PROVE  a < b
OBVIOUS

(* add_user leaves the table alone or appends one account that fits. *)
LEMMA AddUserAppends ==
    ASSUME NEW t \in Seq(Account), NEW n \in Name, NEW p \in Pass, Sound(t)
    PROVE  LET u == AddUser(t, n, p) IN
           /\ u \in Seq(Account) /\ Sound(u)
           /\ \/ u = t /\ AddStatus(t, n, p) # 0
              \/ /\ AddStatus(t, n, p) = 0
                 /\ n \notin Names(t) /\ Len(t) < MaxUsers
                 /\ {u[i] : i \in DOMAIN u}
                      = {t[i] : i \in DOMAIN t} \cup {[name |-> n, pass |-> p]}
<1> DEFINE new == [name |-> n, pass |-> p]
           u == AddUser(t, n, p)
<1>1. CASE AddStatus(t, n, p) # 0
    BY <1>1 DEF AddUser
<1>2. CASE AddStatus(t, n, p) = 0
    <2>1. n \notin Names(t) /\ Len(t) # MaxUsers /\ n \notin TooLong /\ p \notin TooLong
        BY <1>2 DEF AddStatus
    <2>2. Len(t) \in Nat /\ DOMAIN t = 1 .. Len(t)
        BY TableShape
    <2>3. Len(t) < MaxUsers
        <3>1. Len(t) <= MaxUsers
            BY DEF Sound
        <3> QED
            BY <2>1, <2>2, <3>1, MaxUsersAssumption, Below
    <2>4. new \in Account
        BY DEF Account
    <2>5. u = Append(t, new)
        BY <1>2 DEF AddUser
    <2>6. /\ u \in Seq(Account) /\ Len(u) = Len(t) + 1
          /\ \A i \in 1 .. Len(t) : u[i] = t[i]
          /\ u[Len(t) + 1] = new
        BY <2>4, <2>5, AppendProperties
    <2>7. DOMAIN u = DOMAIN t \cup {Len(t) + 1} /\ Len(t) + 1 \notin DOMAIN t
        BY <2>2, <2>6, TableShape
    <2>8. \A i \in DOMAIN t : u[i] = t[i] /\ t[i].name # n
        BY <2>1, <2>2, <2>6 DEF Names
    <2> HIDE DEF u
    <2>9. new.name = n /\ new.pass = p
        OBVIOUS
    <2> HIDE DEF new
    <2>10. Sound(u)
        <3>1. Len(u) <= MaxUsers
            BY <2>2, <2>3, <2>6, MaxUsersAssumption
        <3>2. ASSUME NEW i \in DOMAIN u, NEW j \in DOMAIN u, u[i].name = u[j].name
              PROVE  i = j
            BY <3>2, <2>6, <2>7, <2>8, <2>9 DEF Sound
        <3>3. \A i \in DOMAIN u : u[i].name \notin TooLong /\ u[i].pass \notin TooLong
            BY <2>1, <2>6, <2>7, <2>8, <2>9 DEF Sound
        <3> QED
            BY <3>1, <3>2, <3>3 DEF Sound
    <2>11. {u[i] : i \in DOMAIN u} = {t[i] : i \in DOMAIN t} \cup {new}
        BY <2>6, <2>7, <2>8
    <2> QED
        BY <1>2, <2>1, <2>3, <2>6, <2>10, <2>11 DEF u, new
<1> QED
    BY <1>1, <1>2

(* delete_user: the shift drops the account of that name and no other. *)
LEMMA DeleteUserShifts ==
    ASSUME NEW t \in Seq(Account), NEW n, Sound(t)
    PROVE  LET u == DeleteUser(t, n) IN
           /\ u \in Seq(Account) /\ Sound(u)
           /\ \/ u = t /\ n \notin Names(t)
              \/ /\ n \in Names(t)
                 /\ {u[i] : i \in DOMAIN u}
                      = {acc \in {t[i] : i \in DOMAIN t} : acc.name # n}
<1> DEFINE u == DeleteUser(t, n)
           k == Place(t, n)
           Up(j) == IF j < k THEN j ELSE j + 1
<1>1. CASE n \notin Names(t)
    BY <1>1 DEF DeleteUser
<1>2. CASE n \in Names(t)
    <2>1. Len(t) \in Nat /\ DOMAIN t = 1 .. Len(t) /\ \A i \in DOMAIN t : t[i] \in Account
        BY TableShape
    <2>2. k \in DOMAIN t /\ t[k].name = n
        BY <1>2 DEF Place, Names
    <2>3. u = [j \in 1 .. Len(t) - 1 |-> IF j < k THEN t[j] ELSE t[j + 1]]
        BY <1>2 DEF DeleteUser
    <2> HIDE DEF u, k
    <2>4. Len(t) - 1 \in Nat /\ k \in Nat
        BY <2>1, <2>2
    <2>5. DOMAIN u = 1 .. Len(t) - 1 /\ \A j \in DOMAIN u : u[j] = t[Up(j)]
        BY <2>3
    <2>6. \A j \in DOMAIN u : Up(j) \in DOMAIN t /\ Up(j) # k
        BY <2>1, <2>4, <2>5
    <2>7. \A i, j \in DOMAIN u : Up(i) = Up(j) => i = j
        BY <2>4, <2>5
    <2>8. \A i \in DOMAIN t : i # k => \E j \in DOMAIN u : Up(j) = i
        <3> SUFFICES ASSUME NEW i \in DOMAIN t, i # k
                     PROVE  \E j \in DOMAIN u : Up(j) = i
            OBVIOUS
        <3>1. CASE i < k
            BY <3>1, <2>1, <2>2, <2>4, <2>5
        <3>2. CASE i > k
            <4>1. i - 1 \in DOMAIN u /\ Up(i - 1) = i
                BY <3>2, <2>1, <2>2, <2>4, <2>5
            <4> QED
                BY <4>1
        <3> QED
            BY <3>1, <3>2, <2>1, <2>4
    <2>9. u \in Seq(Account) /\ Len(u) = Len(t) - 1
        <3>1. u \in [1 .. Len(t) - 1 -> Account]
            BY <2>1, <2>3, <2>5, <2>6
        <3> QED
            BY <3>1, <2>4, SeqDef, LenProperties
    <2> HIDE DEF Up
    <2>10. Sound(u)
        <3>1. Len(u) <= MaxUsers
            BY <2>1, <2>9, MaxUsersAssumption DEF Sound
        <3>2. \A i, j \in DOMAIN u : u[i].name = u[j].name => i = j
            BY <2>5, <2>6, <2>7 DEF Sound
        <3>3. \A i \in DOMAIN u : u[i].name \notin TooLong /\ u[i].pass \notin TooLong
            BY <2>5, <2>6 DEF Sound
        <3> QED
            BY <3>1, <3>2, <3>3 DEF Sound
    <2>11. \A i \in DOMAIN t : t[i].name = n => i = k
        BY <2>2 DEF Sound
    <2>12. \A j \in DOMAIN u : u[j] \in {acc \in {t[i] : i \in DOMAIN t} : acc.name # n}
        BY <2>5, <2>6, <2>11
    <2>13. \A i \in DOMAIN t : t[i].name # n => \E j \in DOMAIN u : u[j] = t[i]
        BY <2>2, <2>5, <2>8
    <2>14. {u[i] : i \in DOMAIN u} = {acc \in {t[i] : i \in DOMAIN t} : acc.name # n}
        BY <2>12, <2>13
    <2> QED
        BY <1>2, <2>9, <2>10, <2>14 DEF u
<1> QED
    BY <1>1, <1>2

(* A sound table has as many accounts as places in use. *)
LEMMA AccountsCounted ==
    ASSUME NEW t \in Seq(Account), Sound(t)
    PROVE  Cardinality({t[i] : i \in DOMAIN t}) = Len(t)
<1> DEFINE S == {t[i] : i \in DOMAIN t}
<1>1. Len(t) \in Nat /\ DOMAIN t = 1 .. Len(t) /\ t = [i \in DOMAIN t |-> t[i]]
    BY TableShape, LenProperties
<1>2. \A i, j \in 1 .. Len(t) : t[i] = t[j] => i = j
    BY <1>1 DEF Sound
<1>3. t \in [1 .. Len(t) -> S] /\ \A y \in S : \E i \in 1 .. Len(t) : t[i] = y
    BY <1>1
<1>4. t \in Injection(1 .. Len(t), S) /\ t \in Surjection(1 .. Len(t), S)
    BY <1>2, <1>3 DEF Injection, IsInjective, Surjection
<1>5. t \in Bijection(1 .. Len(t), S)
    BY <1>4 DEF Bijection
<1>6. ExistsBijection(1 .. Len(t), S)
    BY <1>5 DEF ExistsBijection
<1> QED
    BY <1>1, <1>6, FS_CountingElements

-----------------------------------------------------------------------------
(* The sessions *)

(* The inductive invariant.  A reply is paired with its command only if a  *)
(* session that is not answering holds no reply at all: SessionShape says  *)
(* so of the states before COMMANDS, where RepliesPaired says nothing.     *)
SessionShape ==
    \A a \in Session :
        /\ session[a].st \in {"CLOSED", "GREETING", "AUTH"} => session[a].stored = <<>>
        /\ session[a].st = "GREETING" => session[a].interest = {OP_WRITE}
        /\ session[a].st = "AUTH" => session[a].interest = {OP_READ}
        /\ session[a].st = "COMMANDS" => session[a].interest \in {{OP_READ}, {OP_WRITE}}

IInv == TypeOK /\ TableSound /\ RepliesPaired /\ SessionShape

SessionRecord ==
    [st : {"CLOSED", "GREETING", "AUTH", "COMMANDS"},
     state : {"GREETING", "AUTH", "COMMANDS", "ADONE"},
     interest : SUBSET {OP_READ, OP_WRITE}, stored : Seq(Reply)]

(* What one session must look like; the two invariants above are about one *)
(* session at a time, so a step has to be looked at for its own only.      *)
WellFormed(rec, r) ==
    /\ rec \in SessionRecord
    /\ rec.st \in {"CLOSED", "GREETING", "AUTH"} => rec.stored = <<>>
    /\ rec.st = "GREETING" => rec.interest = {OP_WRITE}
    /\ rec.st = "AUTH" => rec.interest = {OP_READ}
    /\ rec.st = "COMMANDS" =>
          \/ rec.interest = {OP_READ} /\ rec.stored = <<>>
          \/ /\ rec.interest = {OP_WRITE}
             /\ Len(rec.stored) = 1 /\ rec.stored[1].code = r.code

SessionsWellFormed ==
    /\ session = [a \in Session |-> session[a]]
    /\ \A a \in Session : WellFormed(session[a], asked[a])

Rest ==
    /\ proc \in {"serving", "aborted", "crashed", "killed"}
    /\ gone \in SUBSET Session
    /\ asked \in [Session -> Request \cup {NoRequest}]
    /\ told \in [Session -> {"nothing", "greeting", "refused", "granted", "reply", "farewell"}]
    /\ users \in Seq(Account)
    /\ disector \in BOOLEAN
    /\ Sound(users)

LEMMA Interests == OP_READ # OP_WRITE
BY DEF OP_READ, OP_WRITE

LEMMA InvariantSplits == IInv <=> SessionsWellFormed /\ Rest
<1>1. ASSUME IInv PROVE SessionsWellFormed /\ Rest
    <2>1. session \in [Session -> SessionRecord]
        BY <1>1 DEF IInv, TypeOK, SessionRecord
    <2>2. Rest
        BY <1>1 DEF IInv, TypeOK, Rest, TableSound
    <2>3. ASSUME NEW a \in Session PROVE WellFormed(session[a], asked[a])
        BY <1>1, <2>1, Interests DEF IInv, RepliesPaired, SessionShape, WellFormed
    <2> QED
        BY <2>1, <2>2, <2>3 DEF SessionsWellFormed
<1>2. ASSUME SessionsWellFormed, Rest PROVE IInv
    <2>1. session \in [Session -> SessionRecord]
        BY <1>2 DEF SessionsWellFormed, WellFormed
    <2>2. TypeOK /\ TableSound
        BY <1>2, <2>1 DEF Rest, TypeOK, SessionRecord, TableSound
    <2>3. RepliesPaired
        BY <1>2, Interests DEF SessionsWellFormed, WellFormed, RepliesPaired
    <2>4. SessionShape
        BY <1>2 DEF SessionsWellFormed, WellFormed, SessionShape
    <2> QED
        BY <2>2, <2>3, <2>4 DEF IInv
<1> QED
    BY <1>1, <1>2

LEMMA ClosedWellFormed == \A c : WellFormed(Closed, c)
<1>1. <<>> \in Seq(Reply)
    BY EmptySeq
<1> QED
    BY <1>1 DEF WellFormed, SessionRecord, Closed

LEMMA Requests ==
    ASSUME NEW r \in Request
    PROVE  /\ r.code \in Code \cup {"blank"}
           /\ r.code = "blank" => ReadsNull(r)
           /\ r.code = "ADD_USER" /\ r.user # None => r.user \in Name /\ r.pass \in Pass
BY DEF Request, ReadsNull

LEMMA InvariantInit == Init => IInv
<1> SUFFICES ASSUME Init PROVE SessionsWellFormed /\ Rest
    BY InvariantSplits
<1>1. SessionsWellFormed
    BY ClosedWellFormed DEF Init, SessionsWellFormed
<1>2. users \in Seq(Account)
    <2>1. PICK n \in 0 .. MaxUsers : users \in [1 .. n -> Account]
        BY DEF Init
    <2>2. n \in Nat
        BY MaxUsersAssumption
    <2> QED
        BY <2>1, <2>2, SeqDef
<1> QED
    BY <1>1, <1>2 DEF Init, Rest

(* A step that touches the record of one session. *)
LEMMA OneSession ==
    ASSUME SessionsWellFormed, NEW a \in Session, NEW rec,
           session' = [session EXCEPT ![a] = rec],
           \A b \in Session : b # a => asked'[b] = asked[b],
           WellFormed(rec, asked'[a])
    PROVE  SessionsWellFormed'
<1>1. \A b \in Session : session'[b] = IF b = a THEN rec ELSE session[b]
    BY DEF SessionsWellFormed
<1>2. session' = [b \in Session |-> session'[b]]
    BY DEF SessionsWellFormed
<1>3. ASSUME NEW b \in Session PROVE WellFormed(session'[b], asked'[b])
    BY <1>1 DEF SessionsWellFormed
<1> QED
    BY <1>2, <1>3 DEF SessionsWellFormed

(* What every action does to the users, and to the record of its session.  *)
LEMMA ParseCommandUsers ==
    ASSUME IInv, NEW r \in Request, NEW n, n = NewUsers(r)
    PROVE  /\ n \in Seq(Account) /\ Sound(n)
           /\ \/ n = users /\ (r.code \in {"ADD_USER", "DELETE_USER"} => ~ Accepted(r))
              \/ /\ r.code = "ADD_USER" /\ Accepted(r) /\ r.user \in Name /\ r.pass \in Pass
                 /\ r.user \notin Names(users) /\ Len(users) < MaxUsers
                 /\ {n[i] : i \in DOMAIN n}
                      = {users[i] : i \in DOMAIN users} \cup {[name |-> r.user, pass |-> r.pass]}
              \/ /\ r.code = "DELETE_USER" /\ Accepted(r) /\ r.user \in Names(users)
                 /\ {n[i] : i \in DOMAIN n}
                      = {acc \in {users[i] : i \in DOMAIN users} : acc.name # r.user}
<1>1. users \in Seq(Account) /\ Sound(users)
    BY DEF IInv, TypeOK, TableSound
<1>2. CASE r.code = "ADD_USER" /\ r.user # None
    <2> DEFINE u == AddUser(users, r.user, r.pass)
    <2>1. r.user \in Name /\ r.pass \in Pass
        BY <1>2, Requests
    <2>2. n = u /\ (Accepted(r) <=> AddStatus(users, r.user, r.pass) = 0)
        BY <1>2 DEF NewUsers, Accepted
    <2>3. /\ u \in Seq(Account) /\ Sound(u)
          /\ \/ u = users /\ AddStatus(users, r.user, r.pass) # 0
             \/ /\ AddStatus(users, r.user, r.pass) = 0
                /\ r.user \notin Names(users) /\ Len(users) < MaxUsers
                /\ {u[i] : i \in DOMAIN u}
                     = {users[i] : i \in DOMAIN users} \cup {[name |-> r.user, pass |-> r.pass]}
        BY <1>1, <2>1, AddUserAppends
    <2> HIDE DEF u
    <2> QED
        BY <1>2, <2>1, <2>2, <2>3
<1>3. CASE r.code = "DELETE_USER"
    <2> DEFINE u == DeleteUser(users, r.user)
    <2>1. n = u /\ (Accepted(r) <=> r.user \in Names(users))
        BY <1>3 DEF NewUsers, Accepted
    <2>2. /\ u \in Seq(Account) /\ Sound(u)
          /\ \/ u = users /\ r.user \notin Names(users)
             \/ /\ r.user \in Names(users)
                /\ {u[i] : i \in DOMAIN u}
                     = {acc \in {users[i] : i \in DOMAIN users} : acc.name # r.user}
        BY <1>1, DeleteUserShifts
    <2> HIDE DEF u
    <2> QED
        BY <1>3, <2>1, <2>2
<1>4. CASE ~ (r.code = "ADD_USER" /\ r.user # None) /\ r.code # "DELETE_USER"
    <2>1. n = users
        BY <1>4 DEF NewUsers
    <2>2. r.code = "ADD_USER" => ~ Accepted(r)
        BY <1>4 DEF Accepted
    <2> QED
        BY <1>1, <1>4, <2>1, <2>2
<1> QED
    BY <1>2, <1>3, <1>4

LEMMA InvariantStep == IInv /\ [Next]_vars => IInv'
<1> SUFFICES ASSUME IInv, [Next]_vars PROVE IInv'
    OBVIOUS
<1>0. SessionsWellFormed /\ Rest
    BY InvariantSplits
<1>1. ASSUME UNCHANGED vars PROVE SessionsWellFormed' /\ Rest'
    BY <1>0, <1>1 DEF vars, SessionsWellFormed, Rest
<1>2. ASSUME NEW a \in Session, Connect(a) PROVE SessionsWellFormed' /\ Rest'
    <2> DEFINE rec == [Closed EXCEPT !.st = "GREETING", !.interest = {OP_WRITE}]
    <2>1. WellFormed(rec, asked'[a])
        BY EmptySeq DEF WellFormed, SessionRecord, Closed
    <2>2. session' = [session EXCEPT ![a] = rec] /\ asked' = asked
        BY <1>2 DEF Connect
    <2> HIDE DEF rec
    <2>3. SessionsWellFormed'
        BY <1>0, <2>1, <2>2, OneSession
    <2> QED
        BY <1>0, <1>2, <2>3 DEF Connect, Rest
<1>3. ASSUME NEW a \in Session, Greet(a) PROVE SessionsWellFormed' /\ Rest'
    <2> DEFINE rec == [session[a] EXCEPT !.st = "AUTH", !.state = "AUTH", !.interest = {OP_READ}]
    <2>1. WellFormed(rec, asked'[a])
        BY <1>0, <1>3 DEF SessionsWellFormed, Greet, Writing, WellFormed, SessionRecord
    <2>2. session' = [session EXCEPT ![a] = rec] /\ asked' = asked
        BY <1>0, <1>3 DEF Greet, SessionsWellFormed
    <2> HIDE DEF rec
    <2>3. SessionsWellFormed'
        BY <1>0, <2>1, <2>2, OneSession
    <2> QED
        BY <1>0, <1>3, <2>3 DEF Greet, Rest
<1>4. ASSUME NEW a \in Session, Authenticate(a) PROVE SessionsWellFormed' /\ Rest'
    <2>1. PICK right \in BOOLEAN :
              /\ session' = [session EXCEPT ![a].st = AfterPassword(right),
                                            ![a].state = AfterPassword(right)]
              /\ told' = [told EXCEPT ![a] = IF right THEN "granted" ELSE "refused"]
        BY <1>4 DEF Authenticate
    <2> DEFINE rec == [session[a] EXCEPT !.st = AfterPassword(right), !.state = AfterPassword(right)]
    <2>2. AfterPassword(right) \in {"AUTH", "COMMANDS"}
        BY DEF AfterPassword
    <2>3. WellFormed(session[a], asked[a]) /\ session[a].st = "AUTH" /\ asked' = asked
        BY <1>0, <1>4 DEF SessionsWellFormed, Authenticate, Reading
    <2>4. WellFormed(rec, asked'[a])
        BY <2>2, <2>3 DEF WellFormed, SessionRecord
    <2>5. session' = [session EXCEPT ![a] = rec]
        BY <1>0, <2>1 DEF SessionsWellFormed
    <2> HIDE DEF rec
    <2>6. SessionsWellFormed'
        BY <1>0, <2>3, <2>4, <2>5, OneSession
    <2> QED
        BY <1>0, <1>4, <2>1, <2>6 DEF Authenticate, Rest
<1>5. ASSUME NEW a \in Session, ParseCommand(a) PROVE SessionsWellFormed' /\ Rest'
    <2>1. PICK r \in Request :
              /\ asked' = [asked EXCEPT ![a] = r]
              /\ IF TooManyArguments(r) \/ ReadsNull(r)
                 THEN /\ proc' = IF TooManyArguments(r) THEN "aborted" ELSE "crashed"
                      /\ UNCHANGED <<session, users, disector>>
                 ELSE /\ session' = [session EXCEPT
                            ![a].interest = InterestAfterCommand,
                            ![a].stored = Append(@, [ok |-> Accepted(r), code |-> r.code]),
                            ![a].state = IF r.code = "ADMIN_CLOSE_CONNECTION" THEN "ADONE"
                                         ELSE "COMMANDS"]
                      /\ users' = NewUsers(r)
                      /\ disector' = IF r.code = "DISECTOR_ACTIVATION" /\ Accepted(r)
                                     THEN r.sign = "+" ELSE disector
                      /\ proc' = proc
        BY <1>5 DEF ParseCommand
    <2>2. told' = told /\ gone' = gone /\ WellFormed(session[a], asked[a]) /\ asked'[a] = r
        BY <1>0, <1>5, <2>1 DEF ParseCommand, SessionsWellFormed, Rest
    <2>3. session[a].st = "COMMANDS" /\ session[a].interest = {OP_READ} /\ session[a].stored = <<>>
        BY <1>5, <2>2, Interests DEF ParseCommand, Reading, WellFormed
    <2>4. CASE TooManyArguments(r) \/ ReadsNull(r)
        <3>1. Rest'
            BY <1>0, <2>1, <2>2, <2>4, Requests DEF Rest
        <3>2. WellFormed(session[a], r)
            BY <2>2, <2>3 DEF WellFormed
        <3>3. session' = session /\ \A b \in Session : b # a => asked'[b] = asked[b]
            BY <1>0, <2>1, <2>4 DEF Rest
        <3>4. SessionsWellFormed'
            BY <1>0, <2>2, <3>2, <3>3 DEF SessionsWellFormed
        <3> QED
            BY <3>1, <3>4
    <2>5. CASE ~ (TooManyArguments(r) \/ ReadsNull(r))
        <3> DEFINE reply == [ok |-> Accepted(r), code |-> r.code]
                   state == IF r.code = "ADMIN_CLOSE_CONNECTION" THEN "ADONE" ELSE "COMMANDS"
                   rec == [session[a] EXCEPT !.interest = InterestAfterCommand,
                                             !.stored = Append(@, reply), !.state = state]
        <3>1. r.code \in Code
            BY <2>5, Requests
        <3>2. Accepted(r) \in BOOLEAN
            <4>1. CASE r.code = "unknown"
                BY <4>1 DEF Accepted
            <4>2. CASE r.code = "DISECTOR_ACTIVATION"
                BY <4>2 DEF Accepted
            <4>3. CASE r.code = "ADD_USER"
                BY <4>3 DEF Accepted
            <4>4. CASE r.code = "DELETE_USER"
                BY <4>4 DEF Accepted
            <4>5. CASE r.code \notin {"unknown", "DISECTOR_ACTIVATION", "ADD_USER", "DELETE_USER"}
                BY <4>5 DEF Accepted
            <4> QED
                BY <4>1, <4>2, <4>3, <4>4, <4>5
        <3>3. reply \in Reply /\ reply.code = r.code
            BY <3>1, <3>2 DEF Reply
        <3> HIDE DEF reply
        <3>4. /\ Append(<<>>, reply) \in Seq(Reply) /\ Len(Append(<<>>, reply)) = 1
              /\ Append(<<>>, reply)[1] = reply
            BY <3>3, EmptySeq, AppendProperties
        <3>5. rec.stored = Append(<<>>, reply)
            BY <2>2, <2>3 DEF WellFormed, SessionRecord
        <3>6. WellFormed(rec, asked'[a])
            <4>1. /\ rec \in SessionRecord /\ rec.st = "COMMANDS"
                  /\ rec.interest = {OP_WRITE}
                BY <2>2, <2>3, <3>4, <3>5 DEF WellFormed, SessionRecord, InterestAfterCommand
            <4> HIDE DEF rec
            <4> QED
                BY <2>2, <3>3, <3>4, <3>5, <4>1 DEF WellFormed
        <3>7. session' = [session EXCEPT ![a] = rec]
            BY <1>0, <2>1, <2>5 DEF SessionsWellFormed, reply
        <3> HIDE DEF rec
        <3>8. \A b \in Session : b # a => asked'[b] = asked[b]
            BY <1>0, <2>1 DEF Rest
        <3>9. SessionsWellFormed'
            BY <1>0, <3>6, <3>7, <3>8, OneSession
        <3>10. users' = NewUsers(r) /\ proc' = proc
            BY <2>1, <2>5
        <3>11. users' \in Seq(Account) /\ Sound(users)'
            <4>1. NewUsers(r) \in Seq(Account) /\ Sound(NewUsers(r))
                BY ParseCommandUsers
            <4> QED
                BY <3>10, <4>1
        <3>12. disector' \in BOOLEAN
            BY <1>0, <2>1, <2>5 DEF Rest
        <3>13. asked' \in [Session -> Request \cup {NoRequest}]
            BY <1>0, <2>1, <3>1 DEF Rest
        <3> QED
            BY <1>0, <2>2, <3>9, <3>10, <3>11, <3>12, <3>13 DEF Rest
    <2> QED
        BY <2>4, <2>5
<1>6. ASSUME NEW a \in Session, CommandResponse(a) PROVE SessionsWellFormed' /\ Rest'
    <2>1. Rest'
        BY <1>0, <1>6 DEF CommandResponse, Done, Rest
    <2>2. /\ WellFormed(session[a], asked[a]) /\ session[a].st = "COMMANDS"
          /\ \A b \in Session : b # a => asked'[b] = asked[b]
        BY <1>0, <1>6 DEF SessionsWellFormed, CommandResponse, Writing, Rest
    <2>3. CASE session[a].state = "ADONE"
        <3>1. session' = [session EXCEPT ![a] = Closed]
            BY <1>6, <2>3 DEF CommandResponse, Done
        <3> QED
            BY <1>0, <2>1, <2>2, <3>1, ClosedWellFormed, OneSession
    <2>4. CASE session[a].state # "ADONE"
        <3> DEFINE rec == [session[a] EXCEPT !.interest = {OP_READ}, !.stored = <<>>]
        <3>1. WellFormed(rec, asked'[a])
            BY <2>2, EmptySeq DEF WellFormed, SessionRecord
        <3>2. session' = [session EXCEPT ![a] = rec]
            BY <1>0, <1>6, <2>4 DEF CommandResponse, SessionsWellFormed
        <3> HIDE DEF rec
        <3> QED
            BY <1>0, <2>1, <2>2, <3>1, <3>2, OneSession
    <2> QED
        BY <2>3, <2>4
<1>7. ASSUME NEW a \in Session, Fails(a) PROVE SessionsWellFormed' /\ Rest'
    <2>1. Rest'
        BY <1>0, <1>7 DEF Fails, Done, Rest
    <2>2. /\ session' = [session EXCEPT ![a] = Closed]
          /\ \A b \in Session : b # a => asked'[b] = asked[b]
        BY <1>0, <1>7 DEF Fails, Done, Rest
    <2> QED
        BY <1>0, <2>1, <2>2, ClosedWellFormed, OneSession
<1>8. ASSUME NEW a \in Session, ClientLeaves(a) \/ Killed(a)
      PROVE  SessionsWellFormed' /\ Rest'
    <2>1. SessionsWellFormed'
        BY <1>0, <1>8 DEF ClientLeaves, Killed, SessionsWellFormed
    <2> QED
        BY <1>0, <1>8, <2>1 DEF ClientLeaves, Killed, Rest
<1>9. SessionsWellFormed' /\ Rest' => IInv'
    BY InvariantSplits, PTL
<1> QED
    BY <1>1, <1>2, <1>3, <1>4, <1>5, <1>6, <1>7, <1>8, <1>9 DEF Next

-----------------------------------------------------------------------------
(* The theorems *)

LEMMA InvariantHolds == Spec => []IInv
<1>1. Init => IInv
    BY InvariantInit
<1>2. IInv /\ [Next]_vars => IInv'
    BY InvariantStep
<1> QED
    BY <1>1, <1>2, PTL DEF Spec

(* Every reply waiting in a session is one of the protocol's, and every    *)
(* account of users.c is a user and a password.                            *)
THEOREM AdminTypeCorrect == Spec => []TypeOK
<1>1. IInv => TypeOK
    BY DEF IInv
<1> QED
    BY <1>1, InvariantHolds, PTL

(* Whatever add_user and delete_user any number of sessions interleave,    *)
(* the table never has a name twice, one too long or too many accounts.    *)
THEOREM TableStaysSound == Spec => []TableSound
<1>1. IInv => TableSound
    BY DEF IInv
<1> QED
    BY <1>1, InvariantHolds, PTL

(* A session that is to be written to holds exactly one reply, with the    *)
(* code of the command it read; one that is to be read from holds none.    *)
THEOREM EveryReplyHasItsCommand == Spec => []RepliesPaired
<1>1. IInv => RepliesPaired
    BY DEF IInv
<1> QED
    BY <1>1, InvariantHolds, PTL


(* The instance of Accounts has its own copy of Cardinality. *)
LEMMA SameCardinality == \A S : AccountsView!Cardinality(S) = Cardinality(S)
BY Zenon DEF Cardinality, AccountsView!Cardinality

View == {users[i] : i \in DOMAIN users}
Answers == [a \in Session |-> Verdict(a)]
Silent == [op |-> "none", user |-> None, pass |-> None, ok |-> FALSE]

(* The abstract state, in terms of the table. *)
LEMMA ViewOfTable ==
    ASSUME IInv
    PROVE  /\ users \in Seq(Account) /\ Len(users) \in Nat /\ Len(users) <= MaxUsers
           /\ View \subseteq Account /\ \A x, y \in View : x.name = y.name => x = y
           /\ Names(users) = AccountsView!Taken /\ Names(users) \subseteq Name
           /\ AccountsView!Cardinality(View) = Len(users)
<1>1. users \in Seq(Account) /\ Sound(users)
    BY DEF IInv, TypeOK, TableSound
<1>2. /\ Len(users) \in Nat
      /\ \A i \in DOMAIN users : users[i] \in Account /\ users[i].name \in Name
    BY <1>1, TableShape
<1>3. Names(users) = AccountsView!Taken
    BY DEF Names, AccountsView!Taken
<1>4. Names(users) \subseteq Name
    BY <1>2 DEF Names
<1>5. AccountsView!Cardinality(View) = Len(users)
    BY <1>1, AccountsCounted, SameCardinality DEF View
<1>6. View \subseteq Account /\ \A x, y \in View : x.name = y.name => x = y
    BY <1>1, <1>2 DEF Sound, View
<1> QED
    BY <1>1, <1>2, <1>3, <1>4, <1>5, <1>6 DEF Sound

(* What a session is told depends on its own request and reply only. *)
LEMMA OneVerdict ==
    ASSUME NEW a \in Session,
           \A b \in Session : b # a => session'[b] = session[b] /\ asked'[b] = asked[b]
    PROVE  Answers' = [Answers EXCEPT ![a] = Verdict(a)']
<1>1. \A b \in Session : b # a => Verdict(b)' = Verdict(b)
    BY DEF Verdict
<1>2. Answers' = [b \in Session |-> Verdict(b)']
    BY DEF Answers
<1> QED
    BY <1>1, <1>2 DEF Answers

LEMMA NothingToTell ==
    ASSUME NEW a \in Session
    PROVE  session[a].stored = <<>> => Verdict(a) = Silent
BY DEF Verdict, Silent

(* A session that answers nothing any more, or still nothing. *)
LEMMA Releases ==
    ASSUME NEW a \in Session, session'[a].stored = <<>>, users' = users,
           \A b \in Session : b # a => session'[b] = session[b] /\ asked'[b] = asked[b]
    PROVE  [AccountsView!Next]_<<View, Answers>>
<1>1. Verdict(a)' = Silent
    BY DEF Verdict, Silent
<1>2. Answers' = [Answers EXCEPT ![a] = Silent]
    BY <1>1, OneVerdict
<1>3. View' = View
    BY DEF View
<1>4. CASE Answers[a] = Silent
    BY <1>2, <1>3, <1>4 DEF Answers
<1>5. CASE Answers[a] # Silent
    <2>1. AccountsView!Release(a)
        BY <1>2, <1>3, <1>5 DEF AccountsView!Release, AccountsView!Silent, Silent, Answers, View
    <2>2. Answers'[a] # Answers[a]
        BY <1>2, <1>5 DEF Answers
    <2> QED
        BY <2>1, <2>2 DEF AccountsView!Next, Answers
<1> QED
    BY <1>4, <1>5

(* Whatever the answer, the client had none before. *)
LEMMA AnswersAreNew ==
    ASSUME NEW a \in Session, NEW op \in {"add", "delete"}, NEW n, NEW p, NEW ok,
           AccountsView!Answered(a, op, n, p, ok)
    PROVE  Answers'[a] # Answers[a]
<1> DEFINE told1 == [op |-> op, user |-> n, pass |-> p, ok |-> ok]
<1>1. Answers[a] = Silent /\ Answers' = [Answers EXCEPT ![a] = told1]
    BY DEF AccountsView!Answered, AccountsView!Silent, Silent, Answers
<1>2. Answers'[a] = told1
    BY <1>1 DEF Answers
<1>3. told1.op # Silent.op
    BY DEF Silent
<1> QED
    BY <1>1, <1>2, <1>3

(* ParseCommand answers with an Add, a Delete or a refusal, or says        *)
(* nothing of any account.                                                 *)
LEMMA ParseCommandIsCall ==
    ASSUME IInv, NEW a \in Session, ParseCommand(a)
    PROVE  [AccountsView!Next]_<<View, Answers>>
<1> DEFINE answered(op, r) == [op |-> op, user |-> r.user, pass |-> r.pass, ok |-> Accepted(r)]
<1>1. PICK r \in Request :
          /\ asked' = [asked EXCEPT ![a] = r]
          /\ IF TooManyArguments(r) \/ ReadsNull(r)
             THEN UNCHANGED <<session, users, disector>>
             ELSE /\ session' = [session EXCEPT
                        ![a].interest = InterestAfterCommand,
                        ![a].stored = Append(@, [ok |-> Accepted(r), code |-> r.code]),
                        ![a].state = IF r.code = "ADMIN_CLOSE_CONNECTION" THEN "ADONE"
                                     ELSE "COMMANDS"]
                  /\ users' = NewUsers(r)
    BY DEF ParseCommand
<1>2. /\ session \in [Session -> SessionRecord] /\ asked \in [Session -> Request \cup {NoRequest}]
      /\ session[a].stored = <<>>
    <2>1. session[a].st = "COMMANDS" /\ OP_READ \in session[a].interest
        BY DEF ParseCommand, Reading
    <2>2. OP_WRITE \notin session[a].interest
        BY <2>1, Interests DEF IInv, SessionShape
    <2>3. session[a].stored = <<>>
        BY <2>1, <2>2 DEF IInv, RepliesPaired
    <2> QED
        BY <2>3 DEF IInv, TypeOK, SessionRecord
<1>3. asked'[a] = r /\ \A b \in Session : b # a => asked'[b] = asked[b]
    BY <1>1, <1>2
<1>4. CASE TooManyArguments(r) \/ ReadsNull(r)
    BY <1>1, <1>2, <1>3, <1>4, Releases
<1>5. CASE ~ (TooManyArguments(r) \/ ReadsNull(r))
    <2> DEFINE reply == [ok |-> Accepted(r), code |-> r.code]
    <2>1. /\ session'[a].stored = Append(<<>>, reply)
          /\ \A b \in Session : b # a => session'[b] = session[b]
        BY <1>1, <1>2, <1>5 DEF SessionRecord
    <2>2. Append(<<>>, reply) # <<>> /\ Append(<<>>, reply)[1] = reply
        OBVIOUS
    <2>3. session'[a].stored # <<>> /\ session'[a].stored[1].ok = Accepted(r)
        BY <2>1, <2>2
    <2>4. /\ r.code = "ADD_USER" => Verdict(a)' = answered("add", r)
          /\ r.code = "DELETE_USER" => Verdict(a)' = answered("delete", r)
          /\ r.code \notin {"ADD_USER", "DELETE_USER"} => Verdict(a)' = Silent
        BY <1>3, <2>3 DEF Verdict, Silent
    <2>5. Answers' = [Answers EXCEPT ![a] = Verdict(a)'] /\ Answers[a] = Silent
        BY <1>2, <1>3, <2>1, OneVerdict, NothingToTell DEF Answers
    <2> DEFINE n == NewUsers(r)
    <2>6. /\ r.code \in Code /\ r.user \in Name \cup {None} /\ r.pass \in Pass \cup {None}
          /\ r.code = "DELETE_USER" => r.pass = None
        BY <1>5, Requests DEF Request
    <2>7. users' = n /\ View' = {n[i] : i \in DOMAIN n}
        BY <1>1, <1>5 DEF View
    <2>8. \/ n = users /\ (r.code \in {"ADD_USER", "DELETE_USER"} => ~ Accepted(r))
          \/ /\ r.code = "ADD_USER" /\ Accepted(r) /\ r.user \in Name /\ r.pass \in Pass
             /\ r.user \notin Names(users) /\ Len(users) < MaxUsers
             /\ {n[i] : i \in DOMAIN n} = View \cup {[name |-> r.user, pass |-> r.pass]}
          \/ /\ r.code = "DELETE_USER" /\ Accepted(r) /\ r.user \in Names(users)
             /\ {n[i] : i \in DOMAIN n} = {acc \in View : acc.name # r.user}
        BY ParseCommandUsers DEF View
    <2>9. Accepted(r) \in BOOLEAN \/ r.code \notin {"ADD_USER", "DELETE_USER"}
        <3>1. CASE r.code = "ADD_USER"
            BY <3>1 DEF Accepted
        <3>2. CASE r.code = "DELETE_USER"
            BY <3>2 DEF Accepted
        <3> QED
            BY <3>1, <3>2
    <2> HIDE DEF n, answered
    <2>10. CASE n = users /\ r.code \notin {"ADD_USER", "DELETE_USER"}
        <3>1. Answers' = [Answers EXCEPT ![a] = Answers[a]]
            BY <2>4, <2>5, <2>10
        <3>2. View' = View /\ Answers' = Answers
            BY <2>7, <2>10, <3>1 DEF View, Answers
        <3> QED
            BY <3>2
    <2>11. CASE n = users /\ r.code = "ADD_USER" /\ ~ Accepted(r)
        <3>1. Accepted(r) = FALSE
            BY <2>9, <2>11
        <3>2. \/ r.user \in Names(users) \cup TooLong \cup {None} \/ r.pass \in TooLong
              \/ Len(users) = MaxUsers
            BY <2>11 DEF Accepted, AddStatus
        <3>3. View' = View
            BY <2>7, <2>11 DEF View
        <3>4. AccountsView!Answered(a, "add", r.user, r.pass, FALSE)
            BY <2>4, <2>5, <2>11, <3>1
            DEF AccountsView!Answered, AccountsView!Silent, Silent, Answers, answered
        <3>5. \/ r.user \in AccountsView!Taken \cup TooLong \cup {None} \/ r.pass \in TooLong
              \/ AccountsView!Cardinality(View) = MaxUsers
            BY <3>2, ViewOfTable
        <3>6. AccountsView!RefuseAdd(a, r.user, r.pass)
            BY <3>3, <3>4, <3>5 DEF AccountsView!RefuseAdd, View
        <3> QED
            BY <2>6, <3>4, <3>6, AnswersAreNew DEF AccountsView!Next, Answers
    <2>12. CASE n = users /\ r.code = "DELETE_USER" /\ ~ Accepted(r)
        <3>1. Accepted(r) = FALSE /\ r.user \notin Names(users) /\ r.pass = None
            BY <2>6, <2>9, <2>12 DEF Accepted
        <3>2. View' = View
            BY <2>7, <2>12 DEF View
        <3>3. AccountsView!Answered(a, "delete", r.user, None, FALSE)
            BY <2>4, <2>5, <2>12, <3>1
            DEF AccountsView!Answered, AccountsView!Silent, Silent, Answers, answered
        <3>4. AccountsView!RefuseDelete(a, r.user)
            BY <3>1, <3>2, <3>3, ViewOfTable DEF AccountsView!RefuseDelete, View
        <3> QED
            BY <2>6, <3>3, <3>4, AnswersAreNew DEF AccountsView!Next, Answers
    <2>13. CASE /\ r.code = "ADD_USER" /\ Accepted(r) /\ r.user \in Name /\ r.pass \in Pass
                /\ r.user \notin Names(users) /\ Len(users) < MaxUsers
                /\ {n[i] : i \in DOMAIN n} = View \cup {[name |-> r.user, pass |-> r.pass]}
        <3>1. Accepted(r) = TRUE
            BY <2>9, <2>13
        <3>2. AccountsView!Add(a, r.user, r.pass)
            BY <2>4, <2>5, <2>7, <2>13, <3>1, ViewOfTable
            DEF AccountsView!Add, AccountsView!Answered, AccountsView!Silent, Silent,
                Answers, View, answered
        <3>3. Answers'[a] # Answers[a]
            BY <3>2, AnswersAreNew DEF AccountsView!Add
        <3> QED
            BY <2>13, <3>2, <3>3 DEF AccountsView!Next, Answers
    <2>14. CASE /\ r.code = "DELETE_USER" /\ Accepted(r) /\ r.user \in Names(users)
                /\ {n[i] : i \in DOMAIN n} = {acc \in View : acc.name # r.user}
        <3>1. Accepted(r) = TRUE /\ r.pass = None /\ r.user \in Name
            BY <2>6, <2>9, <2>14, ViewOfTable
        <3>2. AccountsView!Delete(a, r.user)
            BY <2>4, <2>5, <2>7, <2>14, <3>1, ViewOfTable
            DEF AccountsView!Delete, AccountsView!Answered, AccountsView!Silent, Silent,
                Answers, View, answered
        <3>3. Answers'[a] # Answers[a]
            BY <3>2, AnswersAreNew DEF AccountsView!Delete
        <3> QED
            BY <3>1, <3>2, <3>3 DEF AccountsView!Next, Answers
    <2> QED
        BY <2>8, <2>10, <2>11, <2>12, <2>13, <2>14
<1> QED
    BY <1>4, <1>5

(* The array of users.c, with the shift of delete_user, implements the set *)
(* of accounts: what its clients are told is what has become of the set.   *)
THEOREM UsersAreAccounts == Spec => AccountsSpec
<1>1. Init => AccountsView!Init
    <2> SUFFICES ASSUME Init PROVE AccountsView!Init
        OBVIOUS
    <2>1. IInv
        BY InvariantInit
    <2>2. \A a \in Session : session[a].stored = <<>>
        BY DEF Init, Closed
    <2>3. Answers = [a \in Session |-> Silent]
        BY <2>2, NothingToTell DEF Answers
    <2> QED
        BY <2>1, <2>3, ViewOfTable
        DEF AccountsView!Init, AccountsView!Silent, Silent, View, Answers, Account
<1>2. IInv /\ [Next]_vars => [AccountsView!Next]_<<View, Answers>>
    <2> SUFFICES ASSUME IInv, [Next]_vars PROVE [AccountsView!Next]_<<View, Answers>>
        OBVIOUS
    <2>1. CASE UNCHANGED vars
        BY <2>1 DEF vars, View, Answers, Verdict
    <2>2. CASE \E a \in Session : ClientLeaves(a) \/ Killed(a)
        BY <2>2 DEF ClientLeaves, Killed, View, Answers, Verdict
    <2>3. ASSUME NEW a \in Session,
                 Connect(a) \/ Greet(a) \/ Authenticate(a) \/ CommandResponse(a) \/ Fails(a)
          PROVE  [AccountsView!Next]_<<View, Answers>>
        <3>1. session \in [Session -> SessionRecord] /\ asked \in [Session -> Request \cup {NoRequest}]
            BY DEF IInv, TypeOK, SessionRecord
        <3>2. /\ users' = users
              /\ \A b \in Session : b # a => session'[b] = session[b] /\ asked'[b] = asked[b]
            BY <2>3, <3>1 DEF Connect, Greet, Authenticate, CommandResponse, Fails, Done
        <3>3. session'[a].stored = <<>>
            <4>1. CASE Connect(a)
                BY <3>1, <4>1 DEF Connect, Closed
            <4>2. CASE Greet(a)
                BY <3>1, <4>2 DEF Greet, Writing, IInv, SessionShape, SessionRecord
            <4>3. CASE Authenticate(a)
                BY <3>1, <4>3 DEF Authenticate, Reading, IInv, SessionShape, SessionRecord
            <4>4. CASE CommandResponse(a)
                BY <3>1, <4>4 DEF CommandResponse, Done, Closed, SessionRecord
            <4>5. CASE Fails(a)
                BY <3>1, <4>5 DEF Fails, Done, Closed
            <4> QED
                BY <2>3, <4>1, <4>2, <4>3, <4>4, <4>5
        <3> QED
            BY <3>2, <3>3, Releases
    <2> QED
        BY <2>1, <2>2, <2>3, ParseCommandIsCall DEF Next
<1>3. AccountsView!Spec <=> AccountsView!Init /\ [][AccountsView!Next]_<<View, Answers>>
    BY DEF AccountsView!Spec, View, Answers
<1> QED
    BY <1>1, <1>2, <1>3, InvariantHolds, PTL DEF Spec, AccountsSpec

-----------------------------------------------------------------------------
(* What a client was last sent goes with where its session is. *)
SaidInv ==
    \A a \in Session :
        /\ session[a].st = "GREETING" => told[a] = "nothing"
        /\ session[a].st = "AUTH" => told[a] \in {"greeting", "refused"}
        /\ session[a].st = "COMMANDS" => told[a] \in {"granted", "reply"}

LEMMA SaidInit == Init => SaidInv
BY DEF Init, SaidInv, Closed

(* One session goes to st and is sent m; the others stay as they are. *)
LEMMA OneSays ==
    ASSUME IInv, SaidInv, NEW a \in Session, NEW rec, NEW m,
           session' = [session EXCEPT ![a] = rec], told' = [told EXCEPT ![a] = m],
           rec.st = "GREETING" => m = "nothing",
           rec.st = "AUTH" => m \in {"greeting", "refused"},
           rec.st = "COMMANDS" => m \in {"granted", "reply"},
           m # told[a] => MayFollow(told[a], m)
    PROVE  /\ SaidInv'
           /\ \A b \in Session : told'[b] # told[b] => MayFollow(told[b], told'[b])
<1>1. /\ session \in [Session -> SessionRecord]
      /\ told \in [Session -> {"nothing", "greeting", "refused", "granted", "reply", "farewell"}]
    BY DEF IInv, TypeOK, SessionRecord
<1>2. /\ session'[a] = rec /\ told'[a] = m
      /\ \A b \in Session : b # a => session'[b] = session[b] /\ told'[b] = told[b]
    BY <1>1
<1>3. SaidInv'
    <2> SUFFICES ASSUME NEW b \in Session
                 PROVE  /\ session'[b].st = "GREETING" => told'[b] = "nothing"
                        /\ session'[b].st = "AUTH" => told'[b] \in {"greeting", "refused"}
                        /\ session'[b].st = "COMMANDS" => told'[b] \in {"granted", "reply"}
        BY DEF SaidInv
    <2>1. CASE b = a
        BY <1>2, <2>1
    <2>2. CASE b # a
        BY <1>2, <2>2 DEF SaidInv
    <2> QED
        BY <2>1, <2>2
<1>4. ASSUME NEW b \in Session, told'[b] # told[b] PROVE MayFollow(told[b], told'[b])
    <2>1. b = a
        BY <1>2, <1>4
    <2> QED
        BY <1>2, <1>4, <2>1
<1> QED
    BY <1>3, <1>4

(* A session whose commands change nothing of where it is. *)
LEMMA NobodySays ==
    ASSUME SaidInv, told' = told,
           \A b \in Session : session'[b].st \in {session[b].st, "CLOSED"}
    PROVE  /\ SaidInv'
           /\ \A b \in Session : told'[b] # told[b] => MayFollow(told[b], told'[b])
BY DEF SaidInv

LEMMA SaidStep ==
    ASSUME IInv, SaidInv, [Next]_vars
    PROVE  /\ SaidInv'
           /\ \A b \in Session : told'[b] # told[b] => MayFollow(told[b], told'[b])
<1> DEFINE Goal == /\ SaidInv'
                   /\ \A b \in Session : told'[b] # told[b] => MayFollow(told[b], told'[b])
<1>0. session \in [Session -> SessionRecord] /\ session = [b \in Session |-> session[b]]
    BY DEF IInv, TypeOK, SessionRecord
<1>1. ASSUME NEW a \in Session, Connect(a) PROVE Goal
    <2> DEFINE rec == [Closed EXCEPT !.st = "GREETING", !.interest = {OP_WRITE}]
    <2>1. rec.st = "GREETING" /\ MayFollow(told[a], "nothing")
        BY DEF Closed, MayFollow
    <2>2. session' = [session EXCEPT ![a] = rec] /\ told' = [told EXCEPT ![a] = "nothing"]
        BY <1>1 DEF Connect
    <2> HIDE DEF rec
    <2> QED
        BY <2>1, <2>2, OneSays
<1>2. ASSUME NEW a \in Session, Greet(a) PROVE Goal
    <2> DEFINE rec == [session[a] EXCEPT !.st = "AUTH", !.state = "AUTH", !.interest = {OP_READ}]
    <2>1. session[a].st = "GREETING" /\ told' = [told EXCEPT ![a] = "greeting"]
        BY <1>2 DEF Greet, Writing
    <2>2. rec.st = "AUTH" /\ session' = [session EXCEPT ![a] = rec]
        BY <1>0, <1>2 DEF Greet, SessionRecord
    <2>3. MayFollow(told[a], "greeting")
        BY <2>1 DEF SaidInv, MayFollow
    <2> HIDE DEF rec
    <2> QED
        BY <2>1, <2>2, <2>3, OneSays
<1>3. ASSUME NEW a \in Session, Authenticate(a) PROVE Goal
    <2>1. PICK right \in BOOLEAN :
              /\ session' = [session EXCEPT ![a].st = AfterPassword(right),
                                            ![a].state = AfterPassword(right)]
              /\ told' = [told EXCEPT ![a] = IF right THEN "granted" ELSE "refused"]
        BY <1>3 DEF Authenticate
    <2> DEFINE rec == [session[a] EXCEPT !.st = AfterPassword(right), !.state = AfterPassword(right)]
               m == IF right THEN "granted" ELSE "refused"
    <2>2. session[a].st = "AUTH" /\ told' = [told EXCEPT ![a] = m]
        BY <1>3, <2>1 DEF Authenticate, Reading
    <2>3. rec.st = AfterPassword(right) /\ session' = [session EXCEPT ![a] = rec]
        BY <1>0, <2>1 DEF SessionRecord
    <2>4. MayFollow(told[a], m)
        BY <2>2 DEF SaidInv, MayFollow
    <2>5. /\ AfterPassword(right) = "AUTH" => m = "refused"
          /\ AfterPassword(right) = "COMMANDS" => m = "granted"
          /\ AfterPassword(right) \in {"AUTH", "COMMANDS"}
        BY DEF AfterPassword
    <2> HIDE DEF rec, m
    <2> QED
        BY <2>2, <2>3, <2>4, <2>5, OneSays
<1>4. ASSUME NEW a \in Session, ParseCommand(a) PROVE Goal
    <2>1. told' = told
        BY <1>4 DEF ParseCommand
    <2>2. ASSUME NEW b \in Session PROVE session'[b].st = session[b].st
        <3>1. CASE session' = session
            BY <3>1
        <3>2. CASE session' # session
            <4>1. PICK r \in Request :
                      session' = [session EXCEPT
                          ![a].interest = InterestAfterCommand,
                          ![a].stored = Append(@, [ok |-> Accepted(r), code |-> r.code]),
                          ![a].state = IF r.code = "ADMIN_CLOSE_CONNECTION" THEN "ADONE"
                                       ELSE "COMMANDS"]
                BY <1>4, <3>2 DEF ParseCommand
            <4> DEFINE state == IF r.code = "ADMIN_CLOSE_CONNECTION" THEN "ADONE" ELSE "COMMANDS"
                       reply == [ok |-> Accepted(r), code |-> r.code]
                       rec == [session[a] EXCEPT !.interest = InterestAfterCommand,
                                                 !.stored = Append(@, reply), !.state = state]
            <4> HIDE DEF reply
            <4>2. session' = [session EXCEPT ![a] = rec]
                BY <1>0, <4>1 DEF reply
            <4>3. rec.st = session[a].st
                BY <1>0 DEF SessionRecord
            <4> HIDE DEF rec
            <4> QED
                BY <1>0, <4>2, <4>3
        <3> QED
            BY <3>1, <3>2
    <2> QED
        BY <2>1, <2>2, NobodySays
<1>5. ASSUME NEW a \in Session, CommandResponse(a) PROVE Goal
    <2> DEFINE last == session[a].state = "ADONE"
               rec == IF last THEN Closed
                      ELSE [session[a] EXCEPT !.interest = {OP_READ}, !.stored = <<>>]
               m == IF last THEN "farewell" ELSE "reply"
    <2>1. session[a].st = "COMMANDS" /\ told' = [told EXCEPT ![a] = m]
        BY <1>5 DEF CommandResponse, Writing
    <2>2. session' = [session EXCEPT ![a] = rec]
        <3>1. CASE last
            BY <1>5, <3>1 DEF CommandResponse, Done
        <3>2. CASE ~ last
            <4>1. session' = [session EXCEPT ![a].interest = {OP_READ}, ![a].stored = <<>>]
                BY <1>5, <3>2 DEF CommandResponse
            <4> DEFINE next == [session[a] EXCEPT !.interest = {OP_READ}, !.stored = <<>>]
            <4>2. session' = [session EXCEPT ![a] = next]
                BY <1>0, <4>1
            <4>3. rec = next
                BY <3>2
            <4> QED
                BY <4>2, <4>3
        <3> QED
            BY <3>1, <3>2
    <2>3. rec.st = "CLOSED" \/ (rec.st = "COMMANDS" /\ m = "reply")
        <3>1. CASE last
            BY <3>1 DEF Closed
        <3>2. CASE ~ last
            <4> DEFINE next == [session[a] EXCEPT !.interest = {OP_READ}, !.stored = <<>>]
            <4>1. next.st = "COMMANDS"
                BY <1>0, <2>1 DEF SessionRecord
            <4> HIDE DEF next
            <4>2. rec = next /\ m = "reply"
                BY <3>2 DEF next
            <4> QED
                BY <4>1, <4>2
        <3> QED
            BY <3>1, <3>2
    <2>4. MayFollow(told[a], m)
        BY <2>1 DEF SaidInv, MayFollow
    <2> HIDE DEF rec, m
    <2> QED
        BY <2>1, <2>2, <2>3, <2>4, OneSays
<1>6. ASSUME NEW a \in Session, Fails(a) PROVE Goal
    <2>1. told' = told /\ session' = [session EXCEPT ![a] = Closed]
        BY <1>6 DEF Fails, Done
    <2>2. ASSUME NEW b \in Session PROVE session'[b].st \in {session[b].st, "CLOSED"}
        BY <1>0, <2>1 DEF Closed
    <2> QED
        BY <2>1, <2>2, NobodySays
<1>7. CASE \E a \in Session : ClientLeaves(a) \/ Killed(a)
    BY <1>7, NobodySays DEF ClientLeaves, Killed
<1>8. CASE UNCHANGED vars
    BY <1>8, NobodySays DEF vars
<1> QED
    BY <1>1, <1>2, <1>3, <1>4, <1>5, <1>6, <1>7, <1>8 DEF Next

LEMMA SaidHolds == Spec => [](IInv /\ SaidInv)
<1>1. IInv /\ SaidInv /\ [Next]_vars => SaidInv'
    BY SaidStep
<1> QED
    BY <1>1, InvariantHolds, SaidInit, PTL DEF Spec

(* No client is answered a command before its password, or anything after  *)
(* the farewell, whatever the other sessions do.                           *)
THEOREM SessionsAreOrdered == Spec => MessagesInOrder
<1>1. IInv /\ SaidInv /\ [Next]_vars =>
          [\A a \in Session : told'[a] # told[a] => MayFollow(told[a], told'[a])]_vars
    BY SaidStep
<1> QED
    BY <1>1, SaidHolds, PTL DEF Spec, MessagesInOrder

(* The process stops at a command, of a session that gave the password,    *)
(* with one argument too many or none where it is read; or because a       *)
(* client has left that is still owed the greeting, the answer to a        *)
(* password or a reply.  There is no other way.                            *)
THEOREM StopsHaveThreeCauses == Spec => StopCauses
<1> DEFINE Cause == proc' # proc => \E a \in Session :
                        IF proc' = "killed" THEN LeftOwed(a) ELSE BadCommand(a)
<1>1. ASSUME IInv, SaidInv, NEW a \in Session, ParseCommand(a), proc' # proc
      PROVE  Cause
    <2>1. PICK r \in Request :
              /\ asked' = [asked EXCEPT ![a] = r]
              /\ TooManyArguments(r) \/ ReadsNull(r)
              /\ proc' = IF TooManyArguments(r) THEN "aborted" ELSE "crashed"
        BY <1>1 DEF ParseCommand
    <2>2. asked'[a] = r
        BY <1>1, <2>1 DEF IInv, TypeOK
    <2>3. session[a].st = "COMMANDS" /\ told[a] \in {"granted", "reply"}
        BY <1>1 DEF ParseCommand, Reading, SaidInv
    <2>4. ReadsNull(r) => /\ r.args = 0
                          /\ r.code \in {"blank", "DISECTOR_ACTIVATION", "DELETE_USER"}
        BY DEF ReadsNull, Request
    <2>5. BadCommand(a)
        BY <2>1, <2>2, <2>3, <2>4 DEF TooManyArguments, BadCommand
    <2>6. proc' # "killed"
        BY <2>1
    <2> QED
        BY <2>5, <2>6
<1>2. ASSUME IInv, SaidInv, NEW a \in Session, Killed(a)
      PROVE  Cause
    <2>1. a \in gone /\ proc' = "killed"
        BY <1>2 DEF Killed
    <2>2. CASE Writing(a, "GREETING")
        BY <1>2, <2>1, <2>2 DEF Writing, SaidInv, LeftOwed
    <2>3. CASE Reading(a, "AUTH")
        BY <1>2, <2>1, <2>3 DEF Reading, SaidInv, LeftOwed
    <2>4. CASE Writing(a, "COMMANDS")
        <3>1. Len(session[a].stored) = 1
            BY <1>2, <2>4 DEF Writing, IInv, RepliesPaired
        <3>2. Len(<<>>) = 0
            OBVIOUS
        <3>3. session[a].stored # <<>>
            BY <3>1, <3>2
        <3> QED
            BY <2>1, <3>3 DEF LeftOwed
    <2> QED
        BY <1>2, <2>1, <2>2, <2>3, <2>4 DEF Killed, Sends
<1>3. ASSUME IInv, SaidInv, [Next]_vars
      PROVE  Cause
    <2>1. CASE \E a \in Session : ParseCommand(a) \/ Killed(a)
        BY <1>1, <1>2, <1>3, <2>1
    <2>2. CASE \E a \in Session : \/ Connect(a) \/ Greet(a) \/ Authenticate(a)
                                  \/ CommandResponse(a) \/ Fails(a) \/ ClientLeaves(a)
        BY <2>2 DEF Connect, Greet, Authenticate, CommandResponse, Fails, ClientLeaves
    <2>3. CASE UNCHANGED vars
        BY <2>3 DEF vars
    <2> QED
        BY <1>3, <2>1, <2>2, <2>3 DEF Next
<1>4. IInv /\ SaidInv /\ [Next]_vars => [Cause]_vars
    BY <1>3
<1> QED
    BY <1>4, SaidHolds, PTL DEF Spec, StopCauses

(* A command that is going to be answered with '-' has left the users and  *)
(* the dissector as they were.                                             *)
THEOREM RefusalsChangeNothing == Spec => RefusedChangesNothing
<1>1. ASSUME IInv, Next, NEW a \in Session,
             session[a].stored = <<>>, session'[a].stored # <<>>, ~ session'[a].stored[1].ok
      PROVE  UNCHANGED <<users, disector>>
    <2>0. session \in [Session -> SessionRecord]
        BY <1>1 DEF IInv, TypeOK, SessionRecord
    <2>1. CASE \E b \in Session : ParseCommand(b)
        <3>1. PICK b \in Session : ParseCommand(b)
            BY <2>1
        <3>2. PICK r \in Request :
                  IF TooManyArguments(r) \/ ReadsNull(r)
                  THEN UNCHANGED <<session, users, disector>>
                  ELSE /\ session' = [session EXCEPT
                             ![b].interest = InterestAfterCommand,
                             ![b].stored = Append(@, [ok |-> Accepted(r), code |-> r.code]),
                             ![b].state = IF r.code = "ADMIN_CLOSE_CONNECTION" THEN "ADONE"
                                          ELSE "COMMANDS"]
                       /\ users' = NewUsers(r)
                       /\ disector' = IF r.code = "DISECTOR_ACTIVATION" /\ Accepted(r)
                                      THEN r.sign = "+" ELSE disector
            BY <3>1 DEF ParseCommand
        <3>3. CASE TooManyArguments(r) \/ ReadsNull(r)
            BY <3>2, <3>3
        <3>4. CASE ~ (TooManyArguments(r) \/ ReadsNull(r))
            <4> DEFINE reply == [ok |-> Accepted(r), code |-> r.code]
            <4>1. b = a
                BY <1>1, <2>0, <3>2, <3>4 DEF SessionRecord
            <4>2. session'[a].stored = Append(<<>>, reply)
                BY <1>1, <2>0, <3>2, <3>4, <4>1 DEF SessionRecord
            <4>3. Append(<<>>, reply)[1] = reply
                BY EmptySeq, AppendProperties
            <4>4. ~ Accepted(r)
                BY <1>1, <4>2, <4>3
            <4>5. NewUsers(r) = users
                BY <1>1, <4>4, ParseCommandUsers
            <4> QED
                BY <3>2, <3>4, <4>4, <4>5
        <3> QED
            BY <3>3, <3>4
    <2>2. CASE \E b \in Session : Connect(b) \/ Greet(b) \/ Authenticate(b) \/ CommandResponse(b)
                                  \/ Fails(b) \/ ClientLeaves(b) \/ Killed(b)
        BY <2>2 DEF Connect, Greet, Authenticate, CommandResponse, Fails, ClientLeaves, Killed
    <2> QED
        BY <1>1, <2>1, <2>2 DEF Next
<1>2. IInv /\ [Next]_vars =>
          [\A a \in Session :
              /\ session[a].stored = <<>> /\ session'[a].stored # <<>>
              /\ ~ session'[a].stored[1].ok
              => UNCHANGED <<users, disector>>]_vars
    BY <1>1
<1> QED
    BY <1>2, InvariantHolds, PTL DEF Spec, RefusedChangesNothing
=============================================================================
