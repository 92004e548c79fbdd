-------------------------------- MODULE Admin --------------------------------
(***************************************************************************)
(* The monitoring sessions of admin_protocol.c: several SCTP clients that  *)
(* are greeted, give the password and then change the users and the        *)
(* dissector flag the whole server shares.                                 *)
(*                                                                         *)
(* One action is one call of admin_connection, admin_read or admin_write.  *)
(* A message is what strtok makes of it: a command, how many arguments     *)
(* follow, and what the first of them says.                                *)
(***************************************************************************)
EXTENDS Users

CONSTANTS
    Session,    \* struct admin blocks, one per client
    None        \* an argument that names no user, or no password

ASSUME NoneAssumption == None \notin Name /\ None \notin Pass

VARIABLES
    proc,       \* the process: "serving", "aborted" (stm.c), "crashed" (NULL
                \* read), "killed" (SIGPIPE)
    session,    \* the struct admin of each client
    gone,       \* sessions whose client has shut its association down
    asked,      \* the request a session has read and not answered yet
    told,       \* the kind of the last message a session was sent
    users,      \* users.c
    disector    \* metrics.c

vars == <<proc, session, gone, asked, told, users, disector>>

OP_READ == "OP_READ"
OP_WRITE == "OP_WRITE"
Code == {"STATS", "ADMIN_CLOSE_CONNECTION", "DISECTOR_ACTIVATION", "GET_DISECTOR",
         "ADD_USER", "DELETE_USER", "LIST_USERS", "unknown"}

(* A message with nothing but separators is "blank"; an argument that is   *)
(* not the sign, the user or the user:password the command takes names     *)
(* None.  One argument is told from none only where the command reads it,  *)
(* and one with more of them is refused whatever its command.              *)
Request ==
    {r \in [code : Code \cup {"blank"}, args : 0 .. 2, sign : {"none", "+", "-"},
            user : Name \cup {None}, pass : Pass \cup {None}] :
        /\ r.args = 1 => r.code \in {"DISECTOR_ACTIVATION", "ADD_USER", "DELETE_USER"}
        /\ r.args = 2 => r.code = "unknown"
        /\ r.sign # "none" => r.code = "DISECTOR_ACTIVATION" /\ r.args = 1
        /\ r.user # None => r.code \in {"ADD_USER", "DELETE_USER"} /\ r.args = 1
        /\ r.pass # None <=> r.code = "ADD_USER" /\ r.user # None}

NoRequest == [code |-> "nothing", args |-> 0, sign |-> "none", user |-> None, pass |-> None]
Reply == [ok : BOOLEAN, code : Code]
Closed == [st |-> "CLOSED", state |-> "GREETING", interest |-> {}, stored |-> <<>>]

Init ==
    /\ proc = "serving"
    /\ session = [a \in Session |-> Closed]
    /\ gone = {}
    /\ asked = [a \in Session |-> NoRequest]
    /\ told = [a \in Session |-> "nothing"]
    /\ users \in UNION {[1 .. n -> Account] : n \in 0 .. MaxUsers} /\ Sound(users)
    /\ disector = TRUE

-----------------------------------------------------------------------------
(* admin_connection, new_admin: it is the server that speaks first *)
Connect(a) ==
    /\ proc = "serving"
    /\ session[a].st = "CLOSED"
    /\ session' = [session EXCEPT ![a] = [Closed EXCEPT !.st = "GREETING", !.interest = {OP_WRITE}]]
    /\ told' = [told EXCEPT ![a] = "nothing"]
    /\ UNCHANGED <<proc, gone, asked, users, disector>>

Reading(a, st) == proc = "serving" /\ session[a].st = st /\ OP_READ \in session[a].interest
Writing(a, st) == proc = "serving" /\ session[a].st = st /\ OP_WRITE \in session[a].interest

(* admin_done and admin_destroy: unregistered, freed, closed *)
Done(a) ==
    /\ session' = [session EXCEPT ![a] = Closed]
    /\ gone' = gone \ {a}

(* The client leaves; what it sent before can still be read *)
ClientLeaves(a) ==
    /\ proc = "serving"
    /\ session[a].st # "CLOSED" /\ a \notin gone
    /\ gone' = gone \cup {a}
    /\ UNCHANGED <<proc, session, asked, told, users, disector>>

Greet(a) ==
    /\ Writing(a, "GREETING") /\ a \notin gone
    /\ session' = [session EXCEPT ![a].st = "AUTH", ![a].state = "AUTH", ![a].interest = {OP_READ}]
    /\ told' = [told EXCEPT ![a] = "greeting"]
    /\ UNCHANGED <<proc, gone, asked, users, disector>>

(* Mutant: the session goes on to the commands whatever the password *)
AfterPasswordAlways(right) == "COMMANDS"
AfterPassword(right) == IF right THEN "COMMANDS" ELSE "AUTH"

(* authenticate, pass_auth: the answer is sent at once *)
Authenticate(a) ==
    /\ Reading(a, "AUTH") /\ a \notin gone
    /\ \E right \in BOOLEAN :
          /\ session' = [session EXCEPT ![a].st = AfterPassword(right),
                                        ![a].state = AfterPassword(right)]
          /\ told' = [told EXCEPT ![a] = IF right THEN "granted" ELSE "refused"]
    /\ UNCHANGED <<proc, gone, asked, users, disector>>

(* recv() finds the client gone or fails, or send() fails: AERROR *)
Fails(a) ==
    /\ \/ \E st \in {"AUTH", "COMMANDS"} : Reading(a, st)
       \/ \E st \in {"GREETING", "COMMANDS"} : Writing(a, st)
    /\ Done(a)
    /\ asked' = [asked EXCEPT ![a] = NoRequest]
    /\ UNCHANGED <<proc, told, users, disector>>

(* send_to_client to a client that has left: sctp_sendmsg takes no flags,  *)
(* so EPIPE comes with SIGPIPE, which main.c neither handles nor ignores.  *)
(* It sends the greeting, the answer to a password as soon as it is read,  *)
(* and replies.                                                            *)
Sends(a) == Writing(a, "GREETING") \/ Reading(a, "AUTH") \/ Writing(a, "COMMANDS")
Killed(a) ==
    /\ Sends(a) /\ a \in gone
    /\ proc' = "killed"
    /\ UNCHANGED <<session, gone, asked, told, users, disector>>

-----------------------------------------------------------------------------
(* parse_command.  More than one argument makes it return -1, which jump() *)
(* takes for a state number; mutant: one argument too many is one.         *)
TooManyArgumentsIsOne(r) == r.args >= 1
TooManyArguments(r) == r.args = 2

(* Where the code reads through a NULL pointer: the command itself, the    *)
(* sign, or the user to compare with those there are                       *)
ReadsNull(r) ==
    \/ r.code = "blank"
    \/ r.code = "DISECTOR_ACTIVATION" /\ r.args = 0
    \/ r.code = "DELETE_USER" /\ r.args = 0 /\ users # <<>>

(* The sign of the reply *)
Accepted(r) ==
    CASE r.code = "unknown" -> FALSE
      [] r.code = "DISECTOR_ACTIVATION" -> r.sign \in {"+", "-"}
      [] r.code = "ADD_USER" -> r.user # None /\ AddStatus(users, r.user, r.pass) = 0
      [] r.code = "DELETE_USER" -> r.user \in Names(users)
      [] OTHER -> TRUE

(* What becomes of the users; mutant: an argument without a password is    *)
(* added all the same                                                      *)
NewUsersAnyPair(r) ==
    IF r.code = "ADD_USER" THEN AddUser(users, r.user, r.pass)
    ELSE IF r.code = "DELETE_USER" THEN DeleteUser(users, r.user)
    ELSE users
NewUsers(r) ==
    IF r.code = "ADD_USER" /\ r.user # None THEN AddUser(users, r.user, r.pass)
    ELSE IF r.code = "DELETE_USER" THEN DeleteUser(users, r.user)
    ELSE users

(* The client is answered before it is read again; mutants: it is read     *)
(* meanwhile, or never written to                                          *)
InterestBoth == {OP_READ, OP_WRITE}
InterestNone == {}
InterestAfterCommand == {OP_WRITE}

ParseCommand(a) ==
    /\ Reading(a, "COMMANDS")
    /\ \E r \in Request :
          /\ asked' = [asked EXCEPT ![a] = r]
          /\ IF TooManyArguments(r) \/ ReadsNull(r)
             THEN /\ proc' = IF TooManyArguments(r) THEN "aborted" ELSE "crashed"
                  /\ UNCHANGED <<session, users, disector>>
             ELSE /\ session' = [session EXCEPT
                        ![a].interest = InterestAfterCommand,
                        ![a].stored = Append(@, [ok |-> Accepted(r), code |-> r.code]),
                        ![a].state = IF r.code = "ADMIN_CLOSE_CONNECTION" THEN "ADONE"
                                     ELSE "COMMANDS"]
                  /\ users' = NewUsers(r)
                  /\ disector' = IF r.code = "DISECTOR_ACTIVATION" /\ Accepted(r)
                                 THEN r.sign = "+" ELSE disector
                  /\ proc' = proc
    /\ UNCHANGED <<told, gone>>

(* command_response: the state it returns is the one parse_command left *)
CommandResponse(a) ==
    /\ Writing(a, "COMMANDS") /\ a \notin gone
    /\ IF session[a].state = "ADONE" THEN Done(a)
       ELSE /\ session' = [session EXCEPT ![a].interest = {OP_READ}, ![a].stored = <<>>]
            /\ gone' = gone
    /\ told' = [told EXCEPT ![a] = IF session[a].state = "ADONE" THEN "farewell" ELSE "reply"]
    /\ asked' = [asked EXCEPT ![a] = NoRequest]
    /\ UNCHANGED <<proc, users, disector>>

Next ==
    \E a \in Session :
        \/ Connect(a) \/ Greet(a) \/ Authenticate(a)
        \/ ParseCommand(a) \/ CommandResponse(a) \/ Fails(a)
        \/ ClientLeaves(a) \/ Killed(a)

Spec == Init /\ [][Next]_vars

(* A session with a reply to send is written in some iteration of the      *)
(* selector, or its send() fails, with or without the signal               *)
Written(a) == Writing(a, "COMMANDS") /\ (CommandResponse(a) \/ Fails(a) \/ Killed(a))
FairSpec == Spec /\ \A a \in Session : WF_vars(Written(a))

-----------------------------------------------------------------------------
(* Types *)
TypeOK ==
    /\ proc \in {"serving", "aborted", "crashed", "killed"}
    /\ session \in [Session -> [st : {"CLOSED", "GREETING", "AUTH", "COMMANDS"},
                                state : {"GREETING", "AUTH", "COMMANDS", "ADONE"},
                                interest : SUBSET {OP_READ, OP_WRITE}, stored : Seq(Reply)]]
    /\ gone \in SUBSET Session
    /\ asked \in [Session -> Request \cup {NoRequest}]
    /\ told \in [Session -> {"nothing", "greeting", "refused", "granted", "reply", "farewell"}]
    /\ users \in Seq(Account)
    /\ disector \in BOOLEAN

(* Whatever sessions add and delete users at the same time, the table has  *)
(* no name twice, none too long, and no more than MAX_USERS                *)
TableSound == Sound(users)

(* What a session is about to be told of the account it asked for *)
Verdict(a) ==
    LET verdict(op) == [op |-> op, user |-> asked[a].user, pass |-> asked[a].pass,
                      ok |-> session[a].stored[1].ok]
    IN  IF session[a].stored # <<>> /\ asked[a].code = "ADD_USER" THEN verdict("add")
        ELSE IF session[a].stored # <<>> /\ asked[a].code = "DELETE_USER" THEN verdict("delete")
        ELSE [op |-> "none", user |-> None, pass |-> None, ok |-> FALSE]

(* The array with its shifts is a set of accounts: a '+' says that this    *)
(* account and no other has come or gone, a '-' that nothing has changed   *)
(* for a reason, and no deletion loses or doubles somebody else's account. *)
AccountsView == INSTANCE Accounts WITH
    Client <- Session, accounts <- {users[i] : i \in DOMAIN users},
    answer <- [a \in Session |-> Verdict(a)]
AccountsSpec == AccountsView!Spec

(* Every command is answered before the next one is read, with its own code*)
RepliesPaired ==
    \A a \in Session : session[a].st = "COMMANDS" =>
        IF OP_WRITE \in session[a].interest
        THEN Len(session[a].stored) = 1 /\ session[a].stored[1].code = asked[a].code
        ELSE session[a].stored = <<>>

(* A session is a greeting, refusals, the grant, replies and a farewell:   *)
(* no command is answered before the password, nothing after the farewell  *)
MayFollow(before, m) ==
    CASE m = "nothing" -> TRUE
      [] m = "greeting" -> before = "nothing"
      [] m \in {"refused", "granted"} -> before \in {"greeting", "refused"}
      [] m \in {"reply", "farewell"} -> before \in {"granted", "reply"}
MessagesInOrder == [][\A a \in Session : told'[a] # told[a] => MayFollow(told[a], told'[a])]_vars

(* A command answered with '-' has changed nothing for anybody *)
RefusedChangesNothing ==
    [][\A a \in Session :
          /\ session[a].stored = <<>> /\ session'[a].stored # <<>>
          /\ ~ session'[a].stored[1].ok
          => UNCHANGED <<users, disector>>]_vars

(* A session brings the process down in three ways only: more arguments    *)
(* than one, or none where the command reads it, from a client that gave   *)
(* the password; and, from any client, to leave while it is owed a message:*)
(* the greeting, the answer to a password, or a reply                      *)
BadCommand(a) ==
    /\ session[a].st = "COMMANDS" /\ told[a] \in {"granted", "reply"}
    /\ asked'[a].args \in {0, 2}
    /\ proc' = "aborted" <=> asked'[a].args = 2
    /\ proc' = "crashed" => asked'[a].code \in {"blank", "DISECTOR_ACTIVATION", "DELETE_USER"}
LeftOwed(a) ==
    /\ a \in gone /\ proc' = "killed"
    /\ \/ told[a] \in {"nothing", "greeting", "refused"} /\ session[a].st # "COMMANDS"
       \/ session[a].stored # <<>>
StopCauses ==
    [][proc' # proc => \E a \in Session :
          IF proc' = "killed" THEN LeftOwed(a) ELSE BadCommand(a)]_vars

(* A command that was read is answered, or its session ends *)
CommandAnswered ==
    \A a \in Session :
        session[a].stored # <<>> ~> session[a].stored = <<>> \/ proc # "serving"

=============================================================================
