------------------------------- MODULE Socks5 -------------------------------
(***************************************************************************)
(* The life of SOCKS connections in one server process: accept, the state  *)
(* machine of socks5.c with the handlers of state_machines/, the connect   *)
(* to the origin, the resolver threads, and the destruction of a           *)
(* connection, over the selector's table of registered descriptors.        *)
(*                                                                         *)
(* One action is one handler call made by the selector, or one step of a   *)
(* resolver thread.  What a client sends is a choice of what the parser    *)
(* makes of it; bytes and buffers are the business of Buffer and Copy.  A  *)
(* read that leaves the parser in the middle of the hello or of the        *)
(* credentials, or that finds the client gone there, changes nothing here. *)
(***************************************************************************)
EXTENDS Integers, Sequences, FiniteSets

CONSTANTS
    Conn,       \* struct socks5 blocks, one per client
    Fd,         \* descriptors the process can have for its clients and origins
    MaxPool,    \* MAX_POOL of socks5.h
    Address,    \* what connect() to an address does, of AddressKind
    MaxAddrs,   \* bound: length of the list getaddrinfo returns
    None        \* no connection, no descriptor (-1)

ASSUME MaxPoolAssumption == MaxPool \in Nat
ASSUME BoundsAssumption == MaxAddrs \in Nat
ASSUME NoneAssumption == None \notin Fd /\ None \notin Conn

(* connect() starts (EINPROGRESS), is done at once, or fails with errno *)
ErrnoReply == [ECONNREFUSED |-> "CONNECTION_REFUSED", EHOSTUNREACH |-> "HOST_UNREACHABLE",
               ENETUNREACH |-> "NETWORK_UNREACHABLE", EACCES |-> "GENERAL_FAILURE"]
AddressKind == {"starts", "instant"} \cup DOMAIN ErrnoReply

ASSUME AddressAssumption == Address \subseteq AddressKind

VARIABLES
    proc,       \* the process: in "select" (pselect and handle_iteration), in
                \* "notify" (handle_block_notifications), "aborted", "exited"
    item,       \* selector table: whose a registered descriptor is, its interest
    open,       \* descriptors open in the process
    sock,       \* the struct socks5 of each connection
    concurrent, \* metrics: the count passive_accept compares to MAX_POOL
    resolver,   \* the detached thread of a connection, with what it captured
    jobs,       \* the selector's list of notified blocking jobs, newest first
    link,       \* the TCP connection to the origin, as the kernel has it
    stale,      \* descriptors given back since pselect returned whose event
                \* handle_iteration may still have to come to
    told,       \* the last message a client was sent on its connection
    again       \* flips each time a client is sent the same message once more

vars == <<proc, item, open, sock, concurrent, resolver, jobs, link, stale, told, again>>

OP_READ == "OP_READ"
OP_WRITE == "OP_WRITE"
State == {"HELLO", "HELLO_AUTH", "REQUEST_READING", "DNS_QUERY", "RESPONSE_WRITING", "COPY"}
Method == {"AUTH", "NOAUTH", "NOMETHOD"}
Reply == {"SUCCEDED", "GENERAL_FAILURE"} \cup {ErrnoReply[e] : e \in DOMAIN ErrnoReply}
Message == [kind : {"nothing"}, value : {FALSE}] \cup [kind : {"method"}, value : Method]
           \cup [kind : {"auth"}, value : BOOLEAN]
           \cup [kind : {"reply"}, value : Reply] \cup [kind : {"data"}, value : {TRUE}]
Phase == {"none", "resolving", "answered", "uncreated", "unheard"}

(* The states_definition table: which events a state has a handler for *)
Handles == [HELLO            |-> {"read", "write"},
            HELLO_AUTH       |-> {"read", "write"},
            REQUEST_READING  |-> {"read"},
            DNS_QUERY        |-> {"block"},
            RESPONSE_WRITING |-> {"write"},
            COPY             |-> {"read", "write"}]

Unused == [conn |-> None, interest |-> {}]
Nothing == [kind |-> "nothing", value |-> FALSE]
NoThread == [phase |-> "none", fd |-> None]
Freed == [st |-> "FREED", client |-> None, origin |-> None, method |-> "NOMETHOD",
          login |-> TRUE, parsed |-> "nothing", atype |-> "none",
          status |-> "SUCCEDED", addrs |-> <<>>]

Serving == proc \in {"select", "notify"}
Live(c) == sock[c].st # "FREED"
Registered(f) == f # None /\ item[f].conn # None
Interested(c, op) == op \in item[sock[c].client].interest
SetInterest(c, ops) == [item EXCEPT ![sock[c].client].interest = ops]

Init ==
    /\ proc = "select"
    /\ item = [f \in Fd |-> Unused]
    /\ open = {}
    /\ sock = [c \in Conn |-> Freed]
    /\ concurrent = 0
    /\ resolver = [c \in Conn |-> NoThread]
    /\ jobs = <<>>
    /\ link = [c \in Conn |-> "none"]
    /\ stale = {}
    /\ told = [c \in Conn |-> Nothing]
    /\ again = [c \in Conn |-> FALSE]

-----------------------------------------------------------------------------
(* metrics.c: add_concurrent and remove_concurrent; mutants: the count is  *)
(* not given back, or given back twice                                     *)
AddConcurrent(n) == n + 1
RemoveConcurrentNever(n) == n
RemoveConcurrentTwice(n) == n - 2
RemoveConcurrent(n) == n - 1

(* socksv5_passive_accept and create_new_sock5.  At MAX_POOL, or when      *)
(* accept() has no descriptor left, nothing changes.  The listening sockets*)
(* are the lowest: an accept comes before the other events of its walk.    *)
Accept(c) ==
    /\ proc = "select"
    /\ ~ Live(c)
    /\ concurrent # MaxPool
    /\ \E f \in Fd \ open :
          /\ open' = open \cup {f}
          /\ item' = [item EXCEPT ![f] = [conn |-> c, interest |-> {OP_READ}]]
          /\ sock' = [sock EXCEPT ![c] = [Freed EXCEPT !.st = "HELLO", !.client = f]]
    /\ concurrent' = AddConcurrent(concurrent)
    /\ stale' = {}
    /\ told' = [told EXCEPT ![c] = Nothing]
    /\ again' = [again EXCEPT ![c] = FALSE]
    /\ UNCHANGED <<proc, resolver, jobs, link>>

(* The descriptors destroy_socks5 unregisters and closes; mutant: the      *)
(* origin's are forgotten                                                  *)
OwnFdsButOrigin(s) == {s.client} \ {None}
OwnFds(s) == {s.client, s.origin} \ {None}

(* The descriptors pselect can report as readable, or handle_iteration take*)
(* for readable: a client, an origin whose connect is settled, and, by an  *)
(* event of its former owner, an origin whose connect is not               *)
ReadReady(c, f) == f = sock[c].client \/ link[c] \in {"up", "failed"} \/ f \in stale

(* Whose event destroys a connection: its client's until it copies *)
HandledAt(c) == IF sock[c].st = "COPY" THEN OwnFds(sock[c]) ELSE {sock[c].client}

(* destroy_socks5: unregister and close the client, then the origin if     *)
(* there is one, leave the pool and free.  A descriptor that cannot be     *)
(* unregistered makes the process exit.  The event of the other descriptor *)
(* stays in the sets handle_iteration walks.                               *)
Destroy(c) ==
    IF \A f \in OwnFds(sock[c]) : Registered(f)
    THEN /\ item' = [f \in Fd |-> IF f \in OwnFds(sock[c]) THEN Unused ELSE item[f]]
         /\ open' = open \ OwnFds(sock[c])
         /\ sock' = [sock EXCEPT ![c] = Freed]
         /\ link' = [link EXCEPT ![c] = "none"]
         /\ concurrent' = RemoveConcurrent(concurrent)
         /\ \E f \in HandledAt(c) :
               stale' = stale \cup {g \in OwnFds(sock[c]) \ {f} : ReadReady(c, g)}
         /\ proc' = proc
    ELSE /\ proc' = "exited"
         /\ UNCHANGED <<item, open, sock, link, concurrent, stale>>

(* send() of a message of the protocol *)
Tell(c, m) ==
    /\ told' = [told EXCEPT ![c] = m]
    /\ again' = [again EXCEPT ![c] = told[c] = m /\ ~ @]

(* A handler returned ERROR or CLOSE_CONNECTION without having sent m *)
Fail(c) == Destroy(c) /\ UNCHANGED <<resolver, jobs, told, again>>

(* The client was sent m, then the handler returned ERROR *)
FailAfter(c, m) ==
    /\ Destroy(c)
    /\ Tell(c, m)
    /\ UNCHANGED <<resolver, jobs>>

(* The client was sent m, is read again, and the machine jumps to st *)
GoOnAfter(c, m, new) ==
    /\ Tell(c, m)
    /\ item' = SetInterest(c, {OP_READ})
    /\ sock' = [sock EXCEPT ![c] = new]
    /\ UNCHANGED <<proc, open, concurrent, resolver, jobs, link, stale>>

(* The event a handler of state st answers *)
Reading(c, st) == proc = "select" /\ sock[c].st = st /\ Interested(c, OP_READ)
Writing(c, st) == proc = "select" /\ sock[c].st = st /\ Interested(c, OP_WRITE)

(* request_read_init: a parser that has seen nothing *)
NewRequest(s) == [s EXCEPT !.st = "REQUEST_READING", !.parsed = "nothing", !.atype = "none"]

-----------------------------------------------------------------------------
(* hello_read on a complete or erroneous hello: method chosen, reply stored*)
HelloRead(c) ==
    /\ Reading(c, "HELLO")
    /\ \E m \in Method : sock' = [sock EXCEPT ![c].method = m]
    /\ item' = SetInterest(c, {OP_WRITE})
    /\ UNCHANGED <<proc, open, concurrent, resolver, jobs, link, stale, told, again>>

HelloWrite(c) ==
    /\ Writing(c, "HELLO")
    /\ LET m == [kind |-> "method", value |-> sock[c].method]
       IN  \/ sock[c].method = "AUTH" /\ GoOnAfter(c, m, [sock[c] EXCEPT !.st = "HELLO_AUTH"])
           \/ sock[c].method = "NOAUTH" /\ GoOnAfter(c, m, NewRequest(sock[c]))
           \/ sock[c].method = "NOMETHOD" /\ FailAfter(c, m)

(* hello_auth_read: only a wrong user or password changes the status, which*)
(* starts as success; malformed credentials are answered with it as it is  *)
HelloAuthRead(c) ==
    /\ Reading(c, "HELLO_AUTH")
    /\ \E credentials \in {"right", "wrong", "malformed"} :
          sock' = [sock EXCEPT ![c].login = @ /\ credentials # "wrong"]
    /\ item' = SetInterest(c, {OP_WRITE})
    /\ UNCHANGED <<proc, open, concurrent, resolver, jobs, link, stale, told, again>>

HelloAuthWrite(c) ==
    /\ Writing(c, "HELLO_AUTH")
    /\ LET m == [kind |-> "auth", value |-> sock[c].login]
       IN  IF sock[c].login THEN GoOnAfter(c, m, NewRequest(sock[c]))
           ELSE FailAfter(c, m)

(* send() fails in hello_write, hello_auth_write or response_write *)
SendFails(c) ==
    /\ \E st \in {"HELLO", "HELLO_AUTH", "RESPONSE_WRITING"} : Writing(c, st)
    /\ Fail(c)

-----------------------------------------------------------------------------
(* The connect to the origin, connect.c.  An outcome is the status the     *)
(* client will be told and what became of the origin's socket: "pending"   *)
(* is registered with OP_READ, "up" was connected at once and is not       *)
(* registered, "none" is closed again or was never opened.                 *)
Failed(status) == [status |-> status, link |-> "none"]
Started == [status |-> "SUCCEDED", link |-> "pending"]

(* connect_origin_ipv4 and _ipv6; socket(), the registration or the test   *)
(* of SO_ERROR may fail whatever the address                               *)
IpOutcomes(status) ==
    {Failed("GENERAL_FAILURE")}
    \cup {Started : a \in Address \cap {"starts"}}
    \cup {[status |-> status, link |-> "up"] : a \in Address \cap {"instant"}}
    \cup {Failed(ErrnoReply[a]) : a \in Address \cap DOMAIN ErrnoReply}

(* connect_origin_fqdn.  The loop goes on to the next address when no      *)
(* socket can be had for this one, or when its socket starts connecting and*)
(* shows an error at once (HOST_UNREACHABLE); any other failure, and a     *)
(* connect that is done at once, ends it without a socket.  state(i) is    *)
(* what `state` can be when the i-th address is reached.                   *)
FqdnOutcomes(addrs) ==
    LET state(i) == {Failed("GENERAL_FAILURE")} \cup
                    {Failed("HOST_UNREACHABLE") : j \in {k \in 1 .. i - 1 : addrs[k] = "starts"}}
        ends(i) == IF addrs[i] = "starts" THEN {Started}
                   ELSE IF addrs[i] = "instant" THEN state(i)
                   ELSE {Failed(ErrnoReply[addrs[i]])}
    IN  IF addrs = <<>> THEN {Failed("HOST_UNREACHABLE")}
        ELSE state(Len(addrs) + 1) \cup UNION {ends(i) : i \in DOMAIN addrs}

(* What the connect leaves in the struct: state, descriptor and status;    *)
(* mutants: the descriptor, or the status, is not recorded                 *)
RecordedWithoutFd(s, f, status) == [s EXCEPT !.st = "RESPONSE_WRITING", !.status = status]
RecordedWithoutStatus(s, f, status) == [s EXCEPT !.st = "RESPONSE_WRITING", !.origin = f]
Recorded(s, f, status) ==
    [s EXCEPT !.st = "RESPONSE_WRITING", !.origin = f, !.status = status]

(* Only a connect in progress is registered; mutant: it never is *)
RegistersNever(out) == FALSE
Registers(out) == out.link = "pending"

(* connect_init with an outcome of connect_origin: the client is to be     *)
(* answered, whatever the outcome                                          *)
ConnectTo(c, s, out) ==
    /\ \E f \in IF out.link = "none" THEN {None} ELSE Fd \ open :
          /\ open' = open \cup ({f} \ {None})
          /\ item' = [d \in Fd |->
                        IF d = s.client THEN [conn |-> c, interest |-> {OP_WRITE}]
                        ELSE IF d = f /\ Registers(out) THEN [conn |-> c, interest |-> {OP_READ}]
                        ELSE item[d]]
          /\ sock' = [sock EXCEPT ![c] = Recorded(s, f, out.status)]
    /\ link' = [link EXCEPT ![c] = out.link]

(* The key a resolver thread is given; mutant: the origin's descriptor     *)
CapturedOrigin(s) == s.origin
Captured(s) == s.client

(* dns_query_init: a detached thread with its own copy of the key; that    *)
(* pthread_create failed ("uncreated") the code does not notice            *)
DnsQueryInit(c, s, interest) ==
    /\ sock' = [sock EXCEPT ![c] = [s EXCEPT !.st = "DNS_QUERY"]]
    /\ item' = SetInterest(c, interest)
    /\ \E phase \in {"resolving", "uncreated"} :
          resolver' = [resolver EXCEPT ![c] = [phase |-> phase, fd |-> Captured(s)]]

-----------------------------------------------------------------------------
(* What request_read can make of one recv(): [parsed, atype].  "partial"   *)
(* is an unfinished request, or no byte at all (the client left).          *)
Parse ==
    {p \in [parsed : {"whole", "partial", "unsupported", "malformed"},
            atype : {"none", "ip", "fqdn"}] :
        /\ p.parsed = "whole" => p.atype # "none"
        /\ p.parsed \in {"unsupported", "malformed"} => p.atype = "none"}

(* The client's interest after request_read when a name is to be resolved: *)
(* none after a whole request; mutant: it goes on being read               *)
InterestKept(parsed) == {OP_READ}
InterestAfterRequest(parsed) == IF parsed = "whole" THEN {} ELSE {OP_READ}

(* request_read.  Only request_reading_error is answered; a command or     *)
(* address type that is not supported and a request that is not complete   *)
(* fall through to the connect, and connect_origin returns, for the        *)
(* address type 0 of a request without one, GENERAL_SOCKS_SERVER_FAILURE,  *)
(* 1, which the state machine takes for the state HELLO_AUTH.              *)
RequestRead(c) ==
    /\ Reading(c, "REQUEST_READING")
    /\ \E p \in Parse :
          LET s == [sock[c] EXCEPT !.parsed = p.parsed, !.atype = p.atype]
          IN  \/ /\ p.parsed = "malformed"
                 /\ ConnectTo(c, s, Failed("GENERAL_FAILURE"))
                 /\ UNCHANGED resolver
              \/ /\ p.atype = "fqdn"
                 /\ DnsQueryInit(c, s, InterestAfterRequest(p.parsed))
                 /\ UNCHANGED <<open, link>>
              \/ /\ p.atype = "ip"
                 /\ \E out \in IpOutcomes(s.status) : ConnectTo(c, s, out)
                 /\ UNCHANGED resolver
              \/ /\ p.atype = "none" /\ p.parsed # "malformed"
                 /\ sock' = [sock EXCEPT ![c] = [s EXCEPT !.st = "HELLO_AUTH"]]
                 /\ UNCHANGED <<item, open, link, resolver>>
    /\ UNCHANGED <<proc, concurrent, jobs, stale, told, again>>

(* resolve_blocking, first half: getaddrinfo fills origin_resolution *)
ResolverAnswers(c) ==
    /\ Serving
    /\ resolver[c].phase = "resolving"
    /\ \E n \in 0 .. MaxAddrs : \E addrs \in [1 .. n -> Address] :
          sock' = [sock EXCEPT ![c].addrs = addrs]
    /\ resolver' = [resolver EXCEPT ![c].phase = "answered"]
    /\ UNCHANGED <<proc, item, open, concurrent, jobs, link, stale, told, again>>

(* resolve_blocking, second half: selector_notify_block pushes the job     *)
(* once it has resolution_mutex; mutant: the thread is not done with it    *)
ResolverNotifiesAgain(c) ==
    /\ proc = "select"
    /\ resolver[c].phase = "answered"
    /\ jobs' = <<resolver[c].fd>> \o jobs
    /\ UNCHANGED <<proc, item, open, sock, concurrent, resolver, link, stale, told, again>>
ResolverNotifies(c) ==
    /\ proc = "select"
    /\ resolver[c].phase = "answered"
    /\ jobs' = <<resolver[c].fd>> \o jobs
    /\ resolver' = [resolver EXCEPT ![c] = NoThread]
    /\ UNCHANGED <<proc, item, open, sock, concurrent, link, stale, told, again>>

(* selector_notify_block finds no memory for the job, and resolve_blocking *)
(* ignores it: the thread ends and nobody is told ("unheard")              *)
ResolverGivesUp(c) ==
    /\ Serving
    /\ resolver[c].phase = "answered"
    /\ resolver' = [resolver EXCEPT ![c].phase = "unheard"]
    /\ UNCHANGED <<proc, item, open, sock, concurrent, jobs, link, stale, told, again>>

(* The walk is over and pselect returns with new sets *)
Select ==
    /\ proc = "select" /\ stale # {}
    /\ stale' = {}
    /\ UNCHANGED <<proc, item, open, sock, concurrent, resolver, jobs, link, told, again>>

(* selector_select goes on to handle_block_notifications, which holds the  *)
(* mutex until it has gone through the list                                *)
TakeJobs ==
    /\ proc = "select" /\ jobs # <<>>
    /\ proc' = "notify"
    /\ stale' = {}
    /\ UNCHANGED <<item, open, sock, concurrent, resolver, jobs, link, told, again>>

DnsQueryClose(c) ==
    /\ sock[c].st = "DNS_QUERY"
    /\ \E out \in FqdnOutcomes(sock[c].addrs) : ConnectTo(c, sock[c], out)
    /\ UNCHANGED <<concurrent, resolver, stale, told, again>>

(* handle_block_notifications, one job: given to whoever has its descriptor*)
(* registered, and dropped if nobody has.  Mutant: the test is the other   *)
(* way round.                                                              *)
JobDone ==
    /\ proc = "notify"
    /\ jobs' = Tail(jobs)
    /\ proc' = IF Tail(jobs) = <<>> THEN "select" ELSE "notify"
JobDropped == UNCHANGED <<item, open, sock, concurrent, resolver, link, stale, told, again>>

HandleJobIfUnused ==
    /\ JobDone
    /\ IF Registered(Head(jobs)) THEN JobDropped ELSE DnsQueryClose(item[Head(jobs)].conn)
HandleJob ==
    /\ JobDone
    /\ IF Registered(Head(jobs)) THEN DnsQueryClose(item[Head(jobs)].conn) ELSE JobDropped

(* response_write: after the reply, an unsuccessful connection is destroyed*)
(* Mutant: a successful one goes on waiting to write.                      *)
ResponseWriteStays(c) ==
    /\ Writing(c, "RESPONSE_WRITING")
    /\ LET m == [kind |-> "reply", value |-> sock[c].status]
       IN  IF sock[c].status = "SUCCEDED"
           THEN /\ Tell(c, m)
                /\ UNCHANGED <<proc, item, open, sock, concurrent, resolver, jobs, link, stale>>
           ELSE FailAfter(c, m)
ResponseWrite(c) ==
    /\ Writing(c, "RESPONSE_WRITING")
    /\ LET m == [kind |-> "reply", value |-> sock[c].status]
       IN  IF sock[c].status = "SUCCEDED"
           THEN GoOnAfter(c, m, [sock[c] EXCEPT !.st = "COPY"])
           ELSE FailAfter(c, m)

-----------------------------------------------------------------------------
(* COPY as the client sees it: the first bytes of a connected origin reach *)
(* it; Copy.tla has the buffers and the interests                          *)
CopyFromOrigin(c) ==
    /\ proc = "select" /\ sock[c].st = "COPY"
    /\ Registered(sock[c].origin) /\ link[c] = "up"
    /\ told' = [told EXCEPT ![c] = [kind |-> "data", value |-> TRUE]]
    /\ UNCHANGED <<proc, item, open, sock, concurrent, resolver, jobs, link, stale, again>>

(* copy_read or copy_write returns CLOSE_CONNECTION or ERROR; with an      *)
(* origin that is not registered the first byte of the client does it      *)
CopyEnds(c) ==
    /\ proc = "select" /\ sock[c].st = "COPY"
    /\ Fail(c)

(* The kernel completes the connect that was started, or gives it up *)
LinkSettles(c) ==
    /\ Serving
    /\ link[c] = "pending"
    /\ \E l \in {"up", "failed"} : link' = [link EXCEPT ![c] = l]
    /\ UNCHANGED <<proc, item, open, sock, concurrent, resolver, jobs, stale, told, again>>

(* An event reaches a descriptor in a state that has no handler for it:    *)
(* stm_handler_read, _write and _block call abort()                        *)
Unhandled(c) ==
    \/ \E f \in {sock[c].client, sock[c].origin} :
          /\ proc = "select" /\ Registered(f)
          /\ \/ OP_READ \in item[f].interest /\ ReadReady(c, f) /\ "read" \notin Handles[sock[c].st]
             \/ OP_WRITE \in item[f].interest /\ "write" \notin Handles[sock[c].st]
    \/ /\ proc = "notify" /\ item[Head(jobs)].conn = c
       /\ "block" \notin Handles[sock[c].st]

Abort(c) ==
    /\ Serving
    /\ Live(c)
    /\ Unhandled(c)
    /\ proc' = "aborted"
    /\ UNCHANGED <<item, open, sock, concurrent, resolver, jobs, link, stale, told, again>>

Next ==
    \/ Select \/ TakeJobs \/ HandleJob
    \/ \E c \in Conn :
          \/ Accept(c)
          \/ HelloRead(c) \/ HelloWrite(c)
          \/ HelloAuthRead(c) \/ HelloAuthWrite(c)
          \/ SendFails(c)
          \/ RequestRead(c)
          \/ ResolverAnswers(c) \/ ResolverNotifies(c) \/ ResolverGivesUp(c)
          \/ ResponseWrite(c)
          \/ CopyFromOrigin(c) \/ CopyEnds(c)
          \/ LinkSettles(c)
          \/ Abort(c)

Spec == Init /\ [][Next]_vars

(* getaddrinfo returns (it gives up after its own timeouts); a thread that *)
(* waits for resolution_mutex gets it, for the selector holds it only while*)
(* it goes through the list; the selector, whose pselect the signal        *)
(* interrupts, goes through the jobs in every iteration                    *)
FairSpec ==
    /\ Spec
    /\ WF_vars(TakeJobs) /\ WF_vars(HandleJob)
    /\ \A c \in Conn : /\ WF_vars(ResolverAnswers(c))
                       /\ SF_vars(ResolverNotifies(c))

-----------------------------------------------------------------------------
Sock == [st : State \cup {"FREED"}, client : Fd \cup {None}, origin : Fd \cup {None},
         method : Method, login : BOOLEAN,
         parsed : {"nothing", "whole", "partial", "unsupported", "malformed"},
         atype : {"none", "ip", "fqdn"}, status : Reply, addrs : Seq(Address)]

(* Types *)
TypeOK ==
    /\ proc \in {"select", "notify", "aborted", "exited"}
    /\ item \in [Fd -> [conn : Conn \cup {None}, interest : SUBSET {OP_READ, OP_WRITE}]]
    /\ open \in SUBSET Fd
    /\ sock \in [Conn -> Sock]
    /\ concurrent \in 0 .. MaxPool
    /\ resolver \in [Conn -> [phase : Phase, fd : Fd \cup {None}]]
    /\ jobs \in Seq(Fd)
    /\ link \in [Conn -> {"none", "pending", "up", "failed"}]
    /\ stale \in SUBSET Fd
    /\ told \in [Conn -> Message]
    /\ again \in [Conn -> BOOLEAN]

(* A registered descriptor is open and belongs to a live connection, as its*)
(* client or its origin: the data pointer the selector hands to a handler  *)
(* is never one that destroy_socks5 has freed                              *)
RegistrationsOwned ==
    \A f \in Fd : Registered(f) =>
        /\ f \in open
        /\ Live(item[f].conn)
        /\ f \in OwnFds(sock[item[f].conn])

(* While the process serves, its open descriptors are exactly those of the *)
(* live connections, no two share one, and a live client is registered:    *)
(* the error paths of connect.c and destroy_socks5 leak nothing            *)
FdsOwned ==
    Serving =>
        /\ open = UNION {OwnFds(sock[c]) : c \in Conn}
        /\ \A c, d \in Conn : c # d => OwnFds(sock[c]) \cap OwnFds(sock[d]) = {}
        /\ \A c \in Conn : Live(c) => /\ sock[c].client # None
                                     /\ item[sock[c].client].conn = c

(* The count passive_accept compares with MAX_POOL by == is the number of  *)
(* connections there are, and never passes it                              *)
CountIsPool ==
    /\ concurrent = Cardinality({c \in Conn : Live(c)})
    /\ concurrent <= MaxPool

(* The client is told SUCCEDED exactly when there is a socket to relay to, *)
(* and no error path of connect.c keeps one                                *)
StatusMatchesOrigin ==
    \A c \in Conn :
        /\ sock[c].st \in {"RESPONSE_WRITING", "COPY"} =>
              (sock[c].status = "SUCCEDED" <=> sock[c].origin # None)
        /\ sock[c].st \in {"HELLO", "HELLO_AUTH", "REQUEST_READING", "DNS_QUERY"} =>
              sock[c].origin = None
        /\ link[c] = "none" <=> sock[c].origin = None

(* The struct a resolver thread writes to is alive, waits for it, and its  *)
(* client is the descriptor the thread captured: the raw pointer in the    *)
(* copied key never dangles                                                *)
ResolverOwnerAlive ==
    \A c \in Conn : resolver[c].phase # "none" =>
        /\ sock[c].st = "DNS_QUERY"
        /\ resolver[c].fd = sock[c].client

(* A notified job, which names only a descriptor, finds the connection     *)
(* whose thread pushed it, still waiting, and there is one for each        *)
JobsFindOwner ==
    /\ \A i \in DOMAIN jobs :
          /\ Registered(jobs[i])
          /\ LET c == item[jobs[i]].conn
             IN  sock[c].st = "DNS_QUERY" /\ resolver[c].phase = "none"
    /\ \A i, j \in DOMAIN jobs : i # j => jobs[i] # jobs[j]

(* A name that is resolved comes back to the connection that asked for it, *)
(* from the thread's pointer to the job's descriptor                       *)
ResolutionFindsOwner == ResolverOwnerAlive /\ JobsFindOwner

(* Two things leave a connection in DNS_QUERY for good, both of which the  *)
(* code ignores: its thread could not be created (dns_query_st.c), or found*)
(* no memory for the job (selector_notify_block)                           *)
Abandoned(c) == resolver[c].phase \in {"uncreated", "unheard"}

(* A connection that waits for its name has a thread that runs or a job in *)
(* the list to wake it up, unless it was abandoned in one of these two     *)
(* ways, and then it has neither                                           *)
NobodyForgotten ==
    Serving => \A c \in Conn :
        LET awaited == \/ resolver[c].phase \in {"resolving", "answered"}
                       \/ \E i \in DOMAIN jobs : jobs[i] = sock[c].client
        IN  sock[c].st = "DNS_QUERY" => (awaited <=> ~ Abandoned(c))

(* A client that may go on to its request: its method is NOAUTH, or its    *)
(* login was right                                                         *)
Admitted == {[kind |-> "method", value |-> "NOAUTH"], [kind |-> "auth", value |-> TRUE]}

(* The wrong jump of connect_origin (connect.c:258): a request that gave no*)
(* address, which is not answered, and what follows it is taken for a login*)
TakenForLogin(s) == s.parsed \in {"unsupported", "partial"} /\ s.atype = "none"

(* What a client is sent is a SOCKS exchange.  Its method comes first.  The*)
(* status of a login follows method AUTH and nothing else, but for the one *)
(* request that is taken for a login.  One reply follows, to a client that *)
(* is admitted; nothing comes after a refusal, and bytes of the origin only*)
(* after SUCCEDED.  Every send counts, that of the same message too.       *)
MayFollow(s, before, m) ==
    CASE m.kind = "nothing" -> s.st = "FREED"
      [] m.kind = "method" -> before.kind = "nothing"
      [] m.kind = "auth" -> \/ before = [kind |-> "method", value |-> "AUTH"]
                            \/ before \in Admitted /\ TakenForLogin(s)
      [] m.kind = "reply" -> before \in Admitted
      [] m.kind = "data" -> \/ before = [kind |-> "reply", value |-> "SUCCEDED"]
                            \/ before.kind = "data"
RepliesInOrder ==
    [][\A c \in Conn : <<told'[c], again'[c]>> # <<told[c], again[c]>> =>
            MayFollow(sock[c], told[c], told'[c])]_vars

(* stm.c aborts in three ways only: an origin that is readable before the  *)
(* reply is sent; the event of a closed descriptor that reaches the new    *)
(* origin that got its number, in the same state; and a client that goes on*)
(* sending after a name that was not whole went to be resolved             *)
AbortCauses ==
    [][proc' = "aborted" /\ proc # "aborted" =>
          \E c \in Conn :
              \/ sock[c].st = "RESPONSE_WRITING" /\ link[c] \in {"up", "failed"}
              \/ sock[c].st = "RESPONSE_WRITING" /\ sock[c].origin \in stale
              \/ sock[c].st = "DNS_QUERY" /\ sock[c].parsed = "partial"]_vars

(* destroy_socks5 gives up the process in one way only: the connect to the *)
(* origin was done at once, and its descriptor was never registered        *)
ExitCauses ==
    [][proc' = "exited" /\ proc # "exited" =>
          \E c \in Conn :
              /\ sock[c].st \in {"RESPONSE_WRITING", "COPY"} /\ link[c] = "up"
              /\ sock[c].origin # None /\ ~ Registered(sock[c].origin)]_vars

(* Only an abandoned connection waits for its name forever *)
ResolutionAnswered ==
    \A c \in Conn :
        sock[c].st = "DNS_QUERY" ~> sock[c].st # "DNS_QUERY" \/ Abandoned(c) \/ ~ Serving

-----------------------------------------------------------------------------
(* What the repository says of the program, and the code does not do       *)

(* stm.c aborts when a state gets an event it has no handler for: an       *)
(* assertion that the states' interests never let one through              *)
NeverAborted == proc # "aborted"

(* A name is refused only after every address that comes after the one     *)
(* that failed has been tried                                              *)
NextAddressTried ==
    \A c \in Conn :
        LET addrs == sock[c].addrs
        IN  sock[c].st = "RESPONSE_WRITING" /\ sock[c].status = "NETWORK_UNREACHABLE" =>
                ~ \E i, j \in DOMAIN addrs :
                      i < j /\ addrs[i] = "ENETUNREACH" /\ addrs[j] = "starts"
=============================================================================
