---------------------------- MODULE Socks5Proofs ----------------------------
(***************************************************************************)
(* Proofs about the life of connections, for any number of connections,    *)
(* descriptors and places in the pool and any list of addresses.           *)
(***************************************************************************)
EXTENDS Socks5, SequenceTheorems, FiniteSetTheorems, TLAPS

-----------------------------------------------------------------------------
(* The inductive invariant, connection by connection and descriptor by     *)
(* descriptor.  Beyond what the runs state it needs: what a connection     *)
(* that has not been answered yet looks like, which interests its client   *)
(* has in each state, and that a pending connect is a registered one.      *)
Early == {"HELLO", "HELLO_AUTH", "REQUEST_READING", "DNS_QUERY"}
HasJob(f) == \E i \in DOMAIN jobs : jobs[i] = f

Owner(c) ==
    /\ ~ Live(c) => sock[c] = Freed
    /\ Live(c) => /\ sock[c].client # None /\ item[sock[c].client].conn = c
    /\ OwnFds(sock[c]) \subseteq open
    /\ link[c] \in {"pending", "failed"} => item[sock[c].origin].conn = c

Statuses(c) ==
    /\ sock[c].st \in Early => sock[c].origin = None /\ sock[c].status = "SUCCEDED"
    /\ sock[c].st \in {"RESPONSE_WRITING", "COPY"} =>
          (sock[c].status = "SUCCEDED" <=> sock[c].origin # None)
    /\ link[c] = "none" <=> sock[c].origin = None

Interests(c) ==
    /\ sock[c].st = "REQUEST_READING" => item[sock[c].client].interest = {OP_READ}
    /\ sock[c].st = "RESPONSE_WRITING" => item[sock[c].client].interest = {OP_WRITE}
    /\ sock[c].st = "DNS_QUERY" => item[sock[c].client].interest = {} \/ sock[c].parsed = "partial"

Resolution(c) ==
    /\ resolver[c].phase # "none" => sock[c].st = "DNS_QUERY" /\ resolver[c].fd = sock[c].client
    /\ sock[c].st = "DNS_QUERY" => resolver[c].phase # "none" \/ HasJob(sock[c].client)

ConnInv(c) == Owner(c) /\ Statuses(c) /\ Interests(c) /\ Resolution(c)

FdInv(f) ==
    /\ item[f].conn # None => Live(item[f].conn) /\ f \in OwnFds(sock[item[f].conn])
    /\ f \in open => \E c \in Conn : f \in OwnFds(sock[c])

Apart == \A c, d \in Conn : c # d => OwnFds(sock[c]) \cap OwnFds(sock[d]) = {}

JobInv(i) ==
    LET c == item[jobs[i]].conn
    IN  c # None /\ sock[c].st = "DNS_QUERY" /\ resolver[c].phase = "none"

Jobs ==
    /\ \A i \in DOMAIN jobs : JobInv(i)
    /\ \A i, j \in DOMAIN jobs : i # j => jobs[i] # jobs[j]

LiveConns == {c \in Conn : Live(c)}
Counted == IsFiniteSet(LiveConns) /\ concurrent = Cardinality(LiveConns)

(* The selector goes through the list only while there is one *)
Noticing == proc = "notify" => jobs # <<>>

(* What a client can have been sent last in each state *)
Said(c) ==
    /\ sock[c].st = "HELLO" => told[c].kind = "nothing"
    /\ sock[c].st = "HELLO_AUTH" => \/ told[c] = [kind |-> "method", value |-> "AUTH"]
                                    \/ told[c] \in Admitted /\ TakenForLogin(sock[c])
    /\ sock[c].st \in {"REQUEST_READING", "DNS_QUERY", "RESPONSE_WRITING"} => told[c] \in Admitted
    /\ sock[c].st = "COPY" => \/ told[c] = [kind |-> "reply", value |-> "SUCCEDED"]
                              \/ told[c].kind = "data"

IInv ==
    /\ TypeOK
    /\ \A c \in Conn : ConnInv(c) /\ Said(c)
    /\ \A f \in Fd : FdInv(f)
    /\ Apart /\ Jobs /\ Counted /\ Noticing

LEMMA OpsDiffer == OP_READ # OP_WRITE
BY DEF OP_READ, OP_WRITE

(* What the conjuncts of the invariant say of one connection. *)
LEMMA Connection ==
    ASSUME IInv, NEW c \in Conn
    PROVE  /\ sock[c] \in Sock /\ ConnInv(c)
           /\ OwnFds(sock[c]) \subseteq Fd /\ OwnFds(sock[c]) \subseteq open
           /\ Live(c) => sock[c].client \in Fd /\ sock[c].client \in OwnFds(sock[c])
           /\ sock[c].origin # None => sock[c].origin \in OwnFds(sock[c])
           /\ ~ Live(c) => sock[c] = Freed /\ OwnFds(sock[c]) = {} /\ link[c] = "none"
                           /\ resolver[c].phase = "none"
<1>1. sock[c] \in Sock /\ ConnInv(c)
    BY DEF IInv, TypeOK
<1>2. /\ OwnFds(sock[c]) \subseteq Fd /\ OwnFds(sock[c]) \subseteq open
      /\ Live(c) => sock[c].client \in Fd /\ sock[c].client \in OwnFds(sock[c])
      /\ sock[c].origin # None => sock[c].origin \in OwnFds(sock[c])
    BY <1>1 DEF Sock, OwnFds, ConnInv, Owner
<1>3. ASSUME ~ Live(c)
      PROVE  /\ sock[c] = Freed /\ OwnFds(sock[c]) = {} /\ link[c] = "none"
             /\ resolver[c].phase = "none"
    BY <1>1, <1>3 DEF ConnInv, Owner, Statuses, Resolution, Freed, OwnFds
<1> QED
    BY <1>1, <1>2, <1>3

-----------------------------------------------------------------------------
(* A step of one connection c: it changes c, the descriptors c had and     *)
(* those of N, which were not open, and nothing else.                      *)
Touches(c, N) ==
    /\ N \subseteq Fd /\ N \cap open = {}
    /\ \A d \in Conn : d # c =>
          sock'[d] = sock[d] /\ link'[d] = link[d] /\ resolver'[d] = resolver[d]
    /\ \A f \in Fd : f \notin OwnFds(sock[c]) \cup N => item'[f] = item[f]
    /\ OwnFds(sock'[c]) \subseteq OwnFds(sock[c]) \cup N
    /\ open' = (open \ OwnFds(sock[c])) \cup OwnFds(sock'[c])
    /\ \A f \in OwnFds(sock[c]) \cup N : item'[f].conn # None =>
          item'[f].conn = c /\ sock'[c].st # "FREED" /\ f \in OwnFds(sock'[c])

(* The other connections and their descriptors are as they were. *)
LEMMA OthersKeep ==
    ASSUME IInv, NEW c \in Conn, NEW N, Touches(c, N), ConnInv(c)',
           \A f \in Fd : f \notin OwnFds(sock[c]) \cup N => (HasJob(f)' <=> HasJob(f))
    PROVE  (\A d \in Conn : ConnInv(d))' /\ (\A f \in Fd : FdInv(f))' /\ Apart'
<1>1. ASSUME NEW d \in Conn, d # c
      PROVE  /\ OwnFds(sock'[d]) = OwnFds(sock[d])
             /\ \A f \in OwnFds(sock[d]) :
                   /\ f \in Fd /\ f \in open
                   /\ f \notin OwnFds(sock[c]) \cup N /\ item'[f] = item[f]
                   /\ HasJob(f)' <=> HasJob(f)
    <2>1. OwnFds(sock[d]) \cap OwnFds(sock[c]) = {}
        BY <1>1 DEF IInv, Apart
    <2>2. OwnFds(sock[d]) \subseteq Fd /\ OwnFds(sock[d]) \subseteq open
        BY Connection
    <2> QED
        BY <1>1, <2>1, <2>2 DEF Touches
<1>2. ASSUME NEW d \in Conn PROVE ConnInv(d)'
    <2>1. CASE d = c
        BY <2>1
    <2>2. CASE d # c
        <3>1. /\ ConnInv(d)
              /\ Live(d) => sock[d].client \in Fd /\ sock[d].client \in OwnFds(sock[d])
              /\ sock[d].origin # None => sock[d].origin \in OwnFds(sock[d])
              /\ ~ Live(d) => sock[d] = Freed
            BY Connection
        <3>2. sock'[d] = sock[d] /\ link'[d] = link[d] /\ resolver'[d] = resolver[d]
            BY <2>2 DEF Touches
        <3>3. OwnFds(sock[d]) \subseteq open'
            BY <1>1, <2>2 DEF Touches
        <3>4. Live(d) => /\ item'[sock[d].client] = item[sock[d].client]
                         /\ HasJob(sock[d].client)' <=> HasJob(sock[d].client)
            BY <1>1, <2>2, <3>1, <3>2
        <3>5. link[d] # "none" => item'[sock[d].origin] = item[sock[d].origin]
            BY <1>1, <2>2, <3>1 DEF ConnInv, Statuses
        <3>6. Owner(d)'
            BY <3>1, <3>2, <3>3, <3>4, <3>5 DEF ConnInv, Owner, Live
        <3>7. Statuses(d)'
            BY <3>1, <3>2 DEF ConnInv, Statuses
        <3>8. Interests(d)'
            BY <3>1, <3>2, <3>4 DEF ConnInv, Interests, Live
        <3>9. Resolution(d)'
            BY <3>1, <3>2, <3>4 DEF ConnInv, Resolution, Live
        <3> QED
            BY <3>6, <3>7, <3>8, <3>9 DEF ConnInv
    <2> QED
        BY <2>1, <2>2
<1>3. ASSUME NEW f \in Fd PROVE FdInv(f)'
    <2>1. CASE f \in OwnFds(sock[c]) \cup N
        BY <2>1 DEF Touches, FdInv, Live
    <2>2. CASE f \notin OwnFds(sock[c]) \cup N
        <3>1. FdInv(f) /\ item'[f] = item[f] /\ (f \in open' => f \in open)
            BY <2>2 DEF IInv, Touches
        <3>2. item[f].conn \in Conn \cup {None}
            BY DEF IInv, TypeOK
        <3>3. ASSUME NEW d \in Conn, f \in OwnFds(sock[d])
              PROVE  sock'[d] = sock[d]
            BY <2>2, <3>3 DEF Touches
        <3>4. item'[f].conn # None =>
                  sock'[item'[f].conn].st # "FREED" /\ f \in OwnFds(sock'[item'[f].conn])
            BY <3>1, <3>2, <3>3 DEF FdInv, Live
        <3>5. f \in open' => \E d \in Conn : f \in OwnFds(sock'[d])
            BY <3>1, <3>3 DEF FdInv
        <3> QED
            BY <3>4, <3>5 DEF FdInv, Live
    <2> QED
        BY <2>1, <2>2
<1>4. Apart'
    <2> SUFFICES ASSUME NEW d \in Conn, NEW e \in Conn, d # e
                 PROVE  OwnFds(sock'[d]) \cap OwnFds(sock'[e]) = {}
        BY DEF Apart
    <2>1. CASE d # c /\ e # c
        BY <1>1, <2>1 DEF IInv, Apart
    <2>2. CASE d = c
        BY <1>1, <2>2 DEF Touches
    <2>3. CASE e = c
        BY <1>1, <2>3 DEF Touches
    <2> QED
        BY <2>1, <2>2, <2>3
<1> QED
    BY <1>2, <1>3, <1>4

(* The jobs of other connections keep their owners. *)
LEMMA JobsKeep ==
    ASSUME IInv, NEW c \in Conn, NEW N, Touches(c, N), jobs' = jobs,
           \A i \in DOMAIN jobs : item[jobs[i]].conn # c
    PROVE  Jobs' /\ \A f : HasJob(f)' <=> HasJob(f)
<1>1. \A f : HasJob(f)' <=> HasJob(f)
    BY DEF HasJob
<1>2. ASSUME NEW i \in DOMAIN jobs PROVE JobInv(i)'
    <2>1. jobs[i] \in Fd /\ JobInv(i) /\ item[jobs[i]].conn \in Conn /\ FdInv(jobs[i])
        BY DEF IInv, TypeOK, Jobs, JobInv
    <2>2. jobs[i] \in OwnFds(sock[item[jobs[i]].conn])
        BY <2>1 DEF FdInv, JobInv
    <2>3. jobs[i] \notin OwnFds(sock[c]) /\ jobs[i] \in open
        BY <2>1, <2>2, Connection DEF IInv, Apart
    <2>4. item'[jobs[i]] = item[jobs[i]]
        BY <2>1, <2>3 DEF Touches
    <2> QED
        BY <2>1, <2>4 DEF Touches, JobInv
<1> QED
    BY <1>1, <1>2 DEF IInv, Jobs

(* A job belongs to a connection in DNS_QUERY whose thread is done. *)
LEMMA NoJobOf ==
    ASSUME IInv, NEW c \in Conn, sock[c].st # "DNS_QUERY" \/ resolver[c].phase # "none"
    PROVE  \A i \in DOMAIN jobs : item[jobs[i]].conn # c
BY DEF IInv, Jobs, JobInv

-----------------------------------------------------------------------------
(* The kinds of step: what the actions do to the connection, apart from    *)
(* the process and from what the client is told.                           *)
CoreTypes ==
    /\ item \in [Fd -> [conn : Conn \cup {None}, interest : SUBSET {OP_READ, OP_WRITE}]]
    /\ open \in SUBSET Fd
    /\ sock \in [Conn -> Sock]
    /\ concurrent \in 0 .. MaxPool
    /\ resolver \in [Conn -> [phase : Phase, fd : Fd \cup {None}]]
    /\ jobs \in Seq(Fd)
    /\ link \in [Conn -> {"none", "pending", "up", "failed"}]

Core ==
    /\ CoreTypes
    /\ \A c \in Conn : ConnInv(c)
    /\ \A f \in Fd : FdInv(f)
    /\ Apart /\ Jobs /\ Counted

Outside ==
    /\ proc \in {"select", "notify", "aborted", "exited"}
    /\ told \in [Conn -> Message]
    /\ Noticing
    /\ \A c \in Conn : Said(c)

Marks == stale \in SUBSET Fd /\ again \in [Conn -> BOOLEAN]

LEMMA InvariantParts == IInv <=> Core /\ Outside /\ Marks
BY DEF IInv, Core, Outside, Marks, TypeOK, CoreTypes

LEMMA CoreStutters ==
    ASSUME IInv, UNCHANGED <<item, open, sock, concurrent, resolver, jobs, link>>
    PROVE  Core'
<1>1. CoreTypes'
    BY DEF IInv, TypeOK, CoreTypes
<1>2. ASSUME NEW c \in Conn PROVE ConnInv(c)'
    <2>1. ConnInv(c)
        BY DEF IInv
    <2> QED
        BY <2>1 DEF ConnInv, Owner, Live, OwnFds, Statuses, Interests, Resolution, HasJob
<1>3. ASSUME NEW f \in Fd PROVE FdInv(f)'
    BY DEF IInv, FdInv, Live, OwnFds
<1>4. Apart'
    BY DEF IInv, Apart, OwnFds
<1>5. Jobs'
    BY DEF IInv, Jobs, JobInv
<1>6. Counted'
    BY DEF IInv, Counted, LiveConns, Live
<1> QED
    BY <1>1, <1>2, <1>3, <1>4, <1>5, <1>6 DEF Core

LEMMA SameCount ==
    ASSUME IInv, concurrent' = concurrent, \A c \in Conn : Live(c)' <=> Live(c)
    PROVE  Counted'
<1>1. LiveConns' = LiveConns
    BY DEF LiveConns
<1> QED
    BY <1>1 DEF IInv, Counted

(* A handler that keeps the connection's descriptors and only changes its  *)
(* state and its client's interest.                                        *)
LEMMA Relabels ==
    ASSUME IInv, NEW c \in Conn, NEW new \in Sock, NEW ops \in SUBSET {OP_READ, OP_WRITE},
           Live(c), new.st # "FREED", sock[c].st # "DNS_QUERY", new.st # "DNS_QUERY",
           new.client = sock[c].client, new.origin = sock[c].origin,
           new.status = sock[c].status,
           new.st \in Early <=> sock[c].st \in Early,
           new.st = "REQUEST_READING" => ops = {OP_READ},
           new.st = "RESPONSE_WRITING" => ops = {OP_WRITE},
           sock' = [sock EXCEPT ![c] = new],
           item' = SetInterest(c, ops),
           UNCHANGED <<open, concurrent, resolver, jobs, link>>
    PROVE  Core'
<1>1. /\ sock[c] \in Sock /\ ConnInv(c) /\ OwnFds(sock[c]) \subseteq open
      /\ sock[c].client \in Fd /\ sock[c].client \in OwnFds(sock[c])
      /\ sock[c].origin # None => sock[c].origin \in OwnFds(sock[c])
      /\ OwnFds(sock[c]) \subseteq Fd
    BY Connection
<1>2. /\ item \in [Fd -> [conn : Conn \cup {None}, interest : SUBSET {OP_READ, OP_WRITE}]]
      /\ sock \in [Conn -> Sock]
    BY DEF IInv, TypeOK
<1>3. /\ item' \in [Fd -> [conn : Conn \cup {None}, interest : SUBSET {OP_READ, OP_WRITE}]]
      /\ \A f \in Fd : item'[f].conn = item[f].conn
      /\ \A f \in Fd : f # sock[c].client => item'[f] = item[f]
      /\ item'[sock[c].client].interest = ops
    BY <1>1, <1>2 DEF SetInterest
<1>4. /\ sock' \in [Conn -> Sock] /\ sock'[c] = new
      /\ \A d \in Conn : d # c => sock'[d] = sock[d]
    BY <1>2
<1>5. OwnFds(new) = OwnFds(sock[c])
    BY DEF OwnFds
<1>6. \A f \in OwnFds(sock[c]) : item[f].conn = c \/ item[f].conn = None
    <2>1. ASSUME NEW f \in OwnFds(sock[c]), item[f].conn # None PROVE item[f].conn = c
        <3>1. FdInv(f) /\ item[f].conn \in Conn
            BY <1>1, <1>2, <2>1 DEF IInv
        <3> QED
            BY <2>1, <3>1 DEF FdInv, IInv, Apart
    <2> QED
        BY <2>1
<1>7. Touches(c, {})
    BY <1>1, <1>3, <1>4, <1>5, <1>6 DEF Touches
<1>8. ConnInv(c)'
    <2>1. Owner(c)'
        BY <1>1, <1>3, <1>4, <1>5 DEF ConnInv, Owner, Live, Statuses
    <2>2. Statuses(c)'
        BY <1>1, <1>4 DEF ConnInv, Statuses, Sock, State, Early, Live
    <2>3. Interests(c)'
        BY <1>1, <1>3, <1>4 DEF Interests
    <2>4. Resolution(c)'
        BY <1>1, <1>4 DEF ConnInv, Resolution
    <2> QED
        BY <2>1, <2>2, <2>3, <2>4 DEF ConnInv
<1>9. Jobs' /\ \A f : HasJob(f)' <=> HasJob(f)
    BY <1>7, JobsKeep, NoJobOf
<1>10. (\A d \in Conn : ConnInv(d))' /\ (\A f \in Fd : FdInv(f))' /\ Apart'
    BY <1>7, <1>8, <1>9, OthersKeep
<1>11. Counted'
    BY <1>4, SameCount DEF Live
<1>12. CoreTypes'
    BY <1>3, <1>4 DEF IInv, TypeOK, CoreTypes
<1> QED
    BY <1>9, <1>10, <1>11, <1>12 DEF Core

(* destroy_socks5 when it does not give up the process. *)
LEMMA DestroyKeeps ==
    ASSUME IInv, NEW c \in Conn, Live(c), Destroy(c), sock[c].st # "DNS_QUERY",
           UNCHANGED <<resolver, jobs>>
    PROVE  Core' /\ proc' \in {proc, "exited"}
<1>1. CASE ~ \A f \in OwnFds(sock[c]) : Registered(f)
    <2>1. UNCHANGED <<item, open, sock, link, concurrent, resolver, jobs>> /\ proc' = "exited"
        BY <1>1 DEF Destroy
    <2> QED
        BY <2>1, CoreStutters
<1>2. CASE \A f \in OwnFds(sock[c]) : Registered(f)
    <2>1. /\ item' = [f \in Fd |-> IF f \in OwnFds(sock[c]) THEN Unused ELSE item[f]]
          /\ open' = open \ OwnFds(sock[c])
          /\ sock' = [sock EXCEPT ![c] = Freed]
          /\ link' = [link EXCEPT ![c] = "none"]
          /\ concurrent' = concurrent - 1
          /\ proc' = proc
        BY <1>2 DEF Destroy, RemoveConcurrent
    <2>2. /\ CoreTypes /\ OwnFds(sock[c]) \subseteq Fd /\ ConnInv(c)
        BY Connection DEF IInv, TypeOK, CoreTypes
    <2>3. /\ Freed \in Sock /\ OwnFds(Freed) = {} /\ Freed.st = "FREED"
          /\ Freed.origin = None /\ Freed.client = None
        BY EmptySeq DEF Freed, Sock, Method, Reply, OwnFds
    <2>4. sock'[c] = Freed /\ link'[c] = "none" /\ \A f \in OwnFds(sock[c]) : item'[f].conn = None
        BY <2>1, <2>2 DEF CoreTypes, Unused
    <2>5. Touches(c, {})
        BY <2>1, <2>2, <2>3, <2>4 DEF Touches, CoreTypes
    <2>6. ConnInv(c)'
        <3>1. resolver'[c].phase = "none"
            BY <2>2 DEF ConnInv, Resolution
        <3> QED
            BY <2>3, <2>4, <3>1 DEF ConnInv, Owner, Statuses, Interests, Resolution, Live, Early
    <2>7. Jobs' /\ \A f : HasJob(f)' <=> HasJob(f)
        BY <2>5, JobsKeep, NoJobOf
    <2>8. (\A d \in Conn : ConnInv(d))' /\ (\A f \in Fd : FdInv(f))' /\ Apart'
        BY <2>5, <2>6, <2>7, OthersKeep
    <2>9. LiveConns' = LiveConns \ {c} /\ c \in LiveConns
        BY <2>1, <2>2, <2>3 DEF LiveConns, Live, CoreTypes
    <2>10. Counted' /\ concurrent' \in 0 .. MaxPool
        <3>1. /\ IsFiniteSet(LiveConns) /\ concurrent = Cardinality(LiveConns)
              /\ concurrent \in 0 .. MaxPool
            BY DEF IInv, Counted, TypeOK
        <3>2. IsFiniteSet(LiveConns') /\ Cardinality(LiveConns') = Cardinality(LiveConns) - 1
            BY <2>9, <3>1, FS_RemoveElement
        <3>3. Cardinality(LiveConns') \in Nat
            BY <3>2, FS_CardinalityType
        <3> QED
            BY <2>1, <3>1, <3>2, <3>3, MaxPoolAssumption DEF Counted
    <2>11. CoreTypes'
        BY <2>1, <2>2, <2>3, <2>10 DEF CoreTypes, Unused
    <2> QED
        BY <2>1, <2>7, <2>8, <2>10, <2>11 DEF Core
<1> QED
    BY <1>1, <1>2

(* The first job is taken off the list: it was its connection's only one.  *)
LEMMA JobTaken ==
    ASSUME IInv, NEW c \in Conn, NEW N, Touches(c, N),
           jobs # <<>>, jobs' = Tail(jobs), item[Head(jobs)].conn = c
    PROVE  Jobs' /\ \A f \in Fd : f \notin OwnFds(sock[c]) \cup N => (HasJob(f)' <=> HasJob(f))
<1>1. /\ jobs \in Seq(Fd) /\ Len(jobs) \in Nat /\ Len(jobs) > 0 /\ DOMAIN jobs = 1 .. Len(jobs)
      /\ Head(jobs) = jobs[1] /\ DOMAIN jobs' = 1 .. Len(jobs) - 1
      /\ \A i \in DOMAIN jobs' : i + 1 \in DOMAIN jobs /\ jobs'[i] = jobs[i + 1]
    <2>1. jobs \in Seq(Fd) /\ Len(jobs) \in Nat /\ DOMAIN jobs = 1 .. Len(jobs)
        BY LenProperties DEF IInv, TypeOK
    <2>2. /\ Head(jobs) = jobs[1] /\ Tail(jobs) \in Seq(Fd) /\ Len(Tail(jobs)) = Len(jobs) - 1
          /\ \A i \in 1 .. Len(Tail(jobs)) : Tail(jobs)[i] = jobs[i + 1]
        BY <2>1, HeadTailProperties
    <2>3. DOMAIN Tail(jobs) = 1 .. Len(Tail(jobs)) /\ Len(Tail(jobs)) \in Nat
        BY <2>2, LenProperties
    <2> QED
        BY <2>1, <2>2, <2>3
<1>2. ASSUME NEW i \in DOMAIN jobs
      PROVE  /\ jobs[i] \in Fd /\ JobInv(i) /\ item[jobs[i]].conn \in Conn
             /\ jobs[i] \in OwnFds(sock[item[jobs[i]].conn]) /\ jobs[i] \in open
    <2>1. jobs[i] \in Fd
        BY <1>1, ElementOfSeq
    <2>2. JobInv(i) /\ item[jobs[i]].conn \in Conn /\ FdInv(jobs[i])
        BY <2>1 DEF IInv, TypeOK, Jobs, JobInv
    <2>3. jobs[i] \in OwnFds(sock[item[jobs[i]].conn])
        BY <2>2 DEF FdInv, JobInv
    <2> QED
        BY <2>1, <2>2, <2>3, Connection
<1>3. 1 \in DOMAIN jobs /\ sock[c].st = "DNS_QUERY" /\ sock[c].origin = None
    <2>1. 1 \in DOMAIN jobs
        BY <1>1
    <2>2. sock[c].st = "DNS_QUERY"
        BY <1>1, <1>2, <2>1 DEF JobInv
    <2> QED
        BY <2>1, <2>2, Connection DEF ConnInv, Statuses, Early
<1>4. OwnFds(sock[c]) \subseteq {sock[c].client} /\ jobs[1] = sock[c].client
    BY <1>1, <1>2, <1>3 DEF OwnFds
<1>5. ASSUME NEW i \in DOMAIN jobs' PROVE item[jobs[i + 1]].conn # c
    <2>1. i + 1 \in DOMAIN jobs /\ i + 1 # 1
        BY <1>1
    <2>2. jobs[i + 1] # jobs[1]
        BY <2>1, <1>3 DEF IInv, Jobs
    <2> QED
        BY <1>2, <1>4, <2>1, <2>2
<1>6. ASSUME NEW i \in DOMAIN jobs' PROVE JobInv(i)'
    <2>1. i + 1 \in DOMAIN jobs /\ jobs'[i] = jobs[i + 1]
        BY <1>1
    <2> DEFINE f == jobs[i + 1]
               d == item[f].conn
    <2>2. f \in Fd /\ f \in open /\ d \in Conn /\ d # c /\ f \in OwnFds(sock[d]) /\ JobInv(i + 1)
        BY <1>2, <1>5, <2>1
    <2>3. f \notin OwnFds(sock[c]) \cup N
        BY <2>2 DEF IInv, Apart, Touches
    <2>4. item'[f] = item[f] /\ sock'[d] = sock[d] /\ resolver'[d] = resolver[d]
        BY <2>2, <2>3 DEF Touches
    <2> QED
        BY <2>1, <2>2, <2>4 DEF JobInv
<1>7. \A i, j \in DOMAIN jobs' : i # j => jobs'[i] # jobs'[j]
    <2> SUFFICES ASSUME NEW i \in DOMAIN jobs', NEW j \in DOMAIN jobs', i # j
                 PROVE  jobs'[i] # jobs'[j]
        OBVIOUS
    <2>1. i + 1 \in DOMAIN jobs /\ j + 1 \in DOMAIN jobs /\ i + 1 # j + 1
        BY <1>1
    <2> QED
        BY <1>1, <2>1 DEF IInv, Jobs
<1>8. ASSUME NEW f \in Fd, f \notin OwnFds(sock[c]) \cup N PROVE HasJob(f)' <=> HasJob(f)
    <2>1. f # jobs[1]
        BY <1>2, <1>3, <1>1, <1>8
    <2>2. ASSUME NEW i \in DOMAIN jobs, jobs[i] = f PROVE \E j \in DOMAIN jobs' : jobs'[j] = f
        <3>1. i # 1
            BY <2>1, <2>2
        <3>2. i - 1 \in DOMAIN jobs' /\ (i - 1) + 1 = i
            BY <1>1, <3>1
        <3>3. jobs'[i - 1] = jobs[(i - 1) + 1]
            BY <1>1, <3>2
        <3> QED
            BY <2>2, <3>2, <3>3
    <2>3. HasJob(f) => HasJob(f)'
        BY <2>2 DEF HasJob
    <2>4. HasJob(f)' => HasJob(f)
        BY <1>1 DEF HasJob
    <2> QED
        BY <2>3, <2>4
<1> QED
    BY <1>6, <1>7, <1>8 DEF Jobs

(* socksv5_passive_accept *)
LEMMA AcceptKeeps ==
    ASSUME IInv, NEW c \in Conn, Accept(c)
    PROVE  Core'
<1>1. PICK f \in Fd \ open :
          /\ open' = open \cup {f}
          /\ item' = [item EXCEPT ![f] = [conn |-> c, interest |-> {OP_READ}]]
          /\ sock' = [sock EXCEPT ![c] = [Freed EXCEPT !.st = "HELLO", !.client = f]]
    BY DEF Accept
<1> DEFINE new == [Freed EXCEPT !.st = "HELLO", !.client = f]
<1>2. /\ new \in Sock /\ new.st = "HELLO" /\ new.client = f /\ new.origin = None
      /\ new.status = "SUCCEDED"
    BY EmptySeq DEF Freed, Sock, State, Method, Reply
<1>3. OwnFds(new) = {f}
    BY <1>2, NoneAssumption DEF OwnFds
<1>4. /\ sock[c].st = "FREED" /\ concurrent # MaxPool /\ concurrent' = concurrent + 1
      /\ UNCHANGED <<resolver, jobs, link>>
    BY DEF Accept, Live, AddConcurrent
<1>5. OwnFds(sock[c]) = {} /\ link[c] = "none" /\ resolver[c].phase = "none" /\ CoreTypes
    BY <1>4, Connection DEF Live, IInv, TypeOK, CoreTypes
<1> HIDE DEF new
<1>6. /\ sock' \in [Conn -> Sock] /\ sock'[c] = new /\ \A d \in Conn : d # c => sock'[d] = sock[d]
      /\ item' \in [Fd -> [conn : Conn \cup {None}, interest : SUBSET {OP_READ, OP_WRITE}]]
      /\ item'[f].conn = c /\ \A g \in Fd : g # f => item'[g] = item[g]
    BY <1>1, <1>2, <1>5 DEF CoreTypes, new
<1>7. Touches(c, {f})
    BY <1>1, <1>2, <1>3, <1>4, <1>5, <1>6 DEF Touches
<1>8. ConnInv(c)'
    <2>1. Owner(c)'
        BY <1>1, <1>2, <1>3, <1>4, <1>5, <1>6, NoneAssumption DEF Owner, Live
    <2>2. Statuses(c)' /\ Interests(c)' /\ Resolution(c)'
        BY <1>2, <1>4, <1>5, <1>6 DEF Statuses, Interests, Resolution
    <2> QED
        BY <2>1, <2>2 DEF ConnInv
<1>9. Jobs' /\ \A g : HasJob(g)' <=> HasJob(g)
    BY <1>4, <1>7, JobsKeep, NoJobOf
<1>10. (\A d \in Conn : ConnInv(d))' /\ (\A g \in Fd : FdInv(g))' /\ Apart'
    BY <1>7, <1>8, <1>9, OthersKeep
<1>11. LiveConns' = LiveConns \cup {c} /\ c \notin LiveConns
    BY <1>2, <1>4, <1>6 DEF LiveConns, Live
<1>12. Counted' /\ concurrent' \in 0 .. MaxPool
    <2>1. /\ IsFiniteSet(LiveConns) /\ concurrent = Cardinality(LiveConns)
          /\ concurrent \in 0 .. MaxPool
        BY DEF IInv, Counted, TypeOK
    <2>2. IsFiniteSet(LiveConns') /\ Cardinality(LiveConns') = Cardinality(LiveConns) + 1
        BY <1>11, <2>1, FS_AddElement
    <2> QED
        BY <1>4, <2>1, <2>2, MaxPoolAssumption DEF Counted
<1>13. CoreTypes'
    BY <1>1, <1>4, <1>5, <1>6, <1>12 DEF CoreTypes
<1> QED
    BY <1>9, <1>10, <1>12, <1>13 DEF Core

-----------------------------------------------------------------------------
(* What connect_origin can come to: a success is told exactly when it      *)
(* leaves a socket, pending or connected.                                  *)
Outcome(out) ==
    /\ out.status \in Reply /\ out.link \in {"none", "pending", "up"}
    /\ out.status = "SUCCEDED" <=> out.link # "none"

LEMMA Refusals ==
    /\ Outcome(Failed("GENERAL_FAILURE")) /\ Outcome(Failed("HOST_UNREACHABLE"))
    /\ \A e \in DOMAIN ErrnoReply : Outcome(Failed(ErrnoReply[e]))
    /\ Outcome(Started)
<1>1. \A e \in DOMAIN ErrnoReply : ErrnoReply[e] \in Reply /\ ErrnoReply[e] # "SUCCEDED"
    BY DEF Reply, ErrnoReply
<1>2. "GENERAL_FAILURE" \in Reply /\ "SUCCEDED" \in Reply /\ "HOST_UNREACHABLE" \in Reply
    BY DEF Reply, ErrnoReply
<1> QED
    BY <1>1, <1>2 DEF Outcome, Failed, Started

LEMMA IpOutcome ==
    ASSUME NEW out \in IpOutcomes("SUCCEDED")
    PROVE  Outcome(out)
<1>1. CASE out \in {[status |-> "SUCCEDED", link |-> "up"] : a \in Address \cap {"instant"}}
    BY <1>1 DEF Outcome, Reply
<1> QED
    BY <1>1, Refusals DEF IpOutcomes

LEMMA FqdnOutcome ==
    ASSUME NEW addrs \in Seq(Address), NEW out \in FqdnOutcomes(addrs)
    PROVE  Outcome(out)
<1> DEFINE state(i) == {Failed("GENERAL_FAILURE")} \cup
                       {Failed("HOST_UNREACHABLE") : j \in {k \in 1 .. i - 1 : addrs[k] = "starts"}}
           ends(i) == IF addrs[i] = "starts" THEN {Started}
                      ELSE IF addrs[i] = "instant" THEN state(i)
                      ELSE {Failed(ErrnoReply[addrs[i]])}
<1>1. ASSUME NEW i, out \in state(i) PROVE Outcome(out)
    BY <1>1, Refusals
<1>2. ASSUME NEW i \in DOMAIN addrs, out \in ends(i) PROVE Outcome(out)
    <2>1. addrs[i] \in AddressKind
        BY AddressAssumption
    <2>2. CASE addrs[i] = "starts"
        BY <1>2, <2>2, Refusals
    <2>3. CASE addrs[i] = "instant"
        BY <1>1, <1>2, <2>3
    <2>4. CASE addrs[i] \in DOMAIN ErrnoReply
        <3>1. addrs[i] # "starts" /\ addrs[i] # "instant"
            BY <2>4 DEF ErrnoReply
        <3> QED
            BY <1>2, <2>4, <3>1, Refusals
    <2> QED
        BY <2>1, <2>2, <2>3, <2>4 DEF AddressKind
<1>3. \/ addrs = <<>> /\ out = Failed("HOST_UNREACHABLE")
      \/ out \in state(Len(addrs) + 1)
      \/ \E i \in DOMAIN addrs : out \in ends(i)
    BY DEF FqdnOutcomes
<1> QED
    BY <1>1, <1>2, <1>3, Refusals

(* connect_init: the client is to be answered, and the connection has the  *)
(* origin's descriptor when the connect left one.                          *)
LEMMA ConnectKeeps ==
    ASSUME IInv, NEW c \in Conn, NEW s \in Sock, NEW out, Outcome(out), ConnectTo(c, s, out),
           sock[c].st \in {"REQUEST_READING", "DNS_QUERY"}, resolver[c].phase = "none",
           s.client = sock[c].client, s.origin = None,
           UNCHANGED <<concurrent, resolver>>,
           \/ jobs' = jobs /\ sock[c].st # "DNS_QUERY"
           \/ jobs # <<>> /\ jobs' = Tail(jobs) /\ item[Head(jobs)].conn = c
    PROVE  Core'
<1>1. PICK f \in IF out.link = "none" THEN {None} ELSE Fd \ open :
          /\ open' = open \cup ({f} \ {None})
          /\ item' = [d \in Fd |->
                        IF d = s.client THEN [conn |-> c, interest |-> {OP_WRITE}]
                        ELSE IF d = f /\ Registers(out) THEN [conn |-> c, interest |-> {OP_READ}]
                        ELSE item[d]]
          /\ sock' = [sock EXCEPT ![c] = Recorded(s, f, out.status)]
          /\ link' = [link EXCEPT ![c] = out.link]
    BY DEF ConnectTo
<1> DEFINE N == {f} \ {None}
           new == Recorded(s, f, out.status)
           fd == sock[c].client
<1>2. /\ f \in Fd \cup {None} /\ N \subseteq Fd /\ N \cap open = {}
      /\ f = None <=> out.link = "none"
    BY <1>1, NoneAssumption
<1>3. /\ new \in Sock /\ new.st = "RESPONSE_WRITING" /\ new.client = fd /\ new.origin = f
      /\ new.status = out.status
    BY <1>2 DEF Recorded, Sock, State, Outcome
<1>4. /\ sock[c] \in Sock /\ ConnInv(c) /\ CoreTypes /\ Live(c) /\ sock[c].origin = None
      /\ fd \in Fd /\ fd \in open /\ OwnFds(sock[c]) = {fd}
    <2>1. sock[c] \in Sock /\ ConnInv(c) /\ CoreTypes /\ Live(c)
        BY Connection DEF IInv, TypeOK, CoreTypes, Live
    <2>2. sock[c].origin = None
        BY <2>1 DEF ConnInv, Statuses, Early
    <2>3. fd \in Fd /\ fd \in OwnFds(sock[c]) /\ OwnFds(sock[c]) \subseteq open
        BY <2>1, Connection
    <2> QED
        BY <2>1, <2>2, <2>3, NoneAssumption DEF OwnFds
<1>5. OwnFds(new) = {fd} \cup N
    BY <1>3, <1>4, NoneAssumption DEF OwnFds
<1> HIDE DEF new
<1>6. /\ sock' \in [Conn -> Sock] /\ sock'[c] = new /\ \A d \in Conn : d # c => sock'[d] = sock[d]
      /\ link' \in [Conn -> {"none", "pending", "up", "failed"}] /\ link'[c] = out.link
      /\ \A d \in Conn : d # c => link'[d] = link[d]
    BY <1>1, <1>3, <1>4 DEF CoreTypes, new, Outcome
<1>7. /\ item' \in [Fd -> [conn : Conn \cup {None}, interest : SUBSET {OP_READ, OP_WRITE}]]
      /\ item'[fd].conn = c /\ item'[fd].interest = {OP_WRITE}
      /\ \A d \in Fd : d # fd /\ d # f => item'[d] = item[d]
    BY <1>1, <1>4 DEF CoreTypes
<1>8. f # None => /\ f # fd
                  /\ item'[f].conn \in {None, c}
                  /\ out.link = "pending" => item'[f].conn = c
    <2> SUFFICES ASSUME f # None
                 PROVE  /\ f # fd
                        /\ item'[f].conn \in {None, c}
                        /\ out.link = "pending" => item'[f].conn = c
        OBVIOUS
    <2>1. f \in Fd /\ f \notin open /\ f # fd
        BY <1>2, <1>4
    <2>2. item[f].conn = None
        <3>1. FdInv(f) /\ item[f].conn \in Conn \cup {None}
            BY <1>4, <2>1 DEF IInv, CoreTypes
        <3> QED
            BY <2>1, <3>1, Connection DEF FdInv
    <2> QED
        BY <1>1, <1>4, <2>1, <2>2 DEF Registers
<1>9. Touches(c, N)
    <2>1. open' = (open \ OwnFds(sock[c])) \cup OwnFds(sock'[c])
        BY <1>1, <1>4, <1>5, <1>6
    <2>2. \A d \in Fd : d \notin OwnFds(sock[c]) \cup N => item'[d] = item[d]
        BY <1>4, <1>7, NoneAssumption
    <2>3. \A d \in OwnFds(sock[c]) \cup N : item'[d].conn # None =>
              item'[d].conn = c /\ sock'[c].st # "FREED" /\ d \in OwnFds(sock'[c])
        BY <1>3, <1>4, <1>5, <1>6, <1>7, <1>8
    <2> QED
        BY <1>2, <1>4, <1>5, <1>6, <2>1, <2>2, <2>3 DEF Touches
<1>10. ConnInv(c)'
    <2>1. Owner(c)'
        <3>1. OwnFds(sock'[c]) \subseteq open'
            BY <1>1, <1>4, <1>5, <1>6
        <3>2. out.link # "failed"
            BY DEF Outcome
        <3>3. fd # None
            BY <1>4, NoneAssumption
        <3> QED
            BY <1>2, <1>3, <1>6, <1>7, <1>8, <3>1, <3>2, <3>3 DEF Owner, Live
    <2>2. Statuses(c)'
        BY <1>2, <1>3, <1>6 DEF Statuses, Outcome, Early
    <2>3. Interests(c)'
        BY <1>3, <1>6, <1>7 DEF Interests
    <2>4. Resolution(c)'
        BY <1>3, <1>6 DEF Resolution
    <2> QED
        BY <2>1, <2>2, <2>3, <2>4 DEF ConnInv
<1>11. /\ Jobs' /\ jobs' \in Seq(Fd)
       /\ \A g \in Fd : g \notin OwnFds(sock[c]) \cup N => (HasJob(g)' <=> HasJob(g))
    <2>1. CASE jobs' = jobs /\ sock[c].st # "DNS_QUERY"
        BY <1>4, <1>9, <2>1, JobsKeep, NoJobOf DEF CoreTypes
    <2>2. CASE jobs # <<>> /\ jobs' = Tail(jobs) /\ item[Head(jobs)].conn = c
        BY <1>4, <1>9, <2>2, JobTaken, HeadTailProperties DEF CoreTypes
    <2> QED
        BY <2>1, <2>2
<1>12. (\A d \in Conn : ConnInv(d))' /\ (\A g \in Fd : FdInv(g))' /\ Apart'
    BY <1>9, <1>10, <1>11, OthersKeep
<1>13. Counted'
    BY <1>3, <1>4, <1>6, SameCount DEF Live
<1>14. CoreTypes'
    <2>1. open' \in SUBSET Fd
        BY <1>1, <1>2, <1>4 DEF CoreTypes
    <2> QED
        BY <1>4, <1>6, <1>7, <1>11, <2>1 DEF CoreTypes
<1> QED
    BY <1>11, <1>12, <1>13, <1>14 DEF Core

-----------------------------------------------------------------------------
(* A step that leaves the connection its descriptors, whatever it makes of *)
(* its state, its thread and its client's interest.                        *)
LEMMA StaysPut ==
    ASSUME IInv, NEW c \in Conn, Live(c), NEW ops \in SUBSET {OP_READ, OP_WRITE},
           CoreTypes', open' = open, item' = item \/ item' = SetInterest(c, ops),
           \A d \in Conn : d # c =>
               sock'[d] = sock[d] /\ link'[d] = link[d] /\ resolver'[d] = resolver[d],
           Live(c)', sock'[c].client = sock[c].client, sock'[c].origin = sock[c].origin,
           link'[c] \in {"pending", "failed"} => link[c] \in {"pending", "failed"}
    PROVE  /\ Touches(c, {}) /\ Owner(c)'
           /\ item' = SetInterest(c, ops) => item'[sock[c].client].interest = ops
<1>1. /\ sock[c] \in Sock /\ ConnInv(c) /\ OwnFds(sock[c]) \subseteq open
      /\ sock[c].client \in Fd /\ sock[c].client \in OwnFds(sock[c])
      /\ OwnFds(sock[c]) \subseteq Fd /\ CoreTypes
    BY Connection DEF IInv, TypeOK, CoreTypes
<1>2. /\ \A f \in Fd : item'[f].conn = item[f].conn
      /\ \A f \in Fd : f # sock[c].client => item'[f] = item[f]
      /\ item' = SetInterest(c, ops) => item'[sock[c].client].interest = ops
    <2>1. item \in [Fd -> [conn : Conn \cup {None}, interest : SUBSET {OP_READ, OP_WRITE}]]
        BY <1>1 DEF CoreTypes
    <2> DEFINE next == SetInterest(c, ops)
    <2>2. /\ \A f \in Fd : next[f].conn = item[f].conn
          /\ \A f \in Fd : f # sock[c].client => next[f] = item[f]
          /\ next[sock[c].client].interest = ops
        BY <1>1, <2>1 DEF SetInterest
    <2> HIDE DEF next
    <2>3. item' = item \/ item' = next
        BY DEF next
    <2>4. item' = SetInterest(c, ops) => item' = next
        BY DEF next
    <2> QED
        BY <2>2, <2>3, <2>4
<1>3. OwnFds(sock'[c]) = OwnFds(sock[c])
    BY DEF OwnFds
<1>4. ASSUME NEW f \in OwnFds(sock[c]), item[f].conn # None PROVE item[f].conn = c
    <2>1. FdInv(f) /\ item[f].conn \in Conn
        BY <1>1, <1>4 DEF IInv, CoreTypes
    <2> QED
        BY <1>4, <2>1 DEF FdInv, IInv, Apart
<1>5. Touches(c, {})
    BY <1>1, <1>2, <1>3, <1>4 DEF Touches, Live
<1>6. Owner(c)'
    <2>1. link'[c] \in {"pending", "failed"} => sock[c].origin \in Fd
        BY <1>1 DEF ConnInv, Statuses, Owner, Sock
    <2> QED
        BY <1>1, <1>2, <1>3, <2>1 DEF ConnInv, Owner, Live
<1> QED
    BY <1>2, <1>5, <1>6

(* dns_query_init *)
LEMMA DnsStarts ==
    ASSUME IInv, NEW c \in Conn, NEW s \in Sock, NEW ops \in SUBSET {OP_READ, OP_WRITE},
           DnsQueryInit(c, s, ops), sock[c].st = "REQUEST_READING",
           s.client = sock[c].client, s.origin = sock[c].origin, s.status = sock[c].status,
           ops = {} \/ s.parsed = "partial",
           UNCHANGED <<open, link, concurrent, jobs>>
    PROVE  Core'
<1> DEFINE new == [s EXCEPT !.st = "DNS_QUERY"]
<1>1. PICK phase \in {"resolving", "uncreated"} :
          resolver' = [resolver EXCEPT ![c] = [phase |-> phase, fd |-> s.client]]
    BY DEF DnsQueryInit, Captured
<1>2. sock' = [sock EXCEPT ![c] = new] /\ item' = SetInterest(c, ops)
    BY DEF DnsQueryInit
<1>3. /\ new \in Sock /\ new.st = "DNS_QUERY" /\ new.client = sock[c].client
      /\ new.origin = sock[c].origin /\ new.status = sock[c].status /\ new.parsed = s.parsed
    BY DEF Sock, State
<1> HIDE DEF new
<1>4. Live(c) /\ sock[c].client \in Fd /\ ConnInv(c) /\ CoreTypes
    BY Connection DEF Live, IInv, TypeOK, CoreTypes
<1>5. CoreTypes'
    <2>1. item' \in [Fd -> [conn : Conn \cup {None}, interest : SUBSET {OP_READ, OP_WRITE}]]
        BY <1>2, <1>4 DEF CoreTypes, SetInterest
    <2>2. resolver' \in [Conn -> [phase : Phase, fd : Fd \cup {None}]]
        BY <1>1, <1>4 DEF CoreTypes, Phase
    <2> QED
        BY <1>2, <1>3, <1>4, <2>1, <2>2 DEF CoreTypes
<1>6. /\ sock'[c] = new /\ resolver'[c].phase # "none" /\ resolver'[c].fd = sock[c].client
      /\ \A d \in Conn : d # c => sock'[d] = sock[d] /\ resolver'[d] = resolver[d]
    BY <1>1, <1>2, <1>4 DEF CoreTypes
<1>7. Touches(c, {}) /\ Owner(c)' /\ item'[sock[c].client].interest = ops
    BY <1>2, <1>3, <1>4, <1>5, <1>6, StaysPut DEF Live
<1>8. ConnInv(c)'
    <2>1. Statuses(c)'
        BY <1>3, <1>4, <1>6 DEF ConnInv, Statuses, Early
    <2>2. Interests(c)'
        BY <1>3, <1>6, <1>7 DEF Interests
    <2>3. Resolution(c)'
        BY <1>3, <1>6 DEF Resolution
    <2> QED
        BY <1>7, <2>1, <2>2, <2>3 DEF ConnInv
<1>9. Jobs' /\ \A f : HasJob(f)' <=> HasJob(f)
    BY <1>7, JobsKeep, NoJobOf
<1>10. (\A d \in Conn : ConnInv(d))' /\ (\A f \in Fd : FdInv(f))' /\ Apart'
    BY <1>7, <1>8, <1>9, OthersKeep
<1>11. Counted'
    BY <1>3, <1>4, <1>6, SameCount DEF Live
<1> QED
    BY <1>5, <1>9, <1>10, <1>11 DEF Core

(* The thread of c runs: it holds the key of c's client, and c waits for it *)
LEMMA Waiting ==
    ASSUME IInv, NEW c \in Conn, resolver[c].phase # "none"
    PROVE  /\ sock[c].st = "DNS_QUERY" /\ Live(c) /\ resolver[c].fd = sock[c].client
           /\ sock[c] \in Sock /\ sock[c].client \in Fd /\ ConnInv(c) /\ CoreTypes
           /\ OwnFds(sock[c]) = {sock[c].client}
           /\ \A i \in DOMAIN jobs : item[jobs[i]].conn # c
<1>1. /\ sock[c].st = "DNS_QUERY" /\ resolver[c].fd = sock[c].client
      /\ sock[c] \in Sock /\ ConnInv(c)
    BY Connection DEF ConnInv, Resolution
<1>2. Live(c) /\ sock[c].client \in Fd /\ sock[c].origin = None
    BY <1>1, Connection DEF Live, ConnInv, Statuses, Early
<1>3. OwnFds(sock[c]) = {sock[c].client}
    BY <1>2, NoneAssumption DEF OwnFds
<1> QED
    BY <1>1, <1>2, <1>3, NoJobOf DEF IInv, TypeOK, CoreTypes

(* resolve_blocking writes the addresses through the key it holds *)
LEMMA AnswerKeeps ==
    ASSUME IInv, NEW c \in Conn, ResolverAnswers(c)
    PROVE  Core'
<1>1. /\ resolver[c].phase = "resolving" /\ resolver' = [resolver EXCEPT ![c].phase = "answered"]
      /\ UNCHANGED <<item, open, concurrent, jobs, link>>
    BY DEF ResolverAnswers
<1>2. PICK n \in 0 .. MaxAddrs : \E addrs \in [1 .. n -> Address] :
          sock' = [sock EXCEPT ![c].addrs = addrs]
    BY DEF ResolverAnswers
<1> PICK addrs \in [1 .. n -> Address] : sock' = [sock EXCEPT ![c].addrs = addrs]
    BY <1>2
<1>3. addrs \in Seq(Address)
    <2>1. n \in Nat
        BY BoundsAssumption
    <2> QED
        BY <2>1, IsASeq
<1>4. /\ sock[c].st = "DNS_QUERY" /\ Live(c) /\ resolver[c].fd = sock[c].client
      /\ sock[c] \in Sock /\ ConnInv(c) /\ CoreTypes
    BY <1>1, Waiting
<1> DEFINE new == [sock[c] EXCEPT !.addrs = addrs]
<1>5. /\ new \in Sock /\ new.st = "DNS_QUERY" /\ new.client = sock[c].client
      /\ new.origin = sock[c].origin /\ new.status = sock[c].status
      /\ new.parsed = sock[c].parsed
    BY <1>3, <1>4 DEF Sock
<1>6. sock' = [sock EXCEPT ![c] = new]
    BY <1>2
<1> HIDE DEF new
<1>7. /\ sock'[c] = new /\ resolver'[c].phase = "answered" /\ resolver'[c].fd = sock[c].client
      /\ \A d \in Conn : d # c => sock'[d] = sock[d] /\ resolver'[d] = resolver[d]
      /\ CoreTypes'
    BY <1>1, <1>4, <1>5, <1>6 DEF CoreTypes, Phase
<1>8. Touches(c, {}) /\ Owner(c)'
    BY <1>1, <1>4, <1>5, <1>7, StaysPut DEF Live
<1>9. ConnInv(c)'
    <2>1. Statuses(c)'
        BY <1>1, <1>4, <1>5, <1>7 DEF ConnInv, Statuses
    <2>2. Interests(c)'
        BY <1>1, <1>4, <1>5, <1>7 DEF ConnInv, Interests
    <2>3. Resolution(c)'
        BY <1>5, <1>7 DEF Resolution
    <2> QED
        BY <1>8, <2>1, <2>2, <2>3 DEF ConnInv
<1>10. Jobs' /\ \A f : HasJob(f)' <=> HasJob(f)
    BY <1>1, <1>8, JobsKeep, NoJobOf
<1>11. (\A d \in Conn : ConnInv(d))' /\ (\A f \in Fd : FdInv(f))' /\ Apart'
    BY <1>8, <1>9, <1>10, OthersKeep
<1>12. Counted'
    BY <1>1, <1>4, <1>5, <1>7, SameCount DEF Live
<1> QED
    BY <1>7, <1>10, <1>11, <1>12 DEF Core

(* selector_notify_block without memory: the thread is gone *)
LEMMA GivesUpKeeps ==
    ASSUME IInv, NEW c \in Conn, ResolverGivesUp(c)
    PROVE  Core'
<1>1. /\ resolver[c].phase # "none" /\ resolver' = [resolver EXCEPT ![c].phase = "unheard"]
      /\ UNCHANGED <<item, open, sock, concurrent, jobs, link>>
    BY DEF ResolverGivesUp
<1>2. /\ sock[c].st = "DNS_QUERY" /\ Live(c) /\ resolver[c].fd = sock[c].client
      /\ ConnInv(c) /\ CoreTypes
    BY <1>1, Waiting
<1>3. /\ resolver'[c].phase = "unheard" /\ resolver'[c].fd = sock[c].client
      /\ \A d \in Conn : d # c => resolver'[d] = resolver[d]
      /\ CoreTypes'
    BY <1>1, <1>2 DEF CoreTypes, Phase
<1>4. Touches(c, {}) /\ Owner(c)'
    BY <1>1, <1>2, <1>3, StaysPut DEF Live
<1>5. Statuses(c)' /\ Interests(c)' /\ Resolution(c)'
    BY <1>1, <1>2, <1>3 DEF ConnInv, Statuses, Interests, Resolution
<1>6. Jobs' /\ \A f : HasJob(f)' <=> HasJob(f)
    BY <1>1, <1>4, JobsKeep, NoJobOf
<1>7. (\A d \in Conn : ConnInv(d))' /\ (\A f \in Fd : FdInv(f))' /\ Apart'
    BY <1>4, <1>5, <1>6, OthersKeep DEF ConnInv
<1>8. Counted'
    BY <1>1, SameCount DEF Live
<1> QED
    BY <1>3, <1>6, <1>7, <1>8 DEF Core

(* The kernel settles a pending connect *)
LEMMA SettleKeeps ==
    ASSUME IInv, NEW c \in Conn, LinkSettles(c)
    PROVE  Core'
<1>1. PICK l \in {"up", "failed"} : link' = [link EXCEPT ![c] = l]
    BY DEF LinkSettles
<1>2. link[c] = "pending" /\ UNCHANGED <<item, open, sock, concurrent, resolver, jobs>>
    BY DEF LinkSettles
<1>3. ConnInv(c) /\ CoreTypes /\ Live(c)
    BY <1>2, Connection DEF IInv, TypeOK, CoreTypes
<1>4. CoreTypes' /\ link'[c] = l /\ \A d \in Conn : d # c => link'[d] = link[d]
    BY <1>1, <1>2, <1>3 DEF CoreTypes
<1>5. Touches(c, {}) /\ Owner(c)'
    BY <1>2, <1>3, <1>4, StaysPut DEF Live
<1>6. Statuses(c)'
    BY <1>2, <1>3, <1>4 DEF ConnInv, Statuses
<1>7. Interests(c)' /\ Resolution(c)'
    BY <1>2, <1>3 DEF ConnInv, Interests, Resolution, HasJob
<1>8. Jobs' /\ \A f : HasJob(f)' <=> HasJob(f)
    <2>1. Jobs'
        BY <1>2 DEF IInv, Jobs, JobInv
    <2> QED
        BY <1>2, <2>1 DEF HasJob
<1>9. (\A d \in Conn : ConnInv(d))' /\ (\A f \in Fd : FdInv(f))' /\ Apart'
    BY <1>5, <1>6, <1>7, <1>8, OthersKeep DEF ConnInv
<1>10. Counted'
    BY <1>2, SameCount DEF Live
<1> QED
    BY <1>4, <1>8, <1>9, <1>10 DEF Core

(* selector_notify_block: the job goes to the head of the list, and is the *)
(* only one of its connection                                              *)
LEMMA NotifyKeeps ==
    ASSUME IInv, NEW c \in Conn, ResolverNotifies(c)
    PROVE  Core'
<1> DEFINE fd == sock[c].client
<1>1. /\ resolver[c].phase # "none" /\ resolver' = [resolver EXCEPT ![c] = NoThread]
      /\ jobs' = <<resolver[c].fd>> \o jobs
      /\ UNCHANGED <<item, open, sock, concurrent, link>>
    BY DEF ResolverNotifies
<1>2. /\ sock[c].st = "DNS_QUERY" /\ Live(c) /\ resolver[c].fd = fd
      /\ fd \in Fd /\ ConnInv(c) /\ CoreTypes /\ OwnFds(sock[c]) = {fd}
      /\ \A i \in DOMAIN jobs : item[jobs[i]].conn # c
    BY <1>1, Waiting
<1>3. item[fd].conn = c
    BY <1>2 DEF ConnInv, Owner
<1>4. /\ resolver' \in [Conn -> [phase : Phase, fd : Fd \cup {None}]]
      /\ resolver'[c].phase = "none" /\ \A d \in Conn : d # c => resolver'[d] = resolver[d]
    BY <1>1, <1>2 DEF CoreTypes, NoThread, Phase
<1>5. /\ jobs' \in Seq(Fd) /\ Len(jobs) \in Nat /\ DOMAIN jobs = 1 .. Len(jobs)
      /\ DOMAIN jobs' = 1 .. Len(jobs) + 1 /\ jobs'[1] = fd
      /\ \A i \in DOMAIN jobs' : i # 1 => i - 1 \in DOMAIN jobs /\ jobs'[i] = jobs[i - 1]
    <2>1. jobs \in Seq(Fd) /\ <<fd>> \in Seq(Fd) /\ Len(<<fd>>) = 1 /\ <<fd>>[1] = fd
        BY <1>2 DEF CoreTypes
    <2>2. Len(jobs) \in Nat /\ DOMAIN jobs = 1 .. Len(jobs)
        BY <2>1, LenProperties
    <2>3. /\ <<fd>> \o jobs \in Seq(Fd) /\ Len(<<fd>> \o jobs) = 1 + Len(jobs)
          /\ \A i \in 1 .. 1 + Len(jobs) :
                (<<fd>> \o jobs)[i] = IF i <= 1 THEN <<fd>>[i] ELSE jobs[i - 1]
        BY <2>1, ConcatProperties
    <2>4. jobs' = <<fd>> \o jobs
        BY <1>1, <1>2
    <2>5. DOMAIN jobs' = 1 .. Len(jobs')
        BY <2>3, <2>4, LenProperties
    <2> QED
        BY <2>1, <2>2, <2>3, <2>4, <2>5
<1>6. CoreTypes'
    BY <1>1, <1>2, <1>4, <1>5 DEF CoreTypes
<1>7. Touches(c, {}) /\ Owner(c)'
    BY <1>1, <1>2, <1>4, <1>6, StaysPut DEF Live
<1>8. ConnInv(c)'
    <2>1. Statuses(c)' /\ Interests(c)'
        BY <1>1, <1>2 DEF ConnInv, Statuses, Interests
    <2>2. HasJob(fd)'
        <3>1. 1 \in DOMAIN jobs'
            BY <1>5
        <3> QED
            BY <1>1, <1>5, <3>1 DEF HasJob
    <2>3. Resolution(c)'
        BY <1>1, <1>4, <2>2 DEF Resolution, HasJob
    <2> QED
        BY <1>7, <2>1, <2>3 DEF ConnInv
<1>9. ASSUME NEW f \in Fd, f \notin OwnFds(sock[c]) \cup {} PROVE HasJob(f)' <=> HasJob(f)
    <2>1. f # fd
        BY <1>2, <1>9
    <2>2. ASSUME NEW i \in DOMAIN jobs PROVE i + 1 \in DOMAIN jobs' /\ jobs'[i + 1] = jobs[i]
        <3>1. i + 1 \in DOMAIN jobs' /\ i + 1 # 1 /\ (i + 1) - 1 = i
            BY <1>5
        <3> QED
            BY <1>5, <3>1
    <2> QED
        BY <1>5, <2>1, <2>2 DEF HasJob
<1>10. (\A d \in Conn : ConnInv(d))' /\ (\A f \in Fd : FdInv(f))' /\ Apart'
    BY <1>7, <1>8, <1>9, OthersKeep
<1>11. Jobs'
    <2>1. ASSUME NEW i \in DOMAIN jobs' PROVE JobInv(i)'
        <3>1. CASE i = 1
            BY <1>1, <1>2, <1>3, <1>4, <1>5, <3>1, NoneAssumption DEF JobInv
        <3>2. CASE i # 1
            <4>1. i - 1 \in DOMAIN jobs /\ jobs'[i] = jobs[i - 1]
                BY <1>5, <3>2
            <4>2. jobs[i - 1] \in Fd
                BY <1>2, <4>1, ElementOfSeq, <1>5 DEF CoreTypes
            <4>3. JobInv(i - 1) /\ item[jobs[i - 1]].conn \in Conn /\ item[jobs[i - 1]].conn # c
                BY <1>2, <4>1, <4>2 DEF IInv, Jobs, JobInv, CoreTypes
            <4> QED
                BY <1>1, <1>4, <4>1, <4>3 DEF JobInv
        <3> QED
            BY <3>1, <3>2
    <2>2. ASSUME NEW i \in DOMAIN jobs', NEW j \in DOMAIN jobs', i # j, i # 1
          PROVE  jobs'[i] # jobs'[j]
        <3>1. i - 1 \in DOMAIN jobs /\ jobs'[i] = jobs[i - 1]
            BY <1>5, <2>2
        <3>2. CASE j = 1
            BY <1>2, <1>3, <1>5, <3>1, <3>2
        <3>3. CASE j # 1
            <4>1. j - 1 \in DOMAIN jobs /\ jobs'[j] = jobs[j - 1] /\ i - 1 # j - 1
                BY <1>5, <2>2, <3>3
            <4> QED
                BY <3>1, <4>1 DEF IInv, Jobs
        <3> QED
            BY <3>2, <3>3
    <2> QED
        BY <2>1, <2>2 DEF Jobs
<1>12. Counted'
    BY <1>1, SameCount DEF Live
<1> QED
    BY <1>6, <1>10, <1>11, <1>12 DEF Core

-----------------------------------------------------------------------------
(* The list of jobs: its first one finds the connection that waits for it. *)
LEMMA FirstJob ==
    ASSUME IInv, proc = "notify"
    PROVE  /\ jobs # <<>> /\ Registered(Head(jobs)) /\ item[Head(jobs)].conn \in Conn
           /\ sock[item[Head(jobs)].conn].st = "DNS_QUERY"
           /\ resolver[item[Head(jobs)].conn].phase = "none"
<1>1. jobs \in Seq(Fd) /\ jobs # <<>>
    BY DEF IInv, TypeOK, Noticing
<1>2. 1 \in DOMAIN jobs /\ Head(jobs) = jobs[1] /\ jobs[1] \in Fd
    <2>1. Len(jobs) \in Nat /\ DOMAIN jobs = 1 .. Len(jobs) /\ Len(jobs) > 0
        BY <1>1, LenProperties
    <2> QED
        BY <1>1, <2>1, HeadTailProperties, ElementOfSeq
<1>3. JobInv(1) /\ item[jobs[1]].conn \in Conn \cup {None}
    BY <1>2 DEF IInv, TypeOK, Jobs
<1> QED
    BY <1>1, <1>2, <1>3, NoneAssumption DEF JobInv, Registered

(* handle_block_notifications, one job *)
LEMMA HandleJobKeeps ==
    ASSUME IInv, HandleJob
    PROVE  /\ Core'
           /\ \E c \in Conn : /\ sock[c].st = "DNS_QUERY" /\ sock'[c].st = "RESPONSE_WRITING"
                              /\ \A d \in Conn : d # c => sock'[d] = sock[d]
<1>1. /\ proc = "notify" /\ jobs' = Tail(jobs)
      /\ IF Registered(Head(jobs)) THEN DnsQueryClose(item[Head(jobs)].conn) ELSE JobDropped
    BY DEF HandleJob, JobDone
<1> DEFINE c == item[Head(jobs)].conn
<1>2. /\ jobs # <<>> /\ c \in Conn /\ sock[c].st = "DNS_QUERY" /\ resolver[c].phase = "none"
      /\ Registered(Head(jobs))
    BY <1>1, FirstJob
<1>3. DnsQueryClose(c)
    BY <1>1, <1>2
<1>4. PICK out \in FqdnOutcomes(sock[c].addrs) : ConnectTo(c, sock[c], out)
    BY <1>3 DEF DnsQueryClose
<1>5. UNCHANGED <<concurrent, resolver>>
    BY <1>3 DEF DnsQueryClose
<1>6. sock[c] \in Sock /\ sock[c].addrs \in Seq(Address) /\ sock[c].origin = None
    BY <1>2, Connection DEF ConnInv, Statuses, Early, Sock
<1>7. Outcome(out)
    BY <1>6, FqdnOutcome
<1>8. Core'
    BY <1>1, <1>2, <1>4, <1>5, <1>6, <1>7, ConnectKeeps
<1>9. /\ sock'[c].st = "RESPONSE_WRITING"
      /\ \A d \in Conn : d # c => sock'[d] = sock[d]
    <2>1. sock \in [Conn -> Sock]
        BY DEF IInv, TypeOK
    <2>2. PICK f : sock' = [sock EXCEPT ![c] = Recorded(sock[c], f, out.status)]
        BY <1>4 DEF ConnectTo
    <2> QED
        BY <1>2, <1>6, <2>1, <2>2 DEF Recorded, Sock
<1> QED
    BY <1>2, <1>8, <1>9

-----------------------------------------------------------------------------
(* The process and what the clients were sent, along with the connections. *)
LEMMA OutsideKeeps ==
    ASSUME IInv, NEW c \in Conn, told' \in [Conn -> Message],
           proc' \in {"select", "notify", "aborted", "exited"}, Noticing',
           \A d \in Conn : d # c => sock'[d] = sock[d] /\ told'[d] = told[d], Said(c)'
    PROVE  Outside'
<1>1. ASSUME NEW d \in Conn PROVE Said(d)'
    <2>1. CASE d = c
        BY <2>1
    <2>2. CASE d # c
        <3>1. Said(d)
            BY DEF IInv
        <3> QED
            BY <2>2, <3>1 DEF Said, TakenForLogin
    <2> QED
        BY <2>1, <2>2
<1> QED
    BY <1>1 DEF Outside

LEMMA SomeoneElse ==
    ASSUME IInv, NEW c \in Conn, NEW m \in Message, NEW new,
           told' = [told EXCEPT ![c] = m], sock' = [sock EXCEPT ![c] = new]
    PROVE  /\ told' \in [Conn -> Message] /\ told'[c] = m /\ sock'[c] = new
           /\ \A d \in Conn : d # c => sock'[d] = sock[d] /\ told'[d] = told[d]
BY DEF IInv, TypeOK

(* A handler that sends m and goes on *)
LEMMA GoesOn ==
    ASSUME IInv, NEW c \in Conn, NEW m \in Message, NEW new \in Sock, GoOnAfter(c, m, new),
           proc = "select", Live(c), sock[c].st # "DNS_QUERY",
           new.client = sock[c].client, new.origin = sock[c].origin,
           new.status = sock[c].status, new.st \in Early <=> sock[c].st \in Early,
           \/ new.st = "HELLO_AUTH" /\ m = [kind |-> "method", value |-> "AUTH"]
           \/ new.st = "REQUEST_READING" /\ m \in Admitted
           \/ new.st = "COPY" /\ m = [kind |-> "reply", value |-> "SUCCEDED"]
    PROVE  Core' /\ Outside'
<1>1. /\ told' = [told EXCEPT ![c] = m] /\ item' = SetInterest(c, {OP_READ})
      /\ sock' = [sock EXCEPT ![c] = new]
      /\ UNCHANGED <<proc, open, concurrent, resolver, jobs, link>>
    BY DEF GoOnAfter, Tell
<1>2. Core'
    BY <1>1, Relabels
<1>3. /\ told' \in [Conn -> Message] /\ told'[c] = m /\ sock'[c] = new
      /\ \A d \in Conn : d # c => sock'[d] = sock[d] /\ told'[d] = told[d]
    BY <1>1, SomeoneElse
<1>4. Said(c)'
    BY <1>3 DEF Said
<1>5. Noticing' /\ proc' \in {"select", "notify", "aborted", "exited"}
    BY <1>1 DEF Noticing
<1> QED
    BY <1>2, <1>3, <1>4, <1>5, OutsideKeeps

(* A handler that ends the connection *)
LEMMA Ends ==
    ASSUME IInv, NEW c \in Conn, Fail(c), proc = "select", Live(c), sock[c].st # "DNS_QUERY"
    PROVE  Core' /\ Outside'
<1>1. Destroy(c) /\ UNCHANGED <<resolver, jobs, told>>
    BY DEF Fail
<1>2. Core' /\ proc' \in {proc, "exited"}
    BY <1>1, DestroyKeeps
<1>3. sock' = [sock EXCEPT ![c] = Freed] \/ sock' = sock
    BY <1>1 DEF Destroy
<1>4. sock \in [Conn -> Sock] /\ Said(c)
    BY DEF IInv, TypeOK
<1>5. \A d \in Conn : d # c => sock'[d] = sock[d]
    BY <1>3, <1>4
<1>6. Said(c)'
    <2>1. sock'[c] = Freed \/ sock'[c] = sock[c]
        BY <1>3, <1>4
    <2> QED
        BY <1>1, <1>4, <2>1 DEF Said, Freed, TakenForLogin
<1>7. Noticing' /\ proc' \in {"select", "notify", "aborted", "exited"}
    BY <1>2 DEF Noticing
<1>8. told' \in [Conn -> Message]
    BY <1>1 DEF IInv, TypeOK
<1> QED
    BY <1>1, <1>2, <1>5, <1>6, <1>7, <1>8, OutsideKeeps

(* A connection without an origin is always destroyed: its client is       *)
(* registered.                                                             *)
LEMMA EndsAfter ==
    ASSUME IInv, NEW c \in Conn, NEW m \in Message, FailAfter(c, m), proc = "select", Live(c),
           sock[c].st # "DNS_QUERY", sock[c].origin = None
    PROVE  Core' /\ Outside' /\ sock' = [sock EXCEPT ![c] = Freed]
<1>1. Destroy(c) /\ UNCHANGED <<resolver, jobs>> /\ told' = [told EXCEPT ![c] = m]
    BY DEF FailAfter, Tell
<1>2. \A f \in OwnFds(sock[c]) : Registered(f)
    BY Connection, NoneAssumption DEF ConnInv, Owner, OwnFds, Registered
<1>3. sock' = [sock EXCEPT ![c] = Freed] /\ proc' = proc
    BY <1>1, <1>2 DEF Destroy
<1>4. Core'
    BY <1>1, DestroyKeeps
<1>5. /\ told' \in [Conn -> Message] /\ sock'[c] = Freed
      /\ \A d \in Conn : d # c => sock'[d] = sock[d] /\ told'[d] = told[d]
    BY <1>1, <1>3, SomeoneElse
<1>6. Said(c)'
    BY <1>5 DEF Said, Freed
<1>7. Noticing' /\ proc' \in {"select", "notify", "aborted", "exited"}
    BY <1>3 DEF Noticing
<1> QED
    BY <1>3, <1>4, <1>5, <1>6, <1>7, OutsideKeeps

-----------------------------------------------------------------------------
(* The handlers. *)
LEMMA HelloReadKeeps ==
    ASSUME IInv, NEW c \in Conn, HelloRead(c)
    PROVE  Core' /\ Outside'
<1>1. PICK m \in Method : sock' = [sock EXCEPT ![c].method = m]
    BY DEF HelloRead
<1>2. /\ sock[c].st = "HELLO" /\ proc = "select" /\ item' = SetInterest(c, {OP_WRITE})
      /\ UNCHANGED <<proc, open, concurrent, resolver, jobs, link, told>>
    BY DEF HelloRead, Reading
<1> DEFINE new == [sock[c] EXCEPT !.method = m]
<1>3. sock[c] \in Sock /\ Live(c) /\ Said(c) /\ sock \in [Conn -> Sock]
    BY <1>2 DEF IInv, TypeOK, Live
<1>4. /\ new \in Sock /\ new.st = "HELLO" /\ new.client = sock[c].client
      /\ new.origin = sock[c].origin /\ new.status = sock[c].status
    BY <1>2, <1>3 DEF Sock
<1>5. sock' = [sock EXCEPT ![c] = new]
    BY <1>1
<1> HIDE DEF new
<1>6. Core'
    BY <1>2, <1>3, <1>4, <1>5, Relabels
<1>7. sock'[c] = new /\ \A d \in Conn : d # c => sock'[d] = sock[d]
    BY <1>3, <1>5
<1>8. Said(c)'
    BY <1>2, <1>3, <1>4, <1>7 DEF Said
<1>9. told' \in [Conn -> Message] /\ Noticing' /\ proc' \in {"select", "notify", "aborted", "exited"}
    BY <1>2 DEF IInv, TypeOK, Noticing
<1> QED
    BY <1>2, <1>6, <1>7, <1>8, <1>9, OutsideKeeps

LEMMA HelloAuthReadKeeps ==
    ASSUME IInv, NEW c \in Conn, HelloAuthRead(c)
    PROVE  Core' /\ Outside'
<1>1. PICK credentials \in {"right", "wrong", "malformed"} :
          sock' = [sock EXCEPT ![c].login = @ /\ credentials # "wrong"]
    BY DEF HelloAuthRead
<1>2. /\ sock[c].st = "HELLO_AUTH" /\ proc = "select" /\ item' = SetInterest(c, {OP_WRITE})
      /\ UNCHANGED <<proc, open, concurrent, resolver, jobs, link, told>>
    BY DEF HelloAuthRead, Reading
<1> DEFINE answer == sock[c].login /\ credentials # "wrong"
           new == [sock[c] EXCEPT !.login = answer]
<1>3. sock[c] \in Sock /\ Live(c) /\ Said(c) /\ sock \in [Conn -> Sock]
    BY <1>2 DEF IInv, TypeOK, Live
<1>4. answer \in BOOLEAN
    OBVIOUS
<1>5. sock' = [sock EXCEPT ![c] = new]
    BY <1>1
<1> HIDE DEF answer
<1>6. /\ new \in Sock /\ new.st = "HELLO_AUTH" /\ new.client = sock[c].client
      /\ new.origin = sock[c].origin /\ new.status = sock[c].status
      /\ new.parsed = sock[c].parsed /\ new.atype = sock[c].atype
    BY <1>2, <1>3, <1>4 DEF Sock
<1> HIDE DEF new
<1>7. Core'
    BY <1>2, <1>3, <1>5, <1>6, Relabels
<1>8. sock'[c] = new /\ \A d \in Conn : d # c => sock'[d] = sock[d]
    BY <1>3, <1>5
<1>9. Said(c)'
    BY <1>2, <1>3, <1>6, <1>8 DEF Said, TakenForLogin
<1>10. told' \in [Conn -> Message] /\ Noticing' /\ proc' \in {"select", "notify", "aborted", "exited"}
    BY <1>2 DEF IInv, TypeOK, Noticing
<1> QED
    BY <1>2, <1>7, <1>8, <1>9, <1>10, OutsideKeeps

LEMMA HelloWriteKeeps ==
    ASSUME IInv, NEW c \in Conn, HelloWrite(c)
    PROVE  Core' /\ Outside'
<1> DEFINE m == [kind |-> "method", value |-> sock[c].method]
<1>1. /\ sock[c].st = "HELLO" /\ proc = "select"
      /\ \/ sock[c].method = "AUTH" /\ GoOnAfter(c, m, [sock[c] EXCEPT !.st = "HELLO_AUTH"])
         \/ sock[c].method = "NOAUTH" /\ GoOnAfter(c, m, NewRequest(sock[c]))
         \/ sock[c].method = "NOMETHOD" /\ FailAfter(c, m)
    BY DEF HelloWrite, Writing
<1>2. sock[c] \in Sock /\ Live(c) /\ m \in Message /\ sock[c].origin = None
    BY <1>1, Connection DEF Live, Sock, Message, ConnInv, Statuses, Early
<1>3. CASE sock[c].method = "AUTH" /\ GoOnAfter(c, m, [sock[c] EXCEPT !.st = "HELLO_AUTH"])
    <2> DEFINE new == [sock[c] EXCEPT !.st = "HELLO_AUTH"]
    <2>1. /\ new \in Sock /\ new.st = "HELLO_AUTH" /\ new.client = sock[c].client
          /\ new.origin = sock[c].origin /\ new.status = sock[c].status
        BY <1>2 DEF Sock, State
    <2>2. m = [kind |-> "method", value |-> "AUTH"] /\ GoOnAfter(c, m, new)
        BY <1>3
    <2>3. new.st \in Early <=> sock[c].st \in Early
        BY <1>1, <2>1 DEF Early
    <2> HIDE DEF new, m
    <2> QED
        BY <1>1, <1>2, <2>1, <2>2, <2>3, GoesOn
<1>4. CASE sock[c].method = "NOAUTH" /\ GoOnAfter(c, m, NewRequest(sock[c]))
    <2> DEFINE new == NewRequest(sock[c])
    <2>1. /\ new \in Sock /\ new.st = "REQUEST_READING" /\ new.client = sock[c].client
          /\ new.origin = sock[c].origin /\ new.status = sock[c].status
        BY <1>2 DEF Sock, State, NewRequest
    <2>2. m \in Admitted /\ GoOnAfter(c, m, new)
        BY <1>4 DEF Admitted
    <2>3. new.st \in Early <=> sock[c].st \in Early
        BY <1>1, <2>1 DEF Early
    <2> HIDE DEF new, m
    <2> QED
        BY <1>1, <1>2, <2>1, <2>2, <2>3, GoesOn
<1>5. CASE sock[c].method = "NOMETHOD" /\ FailAfter(c, m)
    BY <1>1, <1>2, <1>5, EndsAfter
<1> QED
    BY <1>1, <1>3, <1>4, <1>5

LEMMA HelloAuthWriteKeeps ==
    ASSUME IInv, NEW c \in Conn, HelloAuthWrite(c)
    PROVE  Core' /\ Outside'
<1> DEFINE m == [kind |-> "auth", value |-> sock[c].login]
<1>1. /\ sock[c].st = "HELLO_AUTH" /\ proc = "select"
      /\ IF sock[c].login THEN GoOnAfter(c, m, NewRequest(sock[c])) ELSE FailAfter(c, m)
    BY DEF HelloAuthWrite, Writing
<1>2. sock[c] \in Sock /\ Live(c) /\ m \in Message /\ sock[c].origin = None
    BY <1>1, Connection DEF Live, Sock, Message, ConnInv, Statuses, Early
<1>3. CASE sock[c].login
    <2> DEFINE new == NewRequest(sock[c])
    <2>1. /\ new \in Sock /\ new.st = "REQUEST_READING" /\ new.client = sock[c].client
          /\ new.origin = sock[c].origin /\ new.status = sock[c].status
        BY <1>2 DEF Sock, State, NewRequest
    <2>2. m \in Admitted
        <3>1. sock[c].login = TRUE
            BY <1>2, <1>3 DEF Sock
        <3> QED
            BY <3>1 DEF Admitted
    <2>3. GoOnAfter(c, m, new)
        BY <1>1, <1>3
    <2>4. new.st \in Early <=> sock[c].st \in Early
        BY <1>1, <2>1 DEF Early
    <2> HIDE DEF new, m
    <2> QED
        BY <1>1, <1>2, <2>1, <2>2, <2>3, <2>4, GoesOn
<1>4. CASE ~ sock[c].login
    <2>1. FailAfter(c, m)
        BY <1>1, <1>4
    <2> HIDE DEF m
    <2> QED
        BY <1>1, <1>2, <2>1, EndsAfter
<1> QED
    BY <1>3, <1>4

LEMMA ResponseWriteKeeps ==
    ASSUME IInv, NEW c \in Conn, ResponseWrite(c)
    PROVE  Core' /\ Outside'
<1> DEFINE m == [kind |-> "reply", value |-> sock[c].status]
<1>1. /\ sock[c].st = "RESPONSE_WRITING" /\ proc = "select"
      /\ IF sock[c].status = "SUCCEDED"
         THEN GoOnAfter(c, m, [sock[c] EXCEPT !.st = "COPY"]) ELSE FailAfter(c, m)
    BY DEF ResponseWrite, Writing
<1>2. /\ sock[c] \in Sock /\ Live(c) /\ m \in Message
      /\ sock[c].status = "SUCCEDED" <=> sock[c].origin # None
    BY <1>1, Connection DEF Live, Sock, Message, ConnInv, Statuses
<1>3. CASE sock[c].status = "SUCCEDED"
    <2> DEFINE new == [sock[c] EXCEPT !.st = "COPY"]
    <2>1. /\ new \in Sock /\ new.st = "COPY" /\ new.client = sock[c].client
          /\ new.origin = sock[c].origin /\ new.status = sock[c].status
        BY <1>2 DEF Sock, State
    <2>2. m = [kind |-> "reply", value |-> "SUCCEDED"] /\ GoOnAfter(c, m, new)
        BY <1>1, <1>3
    <2>3. new.st \in Early <=> sock[c].st \in Early
        BY <1>1, <2>1 DEF Early
    <2> HIDE DEF new, m
    <2> QED
        BY <1>1, <1>2, <2>1, <2>2, <2>3, GoesOn
<1>4. CASE sock[c].status # "SUCCEDED"
    BY <1>1, <1>2, <1>4, EndsAfter
<1> QED
    BY <1>3, <1>4

LEMMA RequestReadKeeps ==
    ASSUME IInv, NEW c \in Conn, RequestRead(c)
    PROVE  Core' /\ Outside'
<1>1. PICK p \in Parse :
          LET s == [sock[c] EXCEPT !.parsed = p.parsed, !.atype = p.atype]
          IN  \/ /\ p.parsed = "malformed"
                 /\ ConnectTo(c, s, Failed("GENERAL_FAILURE"))
                 /\ UNCHANGED resolver
              \/ /\ p.atype = "fqdn"
                 /\ DnsQueryInit(c, s, InterestAfterRequest(p.parsed))
                 /\ UNCHANGED <<open, link>>
              \/ /\ p.atype = "ip"
                 /\ \E out \in IpOutcomes(s.status) : ConnectTo(c, s, out)
                 /\ UNCHANGED resolver
              \/ /\ p.atype = "none" /\ p.parsed # "malformed"
                 /\ sock' = [sock EXCEPT ![c] = [s EXCEPT !.st = "HELLO_AUTH"]]
                 /\ UNCHANGED <<item, open, link, resolver>>
    BY DEF RequestRead
<1> DEFINE s == [sock[c] EXCEPT !.parsed = p.parsed, !.atype = p.atype]
<1>2. /\ sock[c].st = "REQUEST_READING" /\ proc = "select"
      /\ UNCHANGED <<proc, concurrent, jobs, told>>
    BY DEF RequestRead, Reading
<1>3. /\ sock[c] \in Sock /\ ConnInv(c) /\ Said(c) /\ Live(c) /\ CoreTypes
      /\ sock[c].origin = None /\ sock[c].status = "SUCCEDED" /\ resolver[c].phase = "none"
      /\ sock[c].client \in Fd
    <2>1. sock[c] \in Sock /\ ConnInv(c) /\ Said(c) /\ Live(c) /\ CoreTypes
        BY <1>2, Connection DEF IInv, TypeOK, CoreTypes, Live
    <2>2. sock[c].client \in Fd
        BY <2>1, Connection
    <2> QED
        BY <1>2, <2>1, <2>2 DEF ConnInv, Statuses, Resolution, Early
<1>4. /\ p.parsed \in {"whole", "partial", "unsupported", "malformed"}
      /\ p.atype \in {"none", "ip", "fqdn"}
      /\ p.atype = "fqdn" => p.parsed \in {"whole", "partial"}
      /\ p.parsed = "whole" => p.atype # "none"
    BY DEF Parse
<1>5. /\ s \in Sock /\ s.st = "REQUEST_READING" /\ s.client = sock[c].client
      /\ s.origin = None /\ s.status = "SUCCEDED" /\ s.parsed = p.parsed /\ s.atype = p.atype
    BY <1>2, <1>3, <1>4 DEF Sock
<1>6. ASSUME NEW new, sock' = [sock EXCEPT ![c] = new],
             new.st \in {"RESPONSE_WRITING", "DNS_QUERY", "HELLO_AUTH"},
             new.st = "HELLO_AUTH" => TakenForLogin(new)
      PROVE  Outside'
    <2>1. sock'[c] = new /\ \A d \in Conn : d # c => sock'[d] = sock[d]
        BY <1>3, <1>6 DEF CoreTypes
    <2>2. Said(c)'
        BY <1>2, <1>3, <1>6, <2>1 DEF Said
    <2>3. told' \in [Conn -> Message] /\ Noticing'
          /\ proc' \in {"select", "notify", "aborted", "exited"}
        BY <1>2 DEF IInv, TypeOK, Noticing
    <2> QED
        BY <1>2, <2>1, <2>2, <2>3, OutsideKeeps
<1>7. ASSUME NEW out, Outcome(out), ConnectTo(c, s, out), UNCHANGED resolver
      PROVE  Core' /\ Outside'
    <2>1. PICK f : sock' = [sock EXCEPT ![c] = Recorded(s, f, out.status)]
        BY <1>7 DEF ConnectTo
    <2>2. Recorded(s, f, out.status).st = "RESPONSE_WRITING"
        BY <1>5 DEF Recorded, Sock
    <2>3. Outside'
        BY <1>6, <2>1, <2>2
    <2> HIDE DEF s
    <2>4. Core'
        BY <1>2, <1>3, <1>5, <1>7, ConnectKeeps
    <2> QED
        BY <2>3, <2>4
<1>8. CASE /\ p.parsed = "malformed" /\ UNCHANGED resolver
           /\ ConnectTo(c, s, Failed("GENERAL_FAILURE"))
    BY <1>7, <1>8, Refusals
<1>9. CASE /\ p.atype = "ip" /\ UNCHANGED resolver
           /\ \E out \in IpOutcomes(s.status) : ConnectTo(c, s, out)
    BY <1>5, <1>7, <1>9, IpOutcome
<1>10. CASE /\ p.atype = "fqdn" /\ UNCHANGED <<open, link>>
            /\ DnsQueryInit(c, s, InterestAfterRequest(p.parsed))
    <2> DEFINE ops == InterestAfterRequest(p.parsed)
    <2>1. ops \in SUBSET {OP_READ, OP_WRITE} /\ (ops = {} \/ s.parsed = "partial")
        BY <1>4, <1>5, <1>10 DEF InterestAfterRequest
    <2>2. sock' = [sock EXCEPT ![c] = [s EXCEPT !.st = "DNS_QUERY"]]
        BY <1>10 DEF DnsQueryInit
    <2>3. [s EXCEPT !.st = "DNS_QUERY"].st = "DNS_QUERY"
        BY <1>5 DEF Sock
    <2>4. Outside'
        BY <1>6, <2>2, <2>3
    <2>5. DnsQueryInit(c, s, ops)
        BY <1>10
    <2> HIDE DEF s, ops
    <2>6. Core'
        BY <1>2, <1>3, <1>5, <1>10, <2>1, <2>5, DnsStarts
    <2> QED
        BY <2>4, <2>6
<1>11. CASE /\ p.atype = "none" /\ p.parsed # "malformed"
            /\ UNCHANGED <<item, open, link, resolver>>
            /\ sock' = [sock EXCEPT ![c] = [s EXCEPT !.st = "HELLO_AUTH"]]
    <2> DEFINE new == [s EXCEPT !.st = "HELLO_AUTH"]
               ops == item[sock[c].client].interest
    <2>1. /\ new \in Sock /\ new.st = "HELLO_AUTH" /\ new.client = sock[c].client
          /\ new.origin = sock[c].origin /\ new.status = sock[c].status
          /\ new.parsed = p.parsed /\ new.atype = "none"
        BY <1>3, <1>5, <1>11 DEF Sock, State
    <2> TakenForLogin(new)
        BY <1>4, <1>11, <2>1 DEF TakenForLogin
    <2>2. ops \in SUBSET {OP_READ, OP_WRITE} /\ item' = SetInterest(c, ops)
        BY <1>3, <1>11 DEF CoreTypes, SetInterest
    <2>3. Outside'
        BY <1>6, <1>11, <2>1
    <2>4. new.st \in Early <=> sock[c].st \in Early
        BY <1>2, <2>1 DEF Early
    <2>5. sock' = [sock EXCEPT ![c] = new]
        BY <1>11
    <2> HIDE DEF new, s, ops
    <2>6. Core'
        BY <1>2, <1>3, <1>11, <2>1, <2>2, <2>4, <2>5, Relabels
    <2> QED
        BY <2>3, <2>6
<1> QED
    BY <1>1, <1>8, <1>9, <1>10, <1>11

-----------------------------------------------------------------------------
(* The other steps leave what was said and the process almost alone. *)
LEMMA QuietOutside ==
    ASSUME IInv, UNCHANGED <<told, sock>>,
           proc' \in {"select", "notify", "aborted", "exited"}, Noticing'
    PROVE  Outside'
BY DEF IInv, TypeOK, Outside, Said, TakenForLogin

LEMMA AcceptOutside ==
    ASSUME IInv, NEW c \in Conn, Accept(c)
    PROVE  Outside'
<1>1. PICK f : sock' = [sock EXCEPT ![c] = [Freed EXCEPT !.st = "HELLO", !.client = f]]
    BY DEF Accept
<1>2. told' = [told EXCEPT ![c] = Nothing] /\ proc = "select" /\ proc' = proc
    BY DEF Accept
<1>3. Nothing \in Message /\ Nothing.kind = "nothing"
    BY DEF Nothing, Message
<1>4. [Freed EXCEPT !.st = "HELLO", !.client = f].st = "HELLO"
    BY DEF Freed
<1>5. /\ told' \in [Conn -> Message] /\ told'[c] = Nothing /\ sock'[c].st = "HELLO"
      /\ \A d \in Conn : d # c => sock'[d] = sock[d] /\ told'[d] = told[d]
    BY <1>1, <1>2, <1>3, <1>4, SomeoneElse
<1>6. Said(c)'
    BY <1>3, <1>5 DEF Said
<1> QED
    BY <1>2, <1>5, <1>6, OutsideKeeps DEF Noticing

LEMMA AnswerOutside ==
    ASSUME IInv, NEW c \in Conn, ResolverAnswers(c)
    PROVE  Outside'
<1>1. PICK addrs : sock' = [sock EXCEPT ![c].addrs = addrs]
    BY DEF ResolverAnswers
<1>2. sock \in [Conn -> Sock] /\ sock[c] \in Sock /\ Said(c)
    BY DEF IInv, TypeOK
<1>3. /\ sock'[c].st = sock[c].st /\ \A d \in Conn : d # c => sock'[d] = sock[d]
      /\ sock'[c].parsed = sock[c].parsed /\ sock'[c].atype = sock[c].atype
    BY <1>1, <1>2 DEF Sock
<1>4. UNCHANGED <<told, proc, jobs>>
    BY DEF ResolverAnswers
<1>5. Said(c)'
    BY <1>2, <1>3, <1>4 DEF Said, TakenForLogin
<1> QED
    BY <1>3, <1>4, <1>5, OutsideKeeps DEF IInv, TypeOK, Noticing

LEMMA HandleJobOutside ==
    ASSUME IInv, HandleJob
    PROVE  Outside'
<1>1. PICK c \in Conn : /\ sock[c].st = "DNS_QUERY" /\ sock'[c].st = "RESPONSE_WRITING"
                        /\ \A d \in Conn : d # c => sock'[d] = sock[d]
    BY HandleJobKeeps
<1>2. Said(c) /\ Registered(Head(jobs))
    BY FirstJob DEF IInv, HandleJob, JobDone
<1>3. told' = told
    BY <1>2 DEF HandleJob, DnsQueryClose
<1>4. Said(c)'
    BY <1>1, <1>2, <1>3 DEF Said
<1>5. Noticing' /\ proc' \in {"select", "notify", "aborted", "exited"}
    BY DEF HandleJob, JobDone, Noticing
<1> QED
    BY <1>1, <1>3, <1>4, <1>5, OutsideKeeps DEF IInv, TypeOK

LEMMA CopyFromOriginKeeps ==
    ASSUME IInv, NEW c \in Conn, CopyFromOrigin(c)
    PROVE  Core' /\ Outside'
<1> DEFINE m == [kind |-> "data", value |-> TRUE]
<1>1. /\ sock[c].st = "COPY" /\ told' = [told EXCEPT ![c] = m]
      /\ UNCHANGED <<proc, item, open, sock, concurrent, resolver, jobs, link>>
    BY DEF CopyFromOrigin
<1>2. m \in Message /\ m.kind = "data"
    BY DEF Message
<1> HIDE DEF m
<1>3. /\ told' \in [Conn -> Message] /\ told'[c] = m
      /\ \A d \in Conn : d # c => sock'[d] = sock[d] /\ told'[d] = told[d]
    BY <1>1, <1>2 DEF IInv, TypeOK
<1>4. Said(c)'
    BY <1>1, <1>2, <1>3 DEF Said
<1>5. Noticing' /\ proc' \in {"select", "notify", "aborted", "exited"}
    BY <1>1 DEF IInv, TypeOK, Noticing
<1>6. Core'
    BY <1>1, CoreStutters
<1> QED
    BY <1>3, <1>4, <1>5, <1>6, OutsideKeeps

(* Descriptors that were given back are descriptors. *)
LEMMA DestroyMarks ==
    ASSUME IInv, NEW c \in Conn, Destroy(c)
    PROVE  stale' \in SUBSET Fd
<1>1. OwnFds(sock[c]) \subseteq Fd /\ stale \in SUBSET Fd
    BY Connection DEF IInv, TypeOK
<1> QED
    BY <1>1 DEF Destroy

LEMMA TellMarks ==
    ASSUME IInv, NEW c \in Conn, NEW m, Tell(c, m)
    PROVE  again' \in [Conn -> BOOLEAN]
<1> DEFINE b == told[c] = m /\ ~ again[c]
<1>1. again \in [Conn -> BOOLEAN] /\ b \in BOOLEAN
    BY DEF IInv, TypeOK
<1>2. again' = [again EXCEPT ![c] = b]
    BY DEF Tell
<1> HIDE DEF b
<1> QED
    BY <1>1, <1>2

LEMMA MarksKeep ==
    ASSUME IInv, [Next]_vars
    PROVE  Marks'
<1>1. stale \in SUBSET Fd /\ again \in [Conn -> BOOLEAN]
    BY DEF IInv, TypeOK
<1>2. ASSUME NEW c \in Conn, NEW m, FailAfter(c, m) PROVE Marks'
    BY <1>2, DestroyMarks, TellMarks DEF FailAfter, Marks
<1>3. ASSUME NEW c \in Conn, NEW m, NEW new, GoOnAfter(c, m, new) PROVE Marks'
    BY <1>1, <1>3, TellMarks DEF GoOnAfter, Marks
<1>4. ASSUME NEW c \in Conn, Fail(c) PROVE Marks'
    BY <1>1, <1>4, DestroyMarks DEF Fail, Marks
<1>5. ASSUME NEW c \in Conn, HelloWrite(c) \/ HelloAuthWrite(c) \/ ResponseWrite(c) PROVE Marks'
    BY <1>2, <1>3, <1>5 DEF HelloWrite, HelloAuthWrite, ResponseWrite
<1>6. ASSUME NEW c \in Conn, SendFails(c) \/ CopyEnds(c) PROVE Marks'
    BY <1>4, <1>6 DEF SendFails, CopyEnds
<1>7. ASSUME NEW c \in Conn, Accept(c) PROVE Marks'
    BY <1>1, <1>7 DEF Accept, Marks
<1>8. CASE Select \/ TakeJobs
    BY <1>1, <1>8 DEF Select, TakeJobs, Marks
<1>9. CASE UNCHANGED <<stale, again>>
    BY <1>1, <1>9 DEF Marks
<1>10. CASE HandleJob
    BY <1>9, <1>10 DEF HandleJob, DnsQueryClose, JobDropped
<1> QED
    BY <1>5, <1>6, <1>7, <1>8, <1>9, <1>10 DEF Next, vars, HelloRead, HelloAuthRead, RequestRead,
       ResolverAnswers, ResolverNotifies, ResolverGivesUp, CopyFromOrigin, LinkSettles, Abort

-----------------------------------------------------------------------------
LEMMA InvariantInit == Init => IInv
<1> SUFFICES ASSUME Init PROVE IInv
    OBVIOUS
<1> USE DEF Init
<1>1. /\ Freed \in Sock /\ Freed.st = "FREED" /\ OwnFds(Freed) = {}
      /\ Freed.origin = None /\ Freed.client = None
    BY EmptySeq DEF Freed, Sock, Method, Reply, OwnFds
<1>2. Nothing \in Message /\ Unused \in [conn : Conn \cup {None}, interest : SUBSET {OP_READ, OP_WRITE}]
    BY DEF Nothing, Message, Unused
<1>3. NoThread \in [phase : Phase, fd : Fd \cup {None}]
    BY DEF NoThread, Phase
<1>4. TypeOK
    <2>1. 0 \in 0 .. MaxPool
        BY MaxPoolAssumption
    <2> QED
        BY <1>1, <1>2, <1>3, <2>1, EmptySeq DEF TypeOK
<1>5. ASSUME NEW c \in Conn PROVE ConnInv(c) /\ Said(c)
    <2>1. sock[c] = Freed /\ link[c] = "none" /\ resolver[c].phase = "none"
        BY DEF NoThread
    <2> QED
        BY <1>1, <2>1 DEF ConnInv, Owner, Statuses, Interests, Resolution, Said, Live, Early
<1>6. ASSUME NEW f \in Fd PROVE FdInv(f)
    BY DEF FdInv, Unused
<1>7. Apart
    BY <1>1 DEF Apart
<1>8. Jobs
    <2>1. DOMAIN jobs = {}
        BY EmptySeq, LenProperties
    <2> QED
        BY <2>1 DEF Jobs
<1>9. Counted
    <2>1. LiveConns = {}
        BY <1>1 DEF LiveConns, Live
    <2> QED
        BY <2>1, FS_EmptySet DEF Counted
<1> QED
    BY <1>4, <1>5, <1>6, <1>7, <1>8, <1>9 DEF IInv, Noticing

LEMMA InvariantStutters ==
    ASSUME IInv, UNCHANGED vars
    PROVE  Core' /\ Outside'
<1>1. Noticing' /\ proc' \in {"select", "notify", "aborted", "exited"}
    BY DEF IInv, TypeOK, Noticing, vars
<1> QED
    BY <1>1, CoreStutters, QuietOutside DEF vars

(* Every step of the process keeps the invariant. *)
LEMMA InvariantStep == IInv /\ [Next]_vars => IInv'
<1>1. ASSUME IInv, [Next]_vars PROVE Core' /\ Outside'
    <2>1. CASE TakeJobs
        <3>1. UNCHANGED <<item, open, sock, concurrent, resolver, jobs, link, told>>
            BY <2>1 DEF TakeJobs
        <3>2. Noticing' /\ proc' = "notify"
            BY <2>1 DEF TakeJobs, Noticing
        <3> QED
            BY <1>1, <3>1, <3>2, CoreStutters, QuietOutside
    <2>2. CASE HandleJob
        BY <1>1, <2>2, HandleJobKeeps, HandleJobOutside
    <2>3. ASSUME NEW c \in Conn, Accept(c) PROVE Core' /\ Outside'
        BY <1>1, <2>3, AcceptKeeps, AcceptOutside
    <2>4. ASSUME NEW c \in Conn, HelloRead(c) \/ HelloWrite(c) \/ HelloAuthRead(c) \/ HelloAuthWrite(c)
          PROVE  Core' /\ Outside'
        BY <1>1, <2>4, HelloReadKeeps, HelloWriteKeeps, HelloAuthReadKeeps, HelloAuthWriteKeeps
    <2>5. ASSUME NEW c \in Conn, SendFails(c) PROVE Core' /\ Outside'
        BY <1>1, <2>5, Ends DEF SendFails, Writing, Live
    <2>6. ASSUME NEW c \in Conn, RequestRead(c) PROVE Core' /\ Outside'
        BY <1>1, <2>6, RequestReadKeeps
    <2>7. ASSUME NEW c \in Conn, ResolverAnswers(c) PROVE Core' /\ Outside'
        BY <1>1, <2>7, AnswerKeeps, AnswerOutside
    <2>8. ASSUME NEW c \in Conn, ResolverNotifies(c) PROVE Core' /\ Outside'
        <3>1. UNCHANGED <<told, sock, proc>> /\ proc = "select"
            BY <2>8 DEF ResolverNotifies
        <3>2. Outside'
            BY <1>1, <3>1, QuietOutside DEF Noticing
        <3> QED
            BY <1>1, <2>8, <3>2, NotifyKeeps
    <2>9. ASSUME NEW c \in Conn, ResponseWrite(c) PROVE Core' /\ Outside'
        BY <1>1, <2>9, ResponseWriteKeeps
    <2>10. ASSUME NEW c \in Conn, CopyFromOrigin(c) PROVE Core' /\ Outside'
        BY <1>1, <2>10, CopyFromOriginKeeps
    <2>11. ASSUME NEW c \in Conn, CopyEnds(c) PROVE Core' /\ Outside'
        BY <1>1, <2>11, Ends DEF CopyEnds, Live
    <2>12. ASSUME NEW c \in Conn, LinkSettles(c) PROVE Core' /\ Outside'
        <3>1. UNCHANGED <<told, sock, proc, jobs>>
            BY <2>12 DEF LinkSettles
        <3>2. Outside'
            BY <1>1, <3>1, QuietOutside DEF Noticing, IInv, TypeOK
        <3> QED
            BY <1>1, <2>12, <3>2, SettleKeeps
    <2>13. ASSUME NEW c \in Conn, Abort(c) PROVE Core' /\ Outside'
        <3>1. /\ UNCHANGED <<item, open, sock, concurrent, resolver, jobs, link, told>>
              /\ proc' = "aborted"
            BY <2>13 DEF Abort
        <3> QED
            BY <1>1, <3>1, CoreStutters, QuietOutside DEF Noticing
    <2>14. CASE Select
        <3>1. /\ UNCHANGED <<item, open, sock, concurrent, resolver, jobs, link, told, proc>>
              /\ proc = "select"
            BY <2>14 DEF Select
        <3> QED
            BY <1>1, <3>1, CoreStutters, QuietOutside DEF Noticing
    <2>15. ASSUME NEW c \in Conn, ResolverGivesUp(c) PROVE Core' /\ Outside'
        <3>1. UNCHANGED <<told, sock, proc, jobs>>
            BY <2>15 DEF ResolverGivesUp
        <3>2. Outside'
            BY <1>1, <3>1, QuietOutside DEF Noticing, IInv, TypeOK
        <3> QED
            BY <1>1, <2>15, <3>2, GivesUpKeeps
    <2>16. CASE UNCHANGED vars
        BY <1>1, <2>16, InvariantStutters
    <2> QED
        BY <1>1, <2>1, <2>2, <2>3, <2>4, <2>5, <2>6, <2>7, <2>8, <2>9, <2>10, <2>11, <2>12, <2>13,
           <2>14, <2>15, <2>16 DEF Next
<1> QED
    BY <1>1, MarksKeep, InvariantParts, PTL

LEMMA Invariant == Spec => []IInv
BY InvariantInit, InvariantStep, PTL DEF Spec

-----------------------------------------------------------------------------
(* The process's state has the types of the code: in particular the count  *)
(* of connections stays between 0 and MAX_POOL.                            *)
THEOREM Socks5TypeCorrect == Spec => []TypeOK
<1>1. IInv => TypeOK
    BY DEF IInv
<1> QED
    BY <1>1, Invariant, PTL

(* The data pointer of a registered descriptor is a live connection that   *)
(* owns it: destroy_socks5 leaves no registration behind, and no handler   *)
(* is ever given a freed struct.                                           *)
THEOREM HandlersGetLiveConnections == Spec => []RegistrationsOwned
<1>1. ASSUME IInv PROVE RegistrationsOwned
    <2> SUFFICES ASSUME NEW f \in Fd, Registered(f)
                 PROVE  f \in open /\ Live(item[f].conn) /\ f \in OwnFds(sock[item[f].conn])
        BY DEF RegistrationsOwned
    <2>1. FdInv(f) /\ item[f].conn \in Conn
        BY <1>1 DEF IInv, TypeOK, Registered
    <2> QED
        BY <1>1, <2>1, Connection DEF FdInv, Registered
<1> QED
    BY <1>1, Invariant, PTL

(* No error path of connect.c, and no end of a connection, leaks or shares *)
(* a descriptor, however many clients come and go.                         *)
THEOREM NoDescriptorLeaks == Spec => []FdsOwned
<1>1. ASSUME IInv PROVE FdsOwned
    <2>1. open \subseteq UNION {OwnFds(sock[c]) : c \in Conn}
        <3>1. ASSUME NEW f \in open PROVE \E c \in Conn : f \in OwnFds(sock[c])
            BY <1>1 DEF IInv, TypeOK, FdInv
        <3> QED
            BY <3>1
    <2>2. UNION {OwnFds(sock[c]) : c \in Conn} \subseteq open
        BY <1>1 DEF IInv, ConnInv, Owner
    <2>3. \A c \in Conn : Live(c) => sock[c].client # None /\ item[sock[c].client].conn = c
        BY <1>1 DEF IInv, ConnInv, Owner
    <2> QED
        BY <1>1, <2>1, <2>2, <2>3 DEF FdsOwned, IInv, Apart
<1> QED
    BY <1>1, Invariant, PTL

(* metrics.c counts exactly the live connections, so that the comparison   *)
(* with MAX_POOL by == in passive_accept never lets one too many in.       *)
THEOREM CountIsExact == Spec => []CountIsPool
<1>1. ASSUME IInv PROVE CountIsPool
    <2>1. concurrent \in 0 .. MaxPool /\ concurrent = Cardinality({c \in Conn : Live(c)})
        BY <1>1 DEF IInv, TypeOK, Counted, LiveConns
    <2> QED
        BY <2>1, MaxPoolAssumption DEF CountIsPool
<1> QED
    BY <1>1, Invariant, PTL

(* The reply says SUCCEDED exactly when the connection has a socket to its *)
(* origin, whichever way connect_origin went.                              *)
THEOREM RepliesMatchOrigins == Spec => []StatusMatchesOrigin
<1>1. ASSUME IInv PROVE StatusMatchesOrigin
    BY <1>1 DEF IInv, ConnInv, Statuses, StatusMatchesOrigin, Early
<1> QED
    BY <1>1, Invariant, PTL

(* While a resolver thread runs, the connection its raw pointer leads to   *)
(* is alive and waits for it.                                              *)
THEOREM ThreadsHaveTheirConnection == Spec => []ResolverOwnerAlive
<1>1. ASSUME IInv PROVE ResolverOwnerAlive
    BY <1>1 DEF IInv, ConnInv, Resolution, ResolverOwnerAlive
<1> QED
    BY <1>1, Invariant, PTL

(* A job of the list, which names only a descriptor, never reaches another *)
(* connection that reuses the number, and no connection has two.           *)
THEOREM JobsReachTheirConnection == Spec => []JobsFindOwner
<1>1. ASSUME IInv PROVE JobsFindOwner
    <2>1. jobs \in Seq(Fd)
        BY <1>1 DEF IInv, TypeOK
    <2>2. ASSUME NEW i \in DOMAIN jobs PROVE jobs[i] # None
        <3>1. jobs[i] \in Fd
            BY <2>1, ElementOfSeq, LenProperties
        <3> QED
            BY <3>1, NoneAssumption
    <2> QED
        BY <1>1, <2>2 DEF IInv, Jobs, JobInv, JobsFindOwner, Registered
<1> QED
    BY <1>1, Invariant, PTL

(* From the thread's pointer to the job's descriptor, a name that is       *)
(* resolved comes back to the connection that asked for it.                *)
THEOREM NamesComeBack == Spec => []ResolutionFindsOwner
<1>1. ResolverOwnerAlive /\ JobsFindOwner <=> ResolutionFindsOwner
    BY DEF ResolutionFindsOwner
<1> QED
    BY <1>1, ThreadsHaveTheirConnection, JobsReachTheirConnection, PTL

(* A connection that waits for its name has a thread or a job, unless one  *)
(* of the two failures the code ignores left it alone: nothing else forgets*)
(* it with its client's interests cleared.                                 *)
THEOREM WaitersAreRemembered == Spec => []NobodyForgotten
<1>1. ASSUME IInv PROVE NobodyForgotten
    <2> SUFFICES ASSUME NEW c \in Conn, sock[c].st = "DNS_QUERY"
                 PROVE  (\/ resolver[c].phase \in {"resolving", "answered"}
                         \/ HasJob(sock[c].client)) <=> ~ Abandoned(c)
        BY DEF NobodyForgotten, HasJob
    <2>1. ConnInv(c) /\ Live(c) /\ resolver[c].phase \in Phase
        BY <1>1 DEF IInv, TypeOK, Live
    <2>2. ASSUME HasJob(sock[c].client) PROVE resolver[c].phase = "none"
        <3>1. PICK i \in DOMAIN jobs : jobs[i] = sock[c].client
            BY <2>2 DEF HasJob
        <3>2. JobInv(i) /\ item[jobs[i]].conn = c
            BY <1>1, <2>1, <3>1 DEF IInv, Jobs, ConnInv, Owner
        <3> QED
            BY <3>2 DEF JobInv
    <2>3. resolver[c].phase # "none" \/ HasJob(sock[c].client)
        BY <2>1 DEF ConnInv, Resolution
    <2> QED
        BY <2>1, <2>2, <2>3 DEF Abandoned, Phase
<1> QED
    BY <1>1, Invariant, PTL

-----------------------------------------------------------------------------
LEMMA ExitStep ==
    ASSUME IInv, NEW c \in Conn, Live(c), Destroy(c), proc' = "exited", proc # "exited"
    PROVE  /\ sock[c].st \in {"RESPONSE_WRITING", "COPY"} /\ link[c] = "up"
           /\ sock[c].origin # None /\ ~ Registered(sock[c].origin)
<1>1. PICK f \in OwnFds(sock[c]) : ~ Registered(f)
    BY DEF Destroy
<1>2. /\ ConnInv(c) /\ sock[c] \in Sock /\ OwnFds(sock[c]) \subseteq Fd
      /\ link[c] \in {"none", "pending", "up", "failed"}
    BY Connection DEF IInv, TypeOK
<1>3. sock[c].client # None /\ Registered(sock[c].client)
    BY <1>2, NoneAssumption DEF ConnInv, Owner, Registered
<1>4. f = sock[c].origin /\ f # None
    BY <1>1, <1>3 DEF OwnFds
<1>5. sock[c].st \in {"RESPONSE_WRITING", "COPY"}
    BY <1>2, <1>4 DEF ConnInv, Statuses, Early, Live, Sock, State
<1>6. link[c] = "up"
    <2>1. item[f].conn = None
        BY <1>1, <1>4 DEF Registered
    <2>2. link[c] \notin {"pending", "failed"}
        BY <1>2, <1>4, <2>1, NoneAssumption DEF ConnInv, Owner
    <2>3. link[c] # "none"
        BY <1>2, <1>4 DEF ConnInv, Statuses
    <2> QED
        BY <1>2, <2>2, <2>3
<1> QED
    BY <1>1, <1>4, <1>5, <1>6

(* The process is only given up by destroy_socks5, at a connection whose   *)
(* connect was done at once.                                               *)
THEOREM OnlyInstantConnectsExit == Spec => ExitCauses
<1>1. ASSUME IInv, Next, proc' = "exited", proc # "exited"
      PROVE  \E c \in Conn : /\ sock[c].st \in {"RESPONSE_WRITING", "COPY"} /\ link[c] = "up"
                             /\ sock[c].origin # None /\ ~ Registered(sock[c].origin)
    <2>1. PICK c \in Conn : Live(c) /\ Destroy(c)
        <3>1. proc' # proc
            BY <1>1
        <3>2. ~ TakeJobs /\ ~ HandleJob
            BY <1>1 DEF TakeJobs, HandleJob, JobDone
        <3>3. PICK c \in Conn : HelloWrite(c) \/ HelloAuthWrite(c) \/ SendFails(c)
                                \/ ResponseWrite(c) \/ CopyEnds(c)
            BY <1>1, <3>1, <3>2 DEF Next, Accept, HelloRead, HelloAuthRead, RequestRead,
               Select, ResolverAnswers, ResolverNotifies, ResolverGivesUp, CopyFromOrigin,
               LinkSettles, Abort
        <3>4. CASE HelloWrite(c)
            BY <3>1, <3>4 DEF HelloWrite, Writing, Live, GoOnAfter, FailAfter
        <3>5. CASE HelloAuthWrite(c)
            BY <3>1, <3>5 DEF HelloAuthWrite, Writing, Live, GoOnAfter, FailAfter
        <3>6. CASE SendFails(c)
            BY <3>6 DEF SendFails, Writing, Live, Fail
        <3>7. CASE ResponseWrite(c)
            BY <3>1, <3>7 DEF ResponseWrite, Writing, Live, GoOnAfter, FailAfter
        <3>8. CASE CopyEnds(c)
            BY <3>8 DEF CopyEnds, Live, Fail
        <3> QED
            BY <3>3, <3>4, <3>5, <3>6, <3>7, <3>8
    <2> QED
        BY <1>1, <2>1, ExitStep
<1>2. IInv /\ [Next]_vars =>
          [proc' = "exited" /\ proc # "exited" =>
              \E c \in Conn :
                  /\ sock[c].st \in {"RESPONSE_WRITING", "COPY"} /\ link[c] = "up"
                  /\ sock[c].origin # None /\ ~ Registered(sock[c].origin)]_vars
    BY <1>1
<1> QED
    BY <1>2, Invariant, PTL DEF Spec, ExitCauses

-----------------------------------------------------------------------------
LEMMA AbortStep ==
    ASSUME IInv, NEW c \in Conn, Serving, Live(c), Unhandled(c)
    PROVE  \/ sock[c].st = "RESPONSE_WRITING" /\ link[c] \in {"up", "failed"}
           \/ sock[c].st = "RESPONSE_WRITING" /\ sock[c].origin \in stale
           \/ sock[c].st = "DNS_QUERY" /\ sock[c].parsed = "partial"
<1>1. /\ ConnInv(c) /\ sock[c] \in Sock /\ sock[c].st \in State
      /\ sock[c].st \in Early => sock[c].origin = None
    BY Connection DEF Live, Sock, ConnInv, Statuses
<1>2. ASSUME proc = "notify", item[Head(jobs)].conn = c, "block" \notin Handles[sock[c].st]
      PROVE  FALSE
    BY <1>2, FirstJob DEF Handles
<1>3. ASSUME NEW f \in {sock[c].client, sock[c].origin}, Registered(f),
             OP_READ \in item[f].interest, ReadReady(c, f), "read" \notin Handles[sock[c].st]
      PROVE  \/ sock[c].st = "RESPONSE_WRITING" /\ link[c] \in {"up", "failed"}
             \/ sock[c].st = "RESPONSE_WRITING" /\ sock[c].origin \in stale
             \/ sock[c].st = "DNS_QUERY" /\ sock[c].parsed = "partial"
    <2>1. sock[c].st \in {"DNS_QUERY", "RESPONSE_WRITING"}
        BY <1>1, <1>3 DEF State, Handles
    <2>2. CASE sock[c].st = "DNS_QUERY"
        <3>1. f = sock[c].client
            BY <1>1, <1>3, <2>2 DEF Registered, Early
        <3> QED
            BY <1>1, <1>3, <2>2, <3>1 DEF ConnInv, Interests
    <2>3. CASE sock[c].st = "RESPONSE_WRITING"
        <3>1. f # sock[c].client
            BY <1>1, <1>3, <2>3, OpsDiffer DEF ConnInv, Interests
        <3>2. f = sock[c].origin
            BY <1>3, <3>1
        <3> QED
            BY <1>3, <2>3, <3>1, <3>2 DEF ReadReady
    <2> QED
        BY <2>1, <2>2, <2>3
<1>4. ASSUME NEW f \in {sock[c].client, sock[c].origin}, Registered(f),
             OP_WRITE \in item[f].interest, "write" \notin Handles[sock[c].st]
      PROVE  sock[c].st = "DNS_QUERY" /\ sock[c].parsed = "partial"
    <2>1. sock[c].st \in {"REQUEST_READING", "DNS_QUERY"}
        BY <1>1, <1>4 DEF State, Handles
    <2>2. f = sock[c].client
        BY <1>1, <1>4, <2>1 DEF Registered, Early
    <2> QED
        BY <1>1, <1>4, <2>1, <2>2, OpsDiffer DEF ConnInv, Interests
<1> QED
    BY <1>2, <1>3, <1>4 DEF Unhandled

(* stm.c only aborts at an origin that is readable before the reply is     *)
(* written, at an event of a descriptor's former owner that reaches such an*)
(* origin, or at a client that sends after an unfinished request.          *)
THEOREM AbortsHaveThreeCauses == Spec => AbortCauses
<1>1. ASSUME IInv, Next, proc' = "aborted", proc # "aborted"
      PROVE  \E c \in Conn :
                 \/ sock[c].st = "RESPONSE_WRITING" /\ link[c] \in {"up", "failed"}
                 \/ sock[c].st = "RESPONSE_WRITING" /\ sock[c].origin \in stale
                 \/ sock[c].st = "DNS_QUERY" /\ sock[c].parsed = "partial"
    <2>1. ASSUME NEW c \in Conn, Destroy(c) PROVE proc' # "aborted"
        BY <1>1, <2>1 DEF Destroy
    <2>2. \E c \in Conn : Abort(c)
        <3>1. proc' # proc
            BY <1>1
        <3>2. ~ TakeJobs /\ ~ HandleJob
            BY <1>1 DEF TakeJobs, HandleJob, JobDone
        <3>3. ASSUME NEW c \in Conn
              PROVE  ~ HelloWrite(c) /\ ~ HelloAuthWrite(c) /\ ~ ResponseWrite(c)
            BY <1>1, <2>1, <3>1 DEF HelloWrite, HelloAuthWrite, ResponseWrite, GoOnAfter, FailAfter
        <3>4. ASSUME NEW c \in Conn PROVE ~ SendFails(c) /\ ~ CopyEnds(c)
            BY <1>1, <2>1 DEF SendFails, CopyEnds, Fail
        <3> QED
            BY <1>1, <3>1, <3>2, <3>3, <3>4 DEF Next, Accept, HelloRead, HelloAuthRead,
               Select, RequestRead, ResolverAnswers, ResolverNotifies, ResolverGivesUp,
               CopyFromOrigin, LinkSettles
    <2> QED
        BY <1>1, <2>2, AbortStep DEF Abort
<1>2. IInv /\ [Next]_vars =>
          [proc' = "aborted" /\ proc # "aborted" =>
              \E c \in Conn :
                  \/ sock[c].st = "RESPONSE_WRITING" /\ link[c] \in {"up", "failed"}
                  \/ sock[c].st = "RESPONSE_WRITING" /\ sock[c].origin \in stale
                  \/ sock[c].st = "DNS_QUERY" /\ sock[c].parsed = "partial"]_vars
    BY <1>1
<1> QED
    BY <1>2, Invariant, PTL DEF Spec, AbortCauses

-----------------------------------------------------------------------------
(* One step's messages follow what their clients were sent before. *)
InOrder ==
    \A c \in Conn : <<told'[c], again'[c]>> # <<told[c], again[c]>> =>
        MayFollow(sock[c], told[c], told'[c])

LEMMA OneMessage ==
    ASSUME IInv, NEW c \in Conn, NEW m, told' = [told EXCEPT ![c] = m],
           \A d \in Conn : d # c => again'[d] = again[d], MayFollow(sock[c], told[c], m)
    PROVE  InOrder
<1>1. told \in [Conn -> Message]
    BY DEF IInv, TypeOK
<1>2. \A d \in Conn : d # c => told'[d] = told[d]
    BY <1>1
<1>3. told'[c] = m
    BY <1>1
<1> QED
    BY <1>2, <1>3 DEF InOrder

LEMMA OneTold ==
    ASSUME IInv, NEW c \in Conn, NEW m, Tell(c, m), MayFollow(sock[c], told[c], m)
    PROVE  InOrder
<1>1. \A d \in Conn : d # c => again'[d] = again[d]
    BY DEF Tell, IInv, TypeOK
<1> QED
    BY <1>1, OneMessage DEF Tell

(* What a client is sent, message by message, is a SOCKS exchange: its     *)
(* method, the status of a login when that is AUTH, one reply and no other,*)
(* and bytes of the origin after a reply of success only.  The single way  *)
(* out of it is a login status to the client whose request gave no address.*)
THEOREM ClientsSeeAnExchange == Spec => RepliesInOrder
<1>1. ASSUME IInv, Next
      PROVE  InOrder
    <2>1. ASSUME NEW c \in Conn, Accept(c)
          PROVE  InOrder
        <3>1. /\ told' = [told EXCEPT ![c] = Nothing]
              /\ \A d \in Conn : d # c => again'[d] = again[d]
            BY <1>1, <2>1 DEF Accept, IInv, TypeOK
        <3>2. MayFollow(sock[c], told[c], Nothing)
            BY <2>1 DEF Accept, Live, MayFollow, Nothing
        <3> QED
            BY <1>1, <3>1, <3>2, OneMessage
    <2>2. ASSUME NEW c \in Conn, HelloWrite(c)
          PROVE  InOrder
        <3> DEFINE m == [kind |-> "method", value |-> sock[c].method]
        <3>1. Tell(c, m) /\ sock[c].st = "HELLO"
            BY <2>2 DEF HelloWrite, Writing, GoOnAfter, FailAfter
        <3>2. MayFollow(sock[c], told[c], m)
            BY <1>1, <3>1 DEF IInv, Said, MayFollow
        <3> QED
            BY <1>1, <3>1, <3>2, OneTold
    <2>3. ASSUME NEW c \in Conn, HelloAuthWrite(c)
          PROVE  InOrder
        <3> DEFINE m == [kind |-> "auth", value |-> sock[c].login]
        <3>1. Tell(c, m) /\ sock[c].st = "HELLO_AUTH"
            BY <2>3 DEF HelloAuthWrite, Writing, GoOnAfter, FailAfter
        <3>2. \/ told[c] = [kind |-> "method", value |-> "AUTH"]
              \/ told[c] \in Admitted /\ TakenForLogin(sock[c])
            BY <1>1, <3>1 DEF IInv, Said
        <3>3. MayFollow(sock[c], told[c], m)
            BY <3>2 DEF MayFollow
        <3> QED
            BY <1>1, <3>1, <3>3, OneTold
    <2>4. ASSUME NEW c \in Conn, ResponseWrite(c)
          PROVE  InOrder
        <3> DEFINE m == [kind |-> "reply", value |-> sock[c].status]
        <3>1. Tell(c, m) /\ sock[c].st = "RESPONSE_WRITING"
            BY <2>4 DEF ResponseWrite, Writing, GoOnAfter, FailAfter
        <3>2. told[c] \in Admitted
            BY <1>1, <3>1 DEF IInv, Said
        <3>3. MayFollow(sock[c], told[c], m)
            BY <3>2 DEF MayFollow
        <3> QED
            BY <1>1, <3>1, <3>3, OneTold
    <2>5. ASSUME NEW c \in Conn, CopyFromOrigin(c)
          PROVE  InOrder
        <3> DEFINE m == [kind |-> "data", value |-> TRUE]
        <3>1. told' = [told EXCEPT ![c] = m] /\ again' = again /\ sock[c].st = "COPY"
            BY <2>5 DEF CopyFromOrigin
        <3>2. \/ told[c] = [kind |-> "reply", value |-> "SUCCEDED"]
              \/ told[c].kind = "data"
            BY <1>1, <3>1 DEF IInv, Said
        <3>3. MayFollow(sock[c], told[c], m)
            BY <3>2 DEF MayFollow
        <3> QED
            BY <1>1, <3>1, <3>3, OneMessage
    <2>6. CASE UNCHANGED <<told, again>>
        BY <2>6 DEF InOrder
    <2>7. CASE HandleJob
        BY <2>6, <2>7 DEF HandleJob, JobDropped, DnsQueryClose
    <2> QED
        BY <1>1, <2>1, <2>2, <2>3, <2>4, <2>5, <2>6, <2>7 DEF Next, Select, TakeJobs, HelloRead,
           HelloAuthRead, SendFails, Fail, RequestRead, ResolverAnswers, ResolverNotifies,
           ResolverGivesUp, CopyEnds, LinkSettles, Abort
<1>2. IInv /\ [Next]_vars => [InOrder]_vars
    BY <1>1
<1>3. RepliesInOrder <=> [][InOrder]_vars
    BY DEF RepliesInOrder, InOrder
<1> QED
    BY <1>2, <1>3, Invariant, PTL DEF Spec
=============================================================================
