# A verification of the SOCKSv5 proxy (TPE-PC-2022)

TLA+ models of the proxy in `src/src`, model-checked with TLC on small
instances, and proofs of the main results for every value of the constants with
TLAPS. Every definition is taken from the C code; `PROJECT.json` gives the
lines each one stands for, the runs, the mutants that show each property can
fail, the hazards it is aimed at and the theorems.

## 1. The system

One process, one thread that serves, and a detached thread per name to resolve.
`main` opens passive sockets for SOCKS (TCP, v4 and v6) and for monitoring
(SCTP), registers them in a `selector` and calls `selector_select` until a
signal sets `done`.

| Component | State | Operations | Interacts by |
|---|---|---|---|
| byte buffer `buffer.c` | block, `read`, `write`, `limit` | `buffer_write_ptr/_adv`, `buffer_read_ptr/_adv`, byte read and write, `compact` | embedded twice in every connection, in every monitoring session |
| selector `selector.c` | table of items by descriptor, `max_fd`, master and slave sets, list of jobs, mutex | register, unregister, set interest, one iteration, `selector_notify_block` from threads | calls the handlers with a key; handlers change the table while it iterates |
| state machine `stm.c` | current state | read, write and block events, `jump` with arrival and departure hooks | `abort()` when a state has no handler for the event or the state number is out of range |
| connection `socks5.c` | `struct socks5`: client and origin descriptors, two buffers, state data, resolution | accept, one handler call per event, `destroy_socks5` | pool limit through `metrics.c` |
| handshake `hello_st`, `hello_auth_st`, `request_read_st` + `parsers/` | parser position, chosen method, status | recv, parse, answer, jump | `users.c` for the password, `connect.c` for the origin |
| name resolution `dns_query_st.c` | thread with a copy of the key | `getaddrinfo`, `selector_notify_block`; the job is handled by the serving thread | raw pointer to the connection, descriptor in the job |
| connect `connect.c` | origin descriptor, reply status | one connect for an address, a loop for a name | registers the origin with OP_READ, the client with OP_WRITE |
| relay `copy_st.c` | two interests, `closing` | `copy_read`, `copy_write` for each side | both buffers, both interests |
| POP3 dissector `copy_st.c:22-136` | a small parser for each direction | fed with every chunk | log only |
| monitoring `admin_protocol.c` | `struct admin` for each session | greeting, password, seven commands | users, metrics, dissector flag |
| users `users.c` | array of 10 accounts, `total_users` | add, delete, look up, list | command line, monitoring, handshake |
| metrics `metrics.c` | counters, dissector flag | add, remove, read | accept and destroy, COPY, monitoring |
| shutdown `main.c:174-201` | `done` | destroys selector, pool and sockets | resolver threads may still run |
| outside the server | | `args.c`, `passive_sockets.c`, `logger.c`, `util.c`, `netutils.c`, the client `adminctl.c` | start-up, formatting, another program |

What is hard here: a handler changes the table other handlers of the same
iteration depend on; a connection is torn down from either of its two
descriptors; a job names a descriptor that may have changed hands; a thread
holds a pointer to a block the serving thread may free; interests are the only
thing that keeps an event from reaching a state without a handler for it; sends
are partial; and backpressure turns interests off that somebody must turn on
again.

What makes each part correct:

* **buffer**: nothing is lost, repeated or swapped; no pointer leaves the block;
  an empty buffer has all its room back.
* **relay**: each side gets a prefix of what the other sent; a direction is never
  stopped for good; the connection closes only at an end.
* **connection**: descriptors belong to exactly one live connection and none
  leaks; the count is the number of connections; the thread's pointer and the
  job's descriptor find the connection that waits; the client sees a SOCKS
  exchange; the process ends itself only where it is known to.
* **users and monitoring**: one account per name within the limit whatever
  sessions interleave; one reply per command, its own; a refusal changes
  nothing.
* **selector**: what pselect is asked for agrees with the table; a handler is
  called with the owner of the descriptor and changes only what is its own; an
  event of a descriptor's earlier life reaches as little as possible.
* **parsers**: neither a chunk boundary nor a length at which a `uint8_t` wraps
  changes what a client is answered and where its request leads.
* **dissector**: what is logged was said, and a login is logged.

## 2. The modules

| Module | Models | State and actions |
|---|---|---|
| `Buffer` | `buffer.c` as operators on a record | `Fill` is `buffer_write_adv` after `recv`, `Drain` is `buffer_read_adv` with the compaction of an empty buffer, `Compact` the `memmove` |
| `BufferIO` | a buffer and whoever uses it | one action per function; `stored` and `taken` are histories |
| `ByteFifo` | what a buffer promises: a bounded queue | implemented by `BufferIO` (`FifoSpec`) |
| `Copy` | COPY of one connection: two buffers, two interests, `closing`, two peers | `ReadData`, `ReadEnd` and `ReadFails` are the branches of `copy_read`; `WriteData` and `WriteFails` those of `copy_write`; the peers send, close and break at any moment |
| `Relay` | what the two ends see | implemented by `Copy` (`RelaySpec`) |
| `Dissector` | `parse_pop3` of one connection to port 110 | `CopyRead` is a recv with the parse of all that is in the buffer, `CopyWrite` a drain, `SetDisector` the command of a monitoring session |
| `Selector` | `selector.c`: the table, `max_fd`, both sets, an iteration | `Select` and `Interrupted` are the outcomes of `pselect`; `ReadHalf` and `WriteHalf` the two halves of the body of `handle_iteration`, with the handler they call; `HandleBlock` a job; `Shutdown` the end of `main` |
| `EventSource` | what `selector.h` promises its users | implemented by `Selector` (`EventSourceSpec`): each iteration hands out an event to the owner, who changes only its own |
| `Handshake` | the three parsers byte by byte and the handlers that feed them, up to the connect | `HelloRead`, `HelloAuthRead`, `RequestRead` are a recv with all it leads to; `HelloWrite`, `HelloAuthWrite`, `SendFails` the replies |
| `Socks5` | connections from accept to destruction over the selector's table | one action per handler call of `socks5.c` and `state_machines/`, per step of a resolver thread, per job; `stale` has the descriptors closed in this walk whose event is still ahead, `told` and `again` record each send to a client, a repeated message too |
| `Users` | `users.c` as operators on the table | `AddUser`, `DeleteUser` with the order of the tests in the code |
| `Accounts` | what the table promises: a set of accounts, whose clients are answered with what has become of it | implemented by `Admin` (`AccountsSpec`): the array seen as a set, the reply waiting in a session as the answer |
| `Admin` | monitoring sessions over one table and one flag | `Connect`, `Greet`, `Authenticate`, `ParseCommand`, `CommandResponse`; `Fails` for a send or recv that ends the session, `Killed` for a send to a client that has left (`ClientLeaves`), whose SIGPIPE ends the process |
| `BufferLemmas`, `BufferProofs`, `CopyProofs`, `AdminProofs`, `Socks5Proofs`, `SelectorProofs`, `HandshakeProofs`, `DissectorProofs` | proofs (section 4) | |
| `MC*` | instances for TLC | |

How the models are composed: `Copy` extends `Buffer` and is the COPY state of
`Socks5` in detail; `Socks5` keeps of COPY that the origin's first bytes reach
the client and that either end may end it. `Admin` extends `Users`. `Handshake`
computes from bytes the verdicts that `Socks5` takes as choices (the method, the
credentials, `Parse`), and `Dissector` reads the buffer that `Copy` fills and
drains. `Selector` has the table of `Socks5` with the sets derived from it and
the walk, and of the handlers only what they do to the table: any handler of a
connection may be called where the state would allow one, which is more than the
code does, so its invariants hold of the code. The descriptors of monitoring
sessions are not in it; they only take numbers that connections then do not get.

What is abstracted, and where it matters:

* A handler call is one step. The serving thread runs handlers one after the
  other, so this loses nothing; the steps of the resolver threads are between
  them, and the lock of the job list is the state `proc = "notify"`.
* pselect's readiness: any ready descriptor may be next. This allows more orders
  than the ascending one of `handle_iteration`, except that an accept comes before
  the other events of its walk: the listening sockets are the lowest descriptors.
  The order decides whether the process ends where an origin is readable before the
  reply is sent (`AbortCauses`): client and origin are then ready in the same
  iteration and the origin must have the lower descriptor, as it has when it reuses
  the one of an older connection that ended after this client came.
* The events that a walk hands to the next owner of a descriptor. `Selector` has the
  walk in detail and shows that they meet origins only (`StaleOnlyAtOrigins`).
  `Socks5` keeps what follows for an origin: destroying a connection leaves in `stale`
  the descriptor that still has an event ahead, until `pselect` is called again
  (`Select`), and an origin that opens with such a number counts as readable
  (`ReadReady`), which is one of the three ways `AbortCauses` has. In COPY the stale
  event is one more reason for what `CopyEnds` does at any time. In `Copy`, which has
  one connection, readiness is exact: a recv() with nothing to read (EAGAIN, an error
  as any other there) is an end that `PeerBreaks` leads to as well.
* `connect()` has the outcomes the code distinguishes (`AddressKind`). "instant",
  a connect that is done at once on a non-blocking socket, is a branch the code
  has and POSIX allows, rare as it is; the violation runs do not need it.
* What a client sends is what the parser makes of it (`Parse`, the method chosen,
  the credentials). A read that leaves a parser midway in HELLO or HELLO_AUTH
  changes nothing of `Socks5`.
* Replies of 2 and 10 bytes are sent whole: `hello_write`, `hello_auth_write` and
  `response_write` take the buffer for drained whatever `send` took of it, so a
  partial send leaves the same state.
* Memory that runs out. Modelled are the failures after which a connection goes on
  another way: of the job of a resolver (`selector.c:542`, `ResolverGivesUp` in
  `Socks5`), whose status `resolve_blocking` ignores, and of a client's list of methods
  (`hello_parser.c:25`, `memory` in `Handshake`, in `Socks5` one of the ways to be
  offered NOMETHOD). Without memory a monitoring session is closed before it begins
  (`new_admin`), which is a `Connect` that does not happen, and a connection to port
  110 ends (`copy_st.c:156`), which `Socks5` has as `CopyEnds` and the one-connection
  modules leave out. Not modelled are the many whose NULL is used at once, which crash
  the process (`socks5.c:75`, `dns_query_st.c:57`, `connect.c:269`,
  `request_read_parser.c:49` and `60` among them), and the failure of
  `selector_register` (a descriptor beyond FD_SETSIZE, or a table that cannot grow).
* `Handshake` keeps of `read_buffer` the queue of unread bytes, which is what
  `Buffer` implements, and of the stream the messages in `Streams`. Replies are not
  composed: a reply is its method or status.
* `Dissector` takes a word of the protocol for one symbol, so a cut inside a word is
  not among its cuts; the parser keeps the letters of a word over a cut in `cmd`
  and `cmd_index`, which nothing else touches. The log line is the pair of fields.
* Passwords of the monitoring protocol are a verdict, replies a sign and a code,
  names and passwords model values with a set of those that are too long.

## 3. The runs

| Run | Instance | Shows |
|---|---|---|
| `buffer` | a block of 3 cells, 2 values, 6 bytes stored | under every mix of the operations the cells hold the queue, and the FIFO is implemented |
| `copy` | blocks of 2, 3 bytes each way, one of them sent early | the invariants of COPY, the relay, and under fairness the delivery of every byte, except at the ends that `MayDrop` names |
| `reads_all` (violated) | the same | a full buffer is taken for the end of a stream: `recv` of length 0 returns 0 |
| `dissector` | 10 dialogs, fields of 3 characters, 4 chunks | what is logged was said, and logins spoken line by line are logged |
| `selector` | 3 connections, 5 descriptors, 1 of them passive, 4 events for each pselect | sets and `max_fd` agree with the table, the event source is implemented, stale events meet origins only |
| `stale_event` (violated) | the same | a stale event is handed to a new origin |
| `handshake` | 26 streams in every cut, bytes of 32 values, each with and without memory for the list of methods | replies, the ends of messages and targets are those of a grammar |
| `socks5` | 3 connections, 3 descriptors, pool of 2, 1 address for each name | descriptors, count, jobs and threads are consistent, every send to a client is the next of a SOCKS exchange, three ways to abort and one to exit |
| `resolution` | 2 connections, 3 descriptors, connects in progress only | a name is answered in the end unless its thread could not be created or found no memory for its job |
| `never_aborted` (violated) | 1 connection | a request in two segments reaches DNS_QUERY, which has no read handler |
| `next_address` (violated) | 1 connection, 2 addresses for a name | a name whose first address fails is refused though the second would do |
| `admin` | 2 sessions, 3 names, 2 passwords of which one is too long, a table of 2 | the table stays sound and is a set of accounts, replies are paired and in order, three ways for a session to end the process |

Why the bounds are enough. *Buffer*: a block of 3 allows a partial drain, a
refill behind it and a compaction to overlap, which 2 does not; 6 bytes go round
twice. *Copy*: payloads one byte longer than the block make it fill, drain in
part and fill again; every byte is different, so a loss, a repetition or a swap
shows. *Socks5*: three clients for a pool of two fill the pool, refuse, give a
place back and take it again; three descriptors run out with two clients and one
origin and are reused at once by the next accept, which is what a stale job or
registration would need; connections and descriptors are symmetric (no action
tells them apart), and the run with liveness uses no symmetry
and leaves out the other outcomes of a connect, which come after the answer it is
about. A connection can end and two others, at work in the same walk, reuse both its
numbers, one with the event of the old owner ahead. *Admin*: two
places and three names make the table refuse for each of its reasons and delete
before another account and at the end; the second session sees every state the
first one leaves between its command and its reply. *Selector*: five descriptors
hold the passive socket and two whole connections, so a connection can end, give
back two numbers and see both used again by the other two within one walk, which
is what a stale event takes; four events cover both ends of two connections.
*Handshake*: a byte of 32 values instead of 256 lets recv() cut a stream anywhere
and still has what the code has at 255 and 256: the longest length is the size of
the arrays of a login and one less than the value at which an index wraps
(`Values`). Each kind of message is there well-formed, at the longest length, and
malformed at each of its bytes. *Dissector*: a field of 3 is exceeded by 4
characters, and 4 chunks cut each of the dialogs inside, between and behind its
commands. Two dialogs hold a CR without a LF and a LF without a CR, which no
property promises anything of (`Lines`): the dissector takes whatever is behind a
CR for its LF, and a LF alone for a character, and so misses or misreads a login
there. `TypeOK` holds of them too.

`MaxBytes` (histories of `BufferIO`), `Payload` and `MaxEarly` (`Copy`),
`MaxAddrs` (`Socks5`), `MaxReady` and `Interests` (`Selector`), `Streams` and
`Chunks` (`Handshake`), `Streams`, `MaxEarly` and `MaxChunks` (`Dissector`) are the bounds on what the program leaves unbounded.
Deadlock is checked in `buffer` and in `copy`, where the end of a connection is an
explicit stuttering step; elsewhere the process may stop by design of the code (abort,
exit, all sessions closed, shutdown) or the stream of a client ends, and the cfg
says `CHECK_DEADLOCK FALSE`.

Fairness. *Copy*: weak fairness of `copy_read` and `copy_write` of each side:
`handle_iteration` visits every descriptor that is ready in every iteration, so
an interest whose descriptor stays ready is served. That a descriptor gets
writable again is the peer's doing; a peer that neither reads nor breaks blocks
the relay, in the code and in the assumption. *Socks5*: `getaddrinfo` returns;
`selector_select` handles the jobs in every iteration (weak); a thread gets the
mutex that `handle_block_notifications` takes and releases over and over (strong,
since it is not continuously free). No fairness
makes a thread come to be or memory be found: a thread that `pthread_create` could
not start ("uncreated") or whose job had no memory ("unheard") has left its
connection waiting for good, and `ResolutionAnswered` says that only these two do
(`Abandoned`); `NobodyForgotten` says without fairness that a connection has a
running thread or a job exactly when it is not one of them. *Admin*: a session with a
reply to send is written in some iteration: the send succeeds, fails or kills the
process (`Written`). Nothing is assumed of what clients send or when they leave.

### Findings

Four runs show a disagreement of the code with what its documents, comments or
own assertions say; `PROJECT.json` quotes each. In short: a full buffer read as an
end of stream (`copy_st.c:177`); a name request in two segments aborts the server
(`request_read_st.c:104`, `stm.c:56`); the list of addresses is given up at
the first that fails (`connect.c:154`); an event handed to the next owner of a
descriptor (`selector.c:488`). The last takes two connections that send their
requests while a third ends: the walk reaches the client of the third, at the end of
its stream, and closes both its descriptors; the two requests, behind it in the walk,
open their origins with these numbers, and the readiness that pselect reported of
the second one is still ahead. It meets a connection in RESPONSE_WRITING, which has
no read handler, and the server aborts. `StaleOnlyAtOrigins` is the other half: a
client never gets such an event, for accept() runs before anything is closed. `Socks5`
has this third cause of an abort next to the two of `AbortCauses` that need no reuse:
an origin readable before the reply, and a client that goes on sending after half a
request with a name. `ExitCauses` has one cause, a connect done at once that was
never registered, and `StopCauses` three of the monitoring sessions: too many
arguments, none where the command reads one, and a message to a client that has
left. They say that nothing else *that is modelled* ends the process; what section 2
leaves out, a NULL of `malloc` used at once above all, still can.

Divergences met on the way that no run is about:

* A closing connection is destroyed by the first send, a partial one or one of the
  other direction too, with bytes of the closed direction left (`copy_st.c:221`),
  where the report says the flag is for them; and the end of one stream with nothing
  of its own buffered destroys the connection with bytes of the other on their way
  (`copy_st.c:180`). `MayDrop` names both, and an error, as the only ends that lose
  bytes: `EveryByteDelivered` promises every byte otherwise, above all to a side that
  only listens while the other sends and closes, when each send() takes all there is.
* `sctp_sendmsg` (`admin_protocol.c:294`) takes no MSG_NOSIGNAL, which every `send` of
  the proxy has, and nothing ignores SIGPIPE (`main.c:92-93`): a monitoring client,
  authenticated or not, that leaves before a message it is owed ends the whole server.
  `StopCauses` has it.
* The result of `pthread_create` is compared with -1, which it never returns
  (`dns_query_st.c:64`), and that of `selector_notify_block` is not looked at (line
  48): either failure leaves a connection waiting for good, `Abandoned`.
* Success is told while the connect is pending (`connect.c:67`).
* An unsupported command or address type is not answered: the switch for it is
  under a condition it does not meet, and the status is taken for the state
  HELLO_AUTH (`request_read_st.c:77`, `connect.c:258`). `RequestRead` of
  `Handshake` and of `Socks5` has it, and `RepliesInOrder` allows a login status
  without method AUTH for this one reason, `TakenForLogin`.
* A monitoring request with too many arguments aborts the server instead of being
  answered (`admin_protocol.c:346`); `StopCauses` names it.
* A malformed login is answered with the status the block was made with, success
  (`hello_auth_st.c`), and the next bytes are parsed as a request.
* Bytes a client sends ahead of a reply are parsed only after another recv().
* The name of a request is not found when it has 255 bytes (`destaddr_len` is then
  0), and a request cut by recv() leads to what there is of it: `TargetAsAsked`
  names these two causes and excludes others.
* The dissector reads a command without an argument together with the next line,
  and so misses a USER there; it goes over bytes twice that were not sent yet; it
  logs at the byte behind the CR of the password; `user_done` stays set, so a later
  password is logged with the name of the last USER; a field that is full has no
  end, and the name reads on into the flag behind it. `LogsOnlyWhatWasSent` and
  `LoginLogged` say which of this is excluded by their hypotheses, and hold for all
  else.
* `-N` sets a field nothing reads (`args.c:117`); the monitoring socket listens on
  all interfaces by default, the documents say loopback (`args.c:75`); the longest
  user name is 254 bytes, not 255 (`users.c:46`).

## 4. The proofs

All assume only what the modules assume of their constants: sizes and limits are
naturals (a buffer has at least one cell), `None` is none of the values it stands
beside. Proved for every buffer size, payload, number of sessions, names and
accounts:

* **`BufferProofs`**: `TypeOK`, `PointersOrdered`, `EmptyHasAllRoom`,
  `CellsHoldTheQueue`, and that a buffer implements `ByteFifo`. The invariant is
  the conjunction of the four: that draining the whole queue leaves all the room
  needs the pointers ordered, and that the cells hold the queue needs both. The
  work is in `BufferLemmas`, which says of each operator what it does to the
  unread bytes (`FillAppends`, `DrainDrops`, `CompactKeepsUnread`).
* **`CopyProofs`**: the safety of COPY. The inductive invariant adds `BuffersSound`
  (ordered pointers, and an empty buffer has all its room) to `TypeOK`,
  `NothingLostInside` and `WriteInterestMeansData`: a recv of length 0 happens
  only on a full buffer, which therefore has something to drain, and this is
  what `CloseAtOnceMeansEnd` rests on; `OnlyEarlyBytesParked` and `NoSilentStop`
  are then inductive relative to it. `CopyQuietCloseDelivers` is the half of
  `EveryByteDelivered` that is safety: when the connection ends in order, a side that
  sent and closed while the other was silent has had all its bytes delivered. Its
  invariant, `QuietInv`, is that while nothing comes the other way `closing` is set
  only for an ended stream whose every byte is delivered or buffered, unless the bytes
  wait behind early ones, so the send that ends the connection, being whole, drains the
  last of them. `CopyIsRelay` maps a
  send to `Relay`'s delivery of the next bytes of the payload, by
  `NothingLostInside`.
* **`AdminProofs`**: `AddUserAppends` and `DeleteUserShifts` say what the two
  functions do to the array as a sequence and as a set; the sessions are looked
  at one at a time (`WellFormed`), for a step touches the record of one. The
  invariant is `TypeOK`, `TableSound`, `RepliesPaired` and `SessionShape`, which
  is needed because `RepliesPaired` says nothing of a session before COMMANDS,
  and a reply left from there would be paired with nothing. `UsersAreAccounts`
  is the refinement: a command is one step of `Accounts` (an `Add`, a `Delete` or a
  refusal with its reason) or a stutter, a reply sent or a session lost a
  `Release`; a table without a name twice has as many accounts as places in use
  (a bijection), which relates the limit of the array to that of the set.
  `SaidInv` ties the last message a client was sent to the state of its session;
  relative to the invariant it is inductive, and gives `MessagesInOrder` and
  `StopCauses`: a process that is killed was sending to a client that had left, and by
  the state of its session that client was owed the greeting, a verdict or a reply.
  `AnswersAreNew` shows that a step of `Admin` that is one of `Accounts` changes what
  some client has been answered, as the abstract module asks of its steps. `RefusedChangesNothing` is `ParseCommandUsers` read backwards.
* **`Socks5Proofs`**: every invariant and action property of the life of connections,
  for any number of clients and descriptors, any pool and any addresses.
  `IInv` restates the invariants connection by connection (`Owner`, `Statuses`,
  `Interests`, `Resolution`, `Said`) and descriptor by descriptor (`FdInv`), with
  `Apart`, `Jobs` and `Counted` across them. It is stronger than what the runs
  check in four places, each needed by a step:
  - `Statuses` knows the status of a connection not answered yet, for
    `connect_origin` hands it on when a connect is done at once;
  - `Owner` keeps a pending connect registered, which is what leaves
    `ExitCauses` with one cause;
  - `Interests` has the client's interest in each state, on which `AbortCauses` rests;
  - `Noticing` says that the selector goes through the jobs only while there are any.

  `NobodyForgotten` is an equivalence: a connection that was abandoned has no job
  either, for `Jobs` has a job only where the thread is gone and has left nothing. `Said` ties the last
  message to the state of the connection, and with `again` `ClientsSeeAnExchange`
  speaks of every send and not only of a changed message. The two causes of
  `AbortsHaveThreeCauses` at an origin are the two ways of `ReadReady` for one.

  A step touches one connection, the descriptors it had and at most one that was
  not open (`Touches`); `OthersKeep` shows once that this leaves all the other
  connections as they were, and `JobsKeep`, `JobTaken` and `NotifyKeeps` what
  becomes of the list. Each handler is then looked at for its own connection
  only (`GoesOn`, `Ends`, `ConnectKeeps`, `DnsStarts`, ...). The runs check these
  properties with three clients and three descriptors.
* **`SelectorProofs`**: `TypeOK`, `TableAgrees`, `StaleOnlyAtOrigins` and that the
  selector implements `EventSource`, for any number of descriptors, passive sockets
  and connections and any number of events. `RegisterResult`, `UnregisterResult`
  and `SetInterestResult` say what each function does to a table that agrees with
  its sets; the `...Serves` lemmas reduce a handler to one of four effects (`Keeps`,
  `Gets`, `Drops`, `Admits`). The inductive invariant adds to the table
  - `Apart`: the descriptors open before any connection came (`Low`, up to the
    highest passive socket) are never closed and belong to no connection. The walk
    passes them first, so while accept() runs, every descriptor with an event
    ahead is still open and cannot be what accept() returns;
  - `Owned`: a connection's descriptors and the items with its data are the same;
  - `KeyHolds`: between the two halves of the body the key's data is that of the
    item, unless the item is unused;
  - `Accountable`: an event ahead is owed, or its item is unused, or it is at an
    origin.

* **`HandshakeProofs`**: `TypeOK`, `AnsweredAsAsked` and `TargetAsAsked`, for every
  stream of bytes, every cut of it by recv(), any accounts and any number of values
  of a byte. A parser that began at byte `b` and has taken the bytes up to `k` is one
  of `HelloAt(b, k)`, `AuthAt(b, k)` or `RequestAt(b, k)`, which say from the stream
  alone what its indices and arrays hold: a parser has no memory of where recv() cut
  what it read. The invariant `IInv` is that the parser between two events is one of
  these, not stopped unless it has been answered, and that `method` and `status`
  still have the values they were made with until then, for `hello_read` and
  `hello_auth_read` send them on. It is what makes a second recv() of a cut message
  go on where the first stopped. `HelloByteKeeps`, `AuthByteKeeps` and
  `RequestByteKeeps` take the states of each parser one by one, and there are the
  case of no memory for the list of methods, an error at the second byte, and the
  wraps of a uint8_t: `Stored` says that an index reaches a length exactly when as
  many bytes are stored; only for a name of 255 bytes the end of its block is never
  found, and `RequestAt` then says no more than that its parser stays where it is.
* **`DissectorProofs`**: `TypeOK`, `LogsOnlyWhatWasSent` and `LoginLogged`, for every
  stream, cut and drained in any way, and fields of any length. `TypeOK` is inductive
  by itself. `InStep` says of a parser that has gone over the stream once, up to `k`,
  that it is one of `PopAt(p, k)`: at the start of a line, at its first word, in
  the argument of a USER, of a PASS or of another command, or behind the CR of a
  password, with the fields as the lines before them left them (`UserAt`); and that
  the log is the list of the logins in that part. A PASS without a USER before it, or a
  field too long, stops this description (`Blocked`, `Stuck`): the parser stays in
  DONE for good, as the code does, so that nothing more is logged and
  `LogsOnlyWhatWasSent` holds all the same. `Polite` gives `LoginLogged` the rest:
  a client that speaks line by line leaves the parser at the end of each line, where
  no login is left half logged.

Both modules prove things of a loop over bytes although the provers cannot
instantiate the library's induction theorems, whose parameter is an operator. They
take the set of the numbers that have the property instead: a set of naturals that
is not empty has a least element (`HasLeast`, from the well-foundedness of `<`), so a
set that holds a number and, with each, its successor holds all of them up to a bound
(`Climb`). `ReadingsExist` and `ParsesExist` use it to show that the recursive
functions of `Consume` and `Parse` exist, `ReadsOn` and `ParseReaches` that what one
byte preserves a segment preserves.

The assumptions on the constants that these two add are facts of the code: the bytes of
a stream are values of a `uint8_t`; what `calloc` returns is not `None`; `add_user`
takes no name of 255 bytes or more (`users.c:46`, `AccountsAssumption`). The last is
needed because a name of 255 bytes fills its array in the parser: its C string reads
on into the password behind it, and can only be refused.

What stays with TLC: liveness (`EveryByteDelivered`, `ClosingEnds`,
`ResolutionAnswered`, `CommandAnswered`) and whatever needs ENABLED, which are
out of the prover's reach. No module has a RECURSIVE operator. Every invariant and
every other action property or refinement of a passing run has its theorem. The runs
that are violated are statements about one behaviour each, and need none.

## 5. What is not modelled

* `args.c` and `passive_sockets.c`: they run once, before the server serves, and keep
  no state that changes.
* `logger.c`, `util.c`, `netutils.c`: formatting, without an effect on the server.
* `adminctl.c` and what belongs to it: another program; the server must hold
  against any client, so `Admin` lets a client send anything.
* `parser.c`, `parser_utils.c`: linked, and used by none of the server's parsers.
* The tests, which were read for what they say.
* The growth of the selector's table (`ensure_capacity`): `main` asks for 1024
  elements, so it has an item for every descriptor `INVALID_FD` lets through.
* The totals of connections and bytes in `metrics.c`, which only `get_stats` prints.
* The error paths of `main` before it serves; each ends the program.
* Resolver threads that outlive the pool at shutdown (`main.c:199`): nothing in the
  code keeps them from it, so there is nothing to check.
* Passwords of the monitoring protocol byte by byte, and how its commands are cut by
  recv(): a message of `Admin` is what one recv() returned.

## 6. Plan

Done, in this order: `Buffer` and `BufferIO` (everything rests on them), `Copy`
(the service itself), `Socks5` (concurrency and ownership), `Users` and `Admin`
(shared tables), `Selector` (the iteration under them all), `Handshake` and
`Dissector` (the bytes).

The proofs came in the same order; `HandshakeProofs` and `DissectorProofs` are the
last of them.

Next:

1. That `Handshake` implements the choices `Socks5` makes of it, as a refinement of
   a module with the parsers' verdicts only.
2. The bytes of a connection from the handshake to COPY: that `parsed` of `Handshake`,
   at the end of a request, is where the early bytes of `Copy` begin.
