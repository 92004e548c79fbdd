------------------------------ MODULE Selector ------------------------------
(***************************************************************************)
(* The multiplexer, selector.c: a table of items indexed by descriptor, the*)
(* sets and the highest descriptor it derives from the table for pselect,  *)
(* and an iteration that walks the descriptors pselect reported while the  *)
(* handlers it calls register, unregister and close descriptors.           *)
(*                                                                         *)
(* The handlers are those of the SOCKS connections and of the passive      *)
(* sockets, reduced to what they do to the table (Socks5.tla has them      *)
(* whole).  main asks for a table of FD_SETSIZE elements, so it covers     *)
(* every descriptor INVALID_FD lets through and never grows.               *)
(***************************************************************************)
EXTENDS Integers, FiniteSets

CONSTANTS
    FdSetSize,  \* FD_SETSIZE
    Passive,    \* descriptors of the passive sockets, opened before any other
    Conn,       \* struct socks5 blocks
    Listener,   \* what a passive socket's item has instead of a connection
    None,       \* no data, no descriptor (FD_UNUSED)
    Interests,  \* bound: the interests connections choose from
    MaxReady    \* bound: events one pselect reports

Fd == 0 .. FdSetSize - 1

ASSUME SizeAssumption == FdSetSize \in Nat \ {0} /\ MaxReady \in Nat
ASSUME InterestsAssumption == Interests \subseteq SUBSET {"OP_READ", "OP_WRITE"}
ASSUME PassiveAssumption == Passive \subseteq Fd
ASSUME DataAssumption == /\ Listener \notin Conn
                         /\ None \notin Conn \cup {Listener}
                         /\ None \notin Fd

VARIABLES
    s,          \* struct fdselector: the table and what is derived from it
    slave,      \* slave_r and slave_w: what the last pselect left in them
    pc,         \* where selector_select is
    walk,       \* handle_iteration: n, i, which half of the body, key.data
    open,       \* descriptors open in the process
    conn,       \* the descriptors of a connection, None before and after
    owed        \* history: events of the last pselect that the walk has not
                \* passed yet, of items that were not unregistered since

vars == <<s, slave, pc, walk, open, conn, owed>>

OP_READ == "OP_READ"
OP_WRITE == "OP_WRITE"
Op == {OP_READ, OP_WRITE}

FD_UNUSED == [data |-> None, interest |-> {}]
Item == [data : Conn \cup {Listener}, interest : SUBSET Op] \cup {FD_UNUSED}
ITEM_USED(sel, fd) == sel.item[fd].data # None

(* The tests of the arguments: ~ INVALID_FD and ITEM_USED *)
Registered(sel, fd) == fd \in Fd /\ ITEM_USED(sel, fd)

-----------------------------------------------------------------------------
(* items_max_fd: the highest used descriptor up to max_fd, or 0; mutant:   *)
(* the loop stops one short                                                *)
HighestUpTo(sel, last) ==
    CHOOSE m \in 0 .. sel.max_fd :
        /\ m = 0 \/ (m <= last /\ ITEM_USED(sel, m))
        /\ \A fd \in Fd : m < fd /\ fd <= last => ~ ITEM_USED(sel, fd)
ItemsMaxFdOneShort(sel) == HighestUpTo(sel, sel.max_fd - 1)
ItemsMaxFd(sel) ==
    CHOOSE m \in 0 .. sel.max_fd :
        /\ m = 0 \/ ITEM_USED(sel, m)
        /\ \A fd \in Fd : m < fd /\ fd <= sel.max_fd => ~ ITEM_USED(sel, fd)

(* items_update_fdset_for_fd *)
UpdateFdset(sel, fd) ==
    LET in(set, op) == IF op \in sel.item[fd].interest THEN set \cup {fd} ELSE set \ {fd}
    IN  [sel EXCEPT !.master_r = in(@, OP_READ), !.master_w = in(@, OP_WRITE)]

(* selector_register; SELECTOR_FDINUSE leaves everything as it is *)
Register(sel, fd, data, interest) ==
    IF ITEM_USED(sel, fd) THEN sel
    ELSE UpdateFdset([sel EXCEPT !.item[fd] = [data |-> data, interest |-> interest],
                                 !.max_fd = IF fd > @ THEN fd ELSE @], fd)

(* selector_unregister_fd; mutant: the item is only marked as unused       *)
UnregisterOnlyMarks(sel, fd) ==
    LET out == [sel EXCEPT !.item[fd].data = None]
    IN  IF Registered(sel, fd) THEN [out EXCEPT !.max_fd = ItemsMaxFd(out)] ELSE sel
Unregister(sel, fd) ==
    LET off == UpdateFdset([sel EXCEPT !.item[fd].interest = {}], fd)
        out == [off EXCEPT !.item[fd] = FD_UNUSED]
    IN  IF Registered(sel, fd) THEN [out EXCEPT !.max_fd = ItemsMaxFd(out)] ELSE sel

(* selector_set_interest; selector_add_interest and _remove_interest set   *)
(* the union or the difference with what there is                          *)
SetInterest(sel, fd, interest) ==
    IF Registered(sel, fd) THEN UpdateFdset([sel EXCEPT !.item[fd].interest = interest], fd)
    ELSE sel

(* selector_destroy: every item that is left is unregistered *)
Destroyed == [item |-> [fd \in Fd |-> FD_UNUSED], max_fd |-> 0,
              master_r |-> {}, master_w |-> {}]

-----------------------------------------------------------------------------
Gone == [client |-> None, origin |-> None]
OwnFds(c) == {conn[c].client, conn[c].origin} \ {None}

(* The lowest descriptor that is not open, which is what accept() and      *)
(* socket() return                                                         *)
Lowest == CHOOSE fd \in Fd \ open : \A other \in Fd \ open : fd <= other

(* The table main starts to serve with: its passive sockets, and whatever  *)
(* was open below them                                                     *)
AtStart == [item |-> [fd \in Fd |-> IF fd \in Passive
                                    THEN [data |-> Listener, interest |-> {OP_READ}]
                                    ELSE FD_UNUSED],
            max_fd |-> CHOOSE m \in Passive \cup {0} : \A fd \in Passive : fd <= m,
            master_r |-> Passive,
            master_w |-> {}]

NotWalking == [n |-> 0, i |-> 0, half |-> "read", data |-> None]

Init ==
    /\ s = AtStart
    /\ slave = [read |-> {}, write |-> {}]
    /\ pc = "pselect"
    /\ walk = NotWalking
    /\ open = {fd \in Fd : \E p \in Passive : fd <= p}
    /\ conn = [c \in Conn |-> Gone]
    /\ owed = {}

-----------------------------------------------------------------------------
(* What handlers do to the table.                                          *)

(* socksv5_passive_accept: a client is registered, or refused *)
Accepts ==
    \/ UNCHANGED <<s, open, conn>>
    \/ \E c \in Conn :
          /\ conn[c] = Gone
          /\ Fd \ open # {}
          /\ s' = Register(s, Lowest, c, {OP_READ})
          /\ open' = open \cup {Lowest}
          /\ conn' = [conn EXCEPT ![c].client = Lowest]

(* Interests of a connection's own descriptors, hello_read to copy_write *)
ChangesInterests(c) ==
    /\ \E client \in Interests :
          LET one == SetInterest(s, conn[c].client, client)
          IN  IF conn[c].origin = None THEN s' = one
              ELSE \E origin \in Interests : s' = SetInterest(one, conn[c].origin, origin)
    /\ UNCHANGED <<open, conn>>

(* connect_init: the origin's socket is registered, and kept or, when      *)
(* SO_ERROR shows an error, unregistered and closed again; the client is   *)
(* to be written.  An origin that is connected at once, and so is never    *)
(* registered, ends the process: Socks5.tla has it.                        *)
OpensOrigin(c) ==
    /\ conn[c].origin = None
    /\ Fd \ open # {}
    /\ LET registered == Register(s, Lowest, c, {OP_READ})
       IN  \/ /\ s' = SetInterest(registered, conn[c].client, {OP_WRITE})
              /\ open' = open \cup {Lowest}
              /\ conn' = [conn EXCEPT ![c].origin = Lowest]
           \/ /\ s' = SetInterest(Unregister(registered, Lowest), conn[c].client, {OP_WRITE})
              /\ UNCHANGED <<open, conn>>

(* destroy_socks5: both descriptors are unregistered and closed *)
UnregisterClient(c) == Unregister(s, conn[c].client)
Destroys(c) ==
    /\ s' = IF conn[c].origin = None THEN UnregisterClient(c)
            ELSE Unregister(UnregisterClient(c), conn[c].origin)
    /\ open' = open \ OwnFds(c)
    /\ conn' = [conn EXCEPT ![c] = Gone]

(* handle_read and handle_write of an item with this data *)
Handles(data) ==
    IF data = Listener THEN Accepts
    ELSE ChangesInterests(data) \/ OpensOrigin(data) \/ Destroys(data)

-----------------------------------------------------------------------------
(* What pselect is asked about: the master sets up to max_fd *)
Asked(set) == {fd \in set : fd <= s.max_fd}

(* selector_select: pselect leaves in the slave sets what is ready of what *)
(* it was asked about; after the timeout that is nothing                   *)
Select ==
    /\ pc = "pselect"
    /\ \E r \in SUBSET Asked(s.master_r), w \in SUBSET Asked(s.master_w) :
          /\ Cardinality(r) + Cardinality(w) <= MaxReady
          /\ slave' = [read |-> r, write |-> w]
          /\ owed' = (r \X {"read"}) \cup (w \X {"write"})
    /\ walk' = [NotWalking EXCEPT !.n = s.max_fd]
    /\ pc' = "walk"
    /\ UNCHANGED <<s, open, conn>>

(* EINTR, a resolver's signal: the slave sets are still the copies of the  *)
(* master sets, so the iteration must be skipped; mutant: it is not        *)
InterruptedWalks ==
    /\ pc = "pselect"
    /\ pc' = "walk"
    /\ slave' = [read |-> s.master_r, write |-> s.master_w]
    /\ walk' = [NotWalking EXCEPT !.n = s.max_fd]
    /\ UNCHANGED <<s, open, conn, owed>>
Interrupted ==
    /\ pc = "pselect"
    /\ pc' = "notify"
    /\ slave' = [read |-> s.master_r, write |-> s.master_w]
    /\ UNCHANGED <<s, walk, open, conn, owed>>

(* Events of items that were unregistered are not owed any more, nor is    *)
(* what the walk has just passed                                           *)
StillOwed(passed) ==
    {e \in owed \ {passed} : s'.item[e[1]].data = s.item[e[1]].data}

(* The item at i has an event to be handled in this half of the body;      *)
(* mutant: the interest is not looked at again after the read handler      *)
DueWithoutInterest(half, op) ==
    /\ pc = "walk" /\ walk.half = half /\ walk.i <= walk.n
    /\ walk.i \in slave[half]
    /\ half = "write" \/ op \in s.item[walk.i].interest
Due(half, op) ==
    /\ pc = "walk" /\ walk.half = half /\ walk.i <= walk.n
    /\ walk.i \in slave[half]
    /\ op \in s.item[walk.i].interest

(* First half of the loop's body: key is filled in from the item and       *)
(* handle_read is called; an unused item is passed over                    *)
ReadHalf ==
    /\ pc = "walk" /\ walk.half = "read" /\ walk.i <= walk.n
    /\ IF Due("read", OP_READ) THEN Handles(s.item[walk.i].data)
       ELSE UNCHANGED <<s, open, conn>>
    /\ walk' = IF ITEM_USED(s, walk.i)
               THEN [walk EXCEPT !.half = "write", !.data = s.item[walk.i].data]
               ELSE [walk EXCEPT !.i = @ + 1]
    /\ owed' = StillOwed(<<walk.i, "read">>)
    /\ UNCHANGED <<slave, pc>>

(* Second half: handle_write is called with the key of the first, whatever *)
(* handle_read has done to the item meanwhile                              *)
WriteHalf ==
    /\ pc = "walk" /\ walk.half = "write" /\ walk.i <= walk.n
    /\ IF Due("write", OP_WRITE) THEN Handles(walk.data)
       ELSE UNCHANGED <<s, open, conn>>
    /\ walk' = [walk EXCEPT !.half = "read", !.i = @ + 1, !.data = None]
    /\ owed' = StillOwed(<<walk.i, "write">>)
    /\ UNCHANGED <<slave, pc>>

WalkEnds ==
    /\ pc = "walk" /\ walk.i > walk.n
    /\ pc' = "notify"
    /\ walk' = NotWalking
    /\ UNCHANGED <<s, slave, open, conn, owed>>

(* handle_block_notifications: a connection that waited for its name gets  *)
(* its origin, or is told there is none; which one has a job is the        *)
(* business of Socks5.tla                                                  *)
HandleBlock ==
    /\ pc = "notify"
    /\ \E c \in Conn :
          /\ conn[c] # Gone /\ conn[c].origin = None
          /\ OpensOrigin(c)
    /\ UNCHANGED <<slave, pc, walk, owed>>

(* The slave sets are overwritten by the next call *)
NotifyEnds ==
    /\ pc = "notify"
    /\ pc' = "pselect"
    /\ slave' = [read |-> {}, write |-> {}]
    /\ UNCHANGED <<s, walk, open, conn, owed>>

(* The end of main: a signal has set done; the selector is destroyed, the  *)
(* passive sockets are closed and the pool is freed, whose connections'    *)
(* descriptors stay open to the end                                        *)
Shutdown ==
    /\ pc = "pselect"
    /\ pc' = "closed"
    /\ s' = Destroyed
    /\ open' = open \ Passive
    /\ conn' = [c \in Conn |-> Gone]
    /\ UNCHANGED <<slave, walk, owed>>

Next ==
    \/ Select \/ Interrupted
    \/ ReadHalf \/ WriteHalf \/ WalkEnds
    \/ HandleBlock \/ NotifyEnds
    \/ Shutdown

Spec == Init /\ [][Next]_vars

-----------------------------------------------------------------------------
(* The types, and that the record of the walk is within the table *)
TypeOK ==
    /\ s \in [item : [Fd -> Item], max_fd : Fd,
              master_r : SUBSET Fd, master_w : SUBSET Fd]
    /\ slave \in [read : SUBSET Fd, write : SUBSET Fd]
    /\ pc \in {"pselect", "walk", "notify", "closed"}
    /\ walk \in [n : Nat, i : Nat, half : {"read", "write"},
                 data : Conn \cup {Listener, None}]
    /\ walk.n < FdSetSize /\ walk.i <= walk.n + 1
    /\ open \in SUBSET Fd
    /\ conn \in [Conn -> [client : Fd \cup {None}, origin : Fd \cup {None}]]
    /\ owed \in SUBSET (Fd \X {"read", "write"})

(* What pselect is asked for is what the items ask for: nothing of a       *)
(* descriptor that was unregistered or closed (which would be EBADF and    *)
(* end the server), nothing missing, and no registered descriptor beyond   *)
(* the highest it looks at                                                 *)
TableAgrees ==
    /\ s.master_r = {fd \in Fd : OP_READ \in s.item[fd].interest}
    /\ s.master_w = {fd \in Fd : OP_WRITE \in s.item[fd].interest}
    /\ \A fd \in Fd : ITEM_USED(s, fd) => fd \in open /\ fd <= s.max_fd
    /\ s.max_fd = 0 \/ ITEM_USED(s, s.max_fd)

(* An event the walk is about to hand out, but that belongs to a           *)
(* descriptor's earlier life, meets the origin of a connection, never a    *)
(* client: accept() runs before the handlers that close anything           *)
Stale(half, op) == Due(half, op) /\ <<walk.i, half>> \notin owed
StaleOnlyAtOrigins ==
    \A half \in {"read", "write"}, op \in Op :
        (half = "read") = (op = OP_READ) /\ Stale(half, op) =>
            \E c \in Conn : conn[c].origin = walk.i

(* The table serves as an event source: the key that is filled in before   *)
(* handle_read still names the descriptor's owner at handle_write          *)
Source == INSTANCE EventSource WITH table <- s.item, at <- walk.i, Owner <- Conn
EventSourceSpec == Source!Spec

(* Violated by the code: selector.h says that selector_select hands out    *)
(* the events there are; after a descriptor was closed and used again in   *)
(* the same iteration it hands out one that is not there                   *)
EventsFresh == ~ Stale("read", OP_READ) /\ ~ Stale("write", OP_WRITE)
=============================================================================
