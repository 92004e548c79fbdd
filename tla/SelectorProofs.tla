--------------------------- MODULE SelectorProofs ---------------------------
(***************************************************************************)
(* Proofs about the table of the multiplexer and its iteration, for any    *)
(* number of descriptors, passive sockets and connections and for any bound*)
(* on the events of one pselect.                                           *)
(***************************************************************************)
EXTENDS Selector, WellFoundedInduction, TLAPS

-----------------------------------------------------------------------------
(* The extremes the CHOOSEs of the module stand for exist *)

LEMMA HasLeast ==
    ASSUME NEW T \in SUBSET Nat, T # {}
    PROVE  \E m \in T : \A x \in T : m <= x
<1>1. PICK m \in T : \A x \in T : ~ (<<x, m>> \in OpToRel(<, Nat))
    BY NatLessThanWellFounded, WFMin
<1>2. \A x \in T : ~ (x < m)
    BY <1>1 DEF OpToRel
<1> QED
    BY <1>2

LEMMA HasGreatest ==
    ASSUME NEW n \in Nat, NEW T \in SUBSET (0 .. n), T # {}
    PROVE  \E m \in T : \A x \in T : x <= m
<1> DEFINE D == {n - x : x \in T}
<1>0. \A x \in T : x \in Int /\ n - x \in Nat
    OBVIOUS
<1>1. D \in SUBSET Nat /\ D # {}
    BY <1>0
<1>2. PICK d \in D : \A e \in D : d <= e
    BY <1>1, HasLeast
<1>3. PICK m \in T : d = n - m
    BY <1>2
<1>4. ASSUME NEW x \in T PROVE x <= m
    <2>1. n - x \in D
        OBVIOUS
    <2>2. n - m <= n - x
        BY <1>2, <1>3, <2>1
    <2> QED
        BY <2>2
<1> QED
    BY <1>3, <1>4

LEMMA LowestIsFree ==
    ASSUME open \in SUBSET Fd, Fd \ open # {}
    PROVE  Lowest \in Fd \ open
<1>1. Fd \ open \in SUBSET Nat
    BY SizeAssumption DEF Fd
<1>2. \E m \in Fd \ open : \A x \in Fd \ open : m <= x
    BY <1>1, HasLeast
<1> QED
    BY <1>2 DEF Lowest

-----------------------------------------------------------------------------
(* The table and what is derived from it.                                  *)
Table == [item : [Fd -> Item], max_fd : Fd, master_r : SUBSET Fd, master_w : SUBSET Fd]

Bounded(sel) == \A fd \in Fd : ITEM_USED(sel, fd) => fd <= sel.max_fd

Agrees(sel) ==
    /\ sel.master_r = {fd \in Fd : OP_READ \in sel.item[fd].interest}
    /\ sel.master_w = {fd \in Fd : OP_WRITE \in sel.item[fd].interest}
    /\ Bounded(sel)
    /\ sel.max_fd = 0 \/ ITEM_USED(sel, sel.max_fd)

LEMMA Items ==
    /\ FD_UNUSED \in Item /\ FD_UNUSED.data = None /\ FD_UNUSED.interest = {}
    /\ \A d \in Conn \cup {Listener}, interest \in SUBSET Op :
          [data |-> d, interest |-> interest] \in Item
    /\ \A i \in Item : /\ i.data \in Conn \cup {Listener, None} /\ i.interest \in SUBSET Op
                       /\ i.data = None <=> i = FD_UNUSED
                       /\ i.interest # {} => i.data \in Conn \cup {Listener}
BY DataAssumption DEF Item, FD_UNUSED

LEMMA UpdateFdsetResult ==
    ASSUME NEW sel \in Table, NEW fd \in Fd
    PROVE  /\ UpdateFdset(sel, fd) \in Table
           /\ UpdateFdset(sel, fd).item = sel.item
           /\ UpdateFdset(sel, fd).max_fd = sel.max_fd
           /\ UpdateFdset(sel, fd).master_r =
                 IF OP_READ \in sel.item[fd].interest THEN sel.master_r \cup {fd}
                 ELSE sel.master_r \ {fd}
           /\ UpdateFdset(sel, fd).master_w =
                 IF OP_WRITE \in sel.item[fd].interest THEN sel.master_w \cup {fd}
                 ELSE sel.master_w \ {fd}
BY DEF UpdateFdset, Table

(* items_max_fd finds the highest used descriptor, or 0 when none is used. *)
LEMMA ItemsMaxFdResult ==
    ASSUME NEW sel \in Table, Bounded(sel)
    PROVE  /\ ItemsMaxFd(sel) \in Fd
           /\ ItemsMaxFd(sel) = 0 \/ ITEM_USED(sel, ItemsMaxFd(sel))
           /\ \A fd \in Fd : ITEM_USED(sel, fd) => fd <= ItemsMaxFd(sel)
<1> DEFINE T == {0} \cup {fd \in Fd : ITEM_USED(sel, fd)}
<1>1. sel.max_fd \in Fd /\ Fd \in SUBSET Nat /\ FdSetSize \in Nat \ {0}
    BY SizeAssumption DEF Table, Fd
<1>2. T \in SUBSET (0 .. sel.max_fd) /\ T # {}
    BY <1>1 DEF Bounded, Fd
<1>3. PICK m \in T : \A x \in T : x <= m
    <2> HIDE DEF T
    <2>1. sel.max_fd \in Nat
        BY <1>1
    <2> QED
        BY <1>2, <2>1, HasGreatest
<1>4. \E k \in 0 .. sel.max_fd :
         /\ k = 0 \/ ITEM_USED(sel, k)
         /\ \A fd \in Fd : k < fd /\ fd <= sel.max_fd => ~ ITEM_USED(sel, fd)
    <2>1. m \in 0 .. sel.max_fd /\ (m = 0 \/ ITEM_USED(sel, m))
        BY <1>2, <1>3
    <2>2. ASSUME NEW fd \in Fd, m < fd PROVE ~ ITEM_USED(sel, fd)
        <3>1. SUFFICES ASSUME ITEM_USED(sel, fd) PROVE FALSE
            OBVIOUS
        <3>2. fd \in T /\ fd \in Nat /\ m \in Nat
            BY <1>1, <2>1, <3>1
        <3>3. fd <= m
            BY <1>3, <3>2
        <3> QED
            BY <2>2, <3>2, <3>3
    <2> QED
        BY <2>1, <2>2
<1>5. /\ ItemsMaxFd(sel) \in 0 .. sel.max_fd
      /\ ItemsMaxFd(sel) = 0 \/ ITEM_USED(sel, ItemsMaxFd(sel))
      /\ \A fd \in Fd : ItemsMaxFd(sel) < fd /\ fd <= sel.max_fd => ~ ITEM_USED(sel, fd)
    BY <1>4 DEF ItemsMaxFd
<1>6. ItemsMaxFd(sel) \in Fd
    BY <1>1, <1>5 DEF Fd
<1>7. ASSUME NEW fd \in Fd, ITEM_USED(sel, fd) PROVE fd <= ItemsMaxFd(sel)
    <2>1. fd <= sel.max_fd
        BY <1>7 DEF Bounded
    <2>2. ~ (ItemsMaxFd(sel) < fd)
        BY <1>5, <1>7, <2>1
    <2>3. fd \in Nat /\ ItemsMaxFd(sel) \in Nat
        BY <1>1, <1>6
    <2> QED
        BY <2>2, <2>3
<1> QED
    BY <1>5, <1>6, <1>7

LEMMA RegisterResult ==
    ASSUME NEW sel \in Table, Agrees(sel), NEW fd \in Fd, ~ ITEM_USED(sel, fd),
           NEW d \in Conn \cup {Listener}, NEW interest \in SUBSET Op
    PROVE  LET r == Register(sel, fd, d, interest) IN
           /\ r \in Table /\ Agrees(r)
           /\ r.item = [sel.item EXCEPT ![fd] = [data |-> d, interest |-> interest]]
<1> DEFINE new == [data |-> d, interest |-> interest]
           items == [sel.item EXCEPT ![fd] = new]
           top == IF fd > sel.max_fd THEN fd ELSE sel.max_fd
           mid == [sel EXCEPT !.item[fd] = new, !.max_fd = IF fd > @ THEN fd ELSE @]
           r == UpdateFdset(mid, fd)
<1>0. Register(sel, fd, d, interest) = r
    BY DEF Register
<1>1. /\ new \in Item /\ new.data = d /\ new.interest = interest /\ d # None
      /\ sel.item \in [Fd -> Item] /\ sel.max_fd \in Fd
      /\ sel.master_r \in SUBSET Fd /\ sel.master_w \in SUBSET Fd
    BY Items, DataAssumption DEF Table
<1>2. items \in [Fd -> Item] /\ items[fd] = new /\ \A f \in Fd : f # fd => items[f] = sel.item[f]
    BY <1>1
<1>3. top \in Fd /\ fd <= top /\ sel.max_fd <= top /\ (top = fd \/ top = sel.max_fd)
    BY <1>1, SizeAssumption DEF Fd
<1>4. /\ mid = [item |-> items, max_fd |-> top, master_r |-> sel.master_r,
                master_w |-> sel.master_w]
      /\ mid \in Table
    <2>1. sel = [item |-> sel.item, max_fd |-> sel.max_fd, master_r |-> sel.master_r,
                 master_w |-> sel.master_w]
        BY DEF Table
    <2>2. mid = [item |-> items, max_fd |-> top, master_r |-> sel.master_r,
                 master_w |-> sel.master_w]
        <3>1. mid = [sel EXCEPT !.item[fd] = new, !.max_fd = top]
            OBVIOUS
        <3> HIDE DEF mid, top, new
        <3>2. mid = [[sel EXCEPT !.item[fd] = new] EXCEPT !.max_fd = top]
            BY <3>1
        <3>3. [sel EXCEPT !.item[fd] = new]
                 = [item |-> items, max_fd |-> sel.max_fd, master_r |-> sel.master_r,
                    master_w |-> sel.master_w]
            BY <2>1
        <3> HIDE DEF items
        <3> QED
            BY <3>2, <3>3
    <2> HIDE DEF mid, items, top
    <2> QED
        BY <1>1, <1>2, <1>3, <2>2 DEF Table
<1>5. /\ r \in Table /\ r.item = items /\ r.max_fd = top
      /\ r.master_r = IF OP_READ \in interest THEN sel.master_r \cup {fd} ELSE sel.master_r \ {fd}
      /\ r.master_w = IF OP_WRITE \in interest THEN sel.master_w \cup {fd} ELSE sel.master_w \ {fd}
    <2> HIDE DEF mid, new, items, top
    <2> QED
        BY <1>1, <1>2, <1>4, UpdateFdsetResult
<1>6. Agrees(r)
    <2> HIDE DEF r, new, items, top
    <2>1. /\ r.master_r = {f \in Fd : OP_READ \in r.item[f].interest}
          /\ r.master_w = {f \in Fd : OP_WRITE \in r.item[f].interest}
        BY <1>1, <1>2, <1>5 DEF Agrees
    <2>2. Bounded(r)
        <3>1. ASSUME NEW f \in Fd, ITEM_USED(r, f) PROVE f <= top
            <4>1. CASE f = fd
                BY <1>3, <4>1
            <4>2. CASE f # fd
                <5>1. ITEM_USED(sel, f)
                    BY <1>2, <1>5, <3>1, <4>2 DEF ITEM_USED
                <5>2. f <= sel.max_fd
                    BY <5>1 DEF Agrees, Bounded
                <5> QED
                    BY <1>1, <1>3, <5>2, SizeAssumption DEF Fd
            <4> QED
                BY <4>1, <4>2
        <3> QED
            BY <1>5, <3>1 DEF Bounded
    <2>3. r.max_fd = 0 \/ ITEM_USED(r, r.max_fd)
        <3>1. CASE top = fd
            BY <1>1, <1>2, <1>5, <3>1 DEF ITEM_USED
        <3>2. CASE top = sel.max_fd /\ top # fd
            BY <1>1, <1>2, <1>5, <3>2 DEF Agrees, ITEM_USED
        <3> QED
            BY <1>3, <3>1, <3>2
    <2> QED
        BY <2>1, <2>2, <2>3 DEF Agrees
<1> QED
    BY <1>0, <1>5, <1>6

LEMMA UnregisterResult ==
    ASSUME NEW sel \in Table, Agrees(sel), NEW fd \in Fd \cup {None}
    PROVE  LET r == Unregister(sel, fd) IN
           /\ r \in Table /\ Agrees(r)
           /\ r.item = IF fd = None THEN sel.item ELSE [sel.item EXCEPT ![fd] = FD_UNUSED]
<1>1. CASE ~ Registered(sel, fd)
    <2>1. Unregister(sel, fd) = sel
        BY <1>1 DEF Unregister
    <2>2. sel.item = IF fd = None THEN sel.item ELSE [sel.item EXCEPT ![fd] = FD_UNUSED]
        <3>1. CASE fd = None
            BY <3>1
        <3>2. CASE fd # None
            <4>1. fd \in Fd /\ sel.item[fd].data = None /\ sel.item \in [Fd -> Item]
                BY <1>1, <3>2 DEF Registered, ITEM_USED, Table
            <4>2. sel.item[fd] = FD_UNUSED
                BY <4>1, Items
            <4> QED
                BY <3>2, <4>1, <4>2
        <3> QED
            BY <3>1, <3>2
    <2> QED
        BY <2>1, <2>2
<1>2. CASE Registered(sel, fd)
    <2> DEFINE quiet == [sel.item[fd] EXCEPT !.interest = {}]
               items == [sel.item EXCEPT ![fd] = FD_UNUSED]
               still == [sel EXCEPT !.item[fd].interest = {}]
               off == UpdateFdset(still, fd)
               out == [off EXCEPT !.item[fd] = FD_UNUSED]
               r == [out EXCEPT !.max_fd = ItemsMaxFd(out)]
    <2>0. Unregister(sel, fd) = r /\ fd \in Fd /\ fd # None
        BY <1>2, DataAssumption DEF Unregister, Registered
    <2>1. /\ sel.item \in [Fd -> Item] /\ sel.max_fd \in Fd /\ sel.item[fd] \in Item
          /\ sel.master_r \in SUBSET Fd /\ sel.master_w \in SUBSET Fd
        BY <2>0 DEF Table
    <2>2. /\ quiet = [data |-> sel.item[fd].data, interest |-> {}]
          /\ quiet \in Item
        <3>1. sel.item[fd].data \in Conn \cup {Listener}
            BY <1>2, <2>1, Items DEF Registered, ITEM_USED
        <3>2. sel.item[fd] \in [data : Conn \cup {Listener}, interest : SUBSET Op]
            BY <2>1, <3>1, DataAssumption DEF Item, FD_UNUSED
        <3>3. quiet = [data |-> sel.item[fd].data, interest |-> {}]
            BY <3>2
        <3> QED
            BY <3>1, <3>3, Items
    <2>3. /\ still = [item |-> [sel.item EXCEPT ![fd] = quiet], max_fd |-> sel.max_fd,
                      master_r |-> sel.master_r, master_w |-> sel.master_w]
          /\ still \in Table
        <3>1. sel = [item |-> sel.item, max_fd |-> sel.max_fd, master_r |-> sel.master_r,
                     master_w |-> sel.master_w]
            BY DEF Table
        <3>2. still = [item |-> [sel.item EXCEPT ![fd] = quiet], max_fd |-> sel.max_fd,
                       master_r |-> sel.master_r, master_w |-> sel.master_w]
            BY <3>1
        <3>3. [sel.item EXCEPT ![fd] = quiet] \in [Fd -> Item]
            BY <2>0, <2>1, <2>2
        <3> HIDE DEF still, quiet
        <3> QED
            BY <2>1, <3>2, <3>3 DEF Table
    <2>4. still.item[fd].interest = {}
        BY <2>0, <2>1, <2>2, <2>3
    <2>5. /\ off \in Table /\ off.item = still.item /\ off.max_fd = sel.max_fd
          /\ off.master_r = sel.master_r \ {fd} /\ off.master_w = sel.master_w \ {fd}
        <3>1. still.master_r = sel.master_r /\ still.master_w = sel.master_w
              /\ still.max_fd = sel.max_fd
            BY <2>3
        <3> HIDE DEF still
        <3> QED
            BY <2>0, <2>3, <2>4, <3>1, UpdateFdsetResult
    <2>6. /\ out = [item |-> items, max_fd |-> sel.max_fd,
                    master_r |-> sel.master_r \ {fd}, master_w |-> sel.master_w \ {fd}]
          /\ out \in Table
        <3>1. [off.item EXCEPT ![fd] = FD_UNUSED] = items
            BY <2>0, <2>1, <2>3, <2>5
        <3>2. items \in [Fd -> Item]
            BY <2>1, Items
        <3>3. off = [item |-> off.item, max_fd |-> off.max_fd, master_r |-> off.master_r,
                     master_w |-> off.master_w]
            <4> HIDE DEF off
            <4> QED
                BY <2>5 DEF Table
        <3>4. out = [item |-> [off.item EXCEPT ![fd] = FD_UNUSED], max_fd |-> off.max_fd,
                     master_r |-> off.master_r, master_w |-> off.master_w]
            <4> HIDE DEF off
            <4> QED
                BY <3>3
        <3> HIDE DEF out, off, items
        <3> QED
            BY <2>1, <2>5, <3>1, <3>2, <3>4 DEF Table
    <2>7. /\ items[fd] = FD_UNUSED /\ \A f \in Fd : f # fd => items[f] = sel.item[f]
        BY <2>0, <2>1
    <2>8. Bounded(out)
        <3> HIDE DEF items, out
        <3>1. ASSUME NEW f \in Fd, ITEM_USED(out, f) PROVE f <= out.max_fd
            <4>1. f # fd
                BY <2>6, <2>7, <3>1, Items DEF ITEM_USED
            <4>2. ITEM_USED(sel, f)
                BY <2>6, <2>7, <3>1, <4>1 DEF ITEM_USED
            <4> QED
                BY <2>6, <4>2 DEF Agrees, Bounded
        <3> QED
            BY <3>1 DEF Bounded
    <2>9. /\ r = [item |-> items, max_fd |-> ItemsMaxFd(out),
                  master_r |-> sel.master_r \ {fd}, master_w |-> sel.master_w \ {fd}]
          /\ r \in Table
        <3> HIDE DEF out, items
        <3>1. ItemsMaxFd(out) \in Fd
            BY <2>6, <2>8, ItemsMaxFdResult
        <3> QED
            BY <2>6, <3>1 DEF Table
    <2>10. Agrees(r)
        <3> HIDE DEF r, out, items
        <3>1. /\ r.master_r = {f \in Fd : OP_READ \in r.item[f].interest}
              /\ r.master_w = {f \in Fd : OP_WRITE \in r.item[f].interest}
            BY <2>7, <2>9, Items DEF Agrees
        <3>2. \A f \in Fd : ITEM_USED(r, f) <=> ITEM_USED(out, f)
            BY <2>6, <2>9 DEF ITEM_USED
        <3>3. /\ r.max_fd \in Fd /\ r.max_fd = ItemsMaxFd(out)
              /\ r.max_fd = 0 \/ ITEM_USED(out, r.max_fd)
              /\ \A f \in Fd : ITEM_USED(out, f) => f <= r.max_fd
            BY <2>6, <2>8, <2>9, ItemsMaxFdResult
        <3> QED
            BY <3>1, <3>2, <3>3 DEF Agrees, Bounded
    <2> HIDE DEF r, items
    <2> QED
        BY <2>0, <2>9, <2>10 DEF items
<1> QED
    BY <1>1, <1>2

LEMMA SetInterestResult ==
    ASSUME NEW sel \in Table, Agrees(sel), NEW fd \in Fd \cup {None}, NEW interest \in SUBSET Op
    PROVE  LET r == SetInterest(sel, fd, interest) IN
           /\ r \in Table /\ Agrees(r)
           /\ \A f \in Fd : /\ r.item[f].data = sel.item[f].data
                            /\ f # fd => r.item[f] = sel.item[f]
<1>1. CASE ~ Registered(sel, fd)
    BY <1>1 DEF SetInterest
<1>2. CASE Registered(sel, fd)
    <2> DEFINE new == [sel.item[fd] EXCEPT !.interest = interest]
               items == [sel.item EXCEPT ![fd] = new]
               mid == [sel EXCEPT !.item[fd].interest = interest]
               r == UpdateFdset(mid, fd)
    <2>0. SetInterest(sel, fd, interest) = r /\ fd \in Fd
        BY <1>2 DEF SetInterest, Registered
    <2>1. /\ sel.item \in [Fd -> Item] /\ sel.max_fd \in Fd /\ sel.item[fd] \in Item
          /\ sel.master_r \in SUBSET Fd /\ sel.master_w \in SUBSET Fd
        BY <2>0 DEF Table
    <2>2. /\ new = [data |-> sel.item[fd].data, interest |-> interest]
          /\ new \in Item
        <3>1. sel.item[fd].data \in Conn \cup {Listener}
            BY <1>2, <2>1, Items DEF Registered, ITEM_USED
        <3>2. sel.item[fd] \in [data : Conn \cup {Listener}, interest : SUBSET Op]
            BY <2>1, <3>1, DataAssumption DEF Item, FD_UNUSED
        <3>3. new = [data |-> sel.item[fd].data, interest |-> interest]
            BY <3>2
        <3> QED
            BY <3>1, <3>3, Items
    <2>3. /\ items \in [Fd -> Item] /\ items[fd] = new
          /\ \A f \in Fd : f # fd => items[f] = sel.item[f]
        BY <2>0, <2>1, <2>2
    <2>4. /\ mid = [item |-> items, max_fd |-> sel.max_fd, master_r |-> sel.master_r,
                    master_w |-> sel.master_w]
          /\ mid \in Table
        BY <2>0, <2>1, <2>3 DEF Table
    <2>5. new.data = sel.item[fd].data /\ new.interest = interest
        BY <2>2
    <2>6. /\ r \in Table /\ r.item = items /\ r.max_fd = sel.max_fd
          /\ r.master_r = IF OP_READ \in interest THEN sel.master_r \cup {fd} ELSE sel.master_r \ {fd}
          /\ r.master_w = IF OP_WRITE \in interest THEN sel.master_w \cup {fd} ELSE sel.master_w \ {fd}
        <3> HIDE DEF mid, new, items
        <3>1. /\ mid.item = items /\ mid.max_fd = sel.max_fd
              /\ mid.master_r = sel.master_r /\ mid.master_w = sel.master_w
              /\ mid.item[fd].interest = interest
            BY <2>3, <2>4, <2>5
        <3> QED
            BY <2>0, <2>4, <3>1, UpdateFdsetResult
    <2>7. Agrees(r)
        <3> HIDE DEF r, new, items
        <3>1. /\ r.master_r = {f \in Fd : OP_READ \in r.item[f].interest}
              /\ r.master_w = {f \in Fd : OP_WRITE \in r.item[f].interest}
            BY <2>0, <2>3, <2>5, <2>6 DEF Agrees
        <3>2. \A f \in Fd : ITEM_USED(r, f) <=> ITEM_USED(sel, f)
            BY <2>3, <2>5, <2>6 DEF ITEM_USED
        <3> QED
            BY <2>1, <2>6, <3>1, <3>2 DEF Agrees, Bounded
    <2> HIDE DEF r, new, items
    <2> QED
        BY <2>0, <2>3, <2>5, <2>6, <2>7
<1> QED
    BY <1>1, <1>2

-----------------------------------------------------------------------------
(* The inductive invariant.  Low is what was open before any connection:   *)
(* the walk passes it first, and nothing of it is closed while the server  *)
(* runs, so accept() never gets a descriptor that has events left.         *)
Low == {fd \in Fd : \E p \in Passive : fd <= p}
Closed == [client : Fd \cup {None}, origin : Fd \cup {None}]

Typed ==
    /\ s \in Table
    /\ slave \in [read : SUBSET Fd, write : SUBSET Fd]
    /\ pc \in {"pselect", "walk", "notify", "closed"}
    /\ walk \in [n : Nat, i : Nat, half : {"read", "write"},
                 data : Conn \cup {Listener, None}]
    /\ walk.n < FdSetSize /\ walk.i <= walk.n + 1
    /\ open \in SUBSET Fd
    /\ conn \in [Conn -> Closed]
    /\ owed \in SUBSET (Fd \X {"read", "write"})

Open == \A fd \in Fd : ITEM_USED(s, fd) => fd \in open

LowItems(items) ==
    \A fd \in Fd : IF fd \in Low
                   THEN items[fd] \in {FD_UNUSED, [data |-> Listener, interest |-> {OP_READ}]}
                   ELSE items[fd].data # Listener

Apart ==
    pc # "closed" =>
        /\ Low \subseteq open
        /\ LowItems(s.item)
        /\ \A c \in Conn : conn[c].client \notin Low /\ conn[c].origin \notin Low

Owned ==
    /\ \A c \in Conn : /\ conn[c].client # None => s.item[conn[c].client].data = c
                       /\ conn[c].origin # None => s.item[conn[c].origin].data = c
    /\ \A fd \in Fd, c \in Conn :
          s.item[fd].data = c => conn[c].client = fd \/ conn[c].origin = fd

(* An event the walk has not handed out yet *)
Ahead(fd, half) ==
    \/ walk.i < fd
    \/ walk.i = fd /\ (half = "write" \/ walk.half = "read")

KeyHolds ==
    walk.half = "write" =>
        /\ walk.i <= walk.n /\ walk.data \in Conn \cup {Listener}
        /\ s.item[walk.i].data \in {walk.data, None}
        /\ walk.data = Listener => walk.i \in Low

Accountable(half) ==
    \A fd \in slave[half] : Ahead(fd, half) =>
        \/ <<fd, half>> \in owed
        \/ ~ ITEM_USED(s, fd)
        \/ \E c \in Conn : conn[c].origin = fd

Walking ==
    pc = "walk" =>
        /\ walk.i \in Low => slave.read \cup slave.write \subseteq open
        /\ KeyHolds
        /\ Accountable("read") /\ Accountable("write")

IInv == Typed /\ Agrees(s) /\ Open /\ Apart /\ Owned /\ Walking

-----------------------------------------------------------------------------
(* What a handler can do, told by the table it leaves.                     *)

Same(fd) == s'.item[fd] = s.item[fd]

(* Nothing changes hands; interests of the connection's own may *)
Keeps(c) ==
    /\ \A fd \in Fd : s'.item[fd].data = s.item[fd].data /\ (fd \notin OwnFds(c) => Same(fd))
    /\ UNCHANGED <<open, conn>>

(* A descriptor that was free becomes the connection's origin *)
Gets(c, fd) ==
    /\ fd \in Fd \ open /\ s'.item[fd].data = c
    /\ \A f \in Fd \ {fd} : s'.item[f].data = s.item[f].data /\ (f \notin OwnFds(c) => Same(f))
    /\ open' = open \cup {fd}
    /\ conn' = [conn EXCEPT ![c].origin = fd]

(* Its own are free again *)
Drops(c) ==
    /\ \A fd \in Fd : IF fd \in OwnFds(c) THEN s'.item[fd] = FD_UNUSED ELSE Same(fd)
    /\ open' = open \ OwnFds(c)
    /\ conn' = [conn EXCEPT ![c] = Gone]

(* A descriptor that was free becomes a new connection's client *)
Admits(c, fd) ==
    /\ conn[c] = Gone /\ fd \in Fd \ open
    /\ s'.item = [s.item EXCEPT ![fd] = [data |-> c, interest |-> {OP_READ}]]
    /\ open' = open \cup {fd}
    /\ conn' = [conn EXCEPT ![c].client = fd]

ServedBy(c) == Keeps(c) \/ (conn[c].origin = None /\ \E fd \in Fd : Gets(c, fd)) \/ Drops(c)

LEMMA InterestsAreOps == \A interest \in Interests : interest \in SUBSET Op
BY InterestsAssumption DEF Op, OP_READ, OP_WRITE

LEMMA ChangesInterestsServes ==
    ASSUME IInv, NEW c \in Conn, ChangesInterests(c)
    PROVE  s' \in Table /\ Agrees(s)' /\ Keeps(c)
<1>1. PICK client \in Interests :
         LET one == SetInterest(s, conn[c].client, client)
         IN  IF conn[c].origin = None THEN s' = one
             ELSE \E origin \in Interests : s' = SetInterest(one, conn[c].origin, origin)
    BY DEF ChangesInterests
<1> DEFINE one == SetInterest(s, conn[c].client, client)
<1>2. /\ s \in Table /\ Agrees(s) /\ UNCHANGED <<open, conn>>
      /\ conn[c].client \in Fd \cup {None} /\ conn[c].origin \in Fd \cup {None}
      /\ client \in SUBSET Op
    BY InterestsAreOps DEF IInv, Typed, Closed, ChangesInterests
<1>3. /\ one \in Table /\ Agrees(one)
      /\ \A f \in Fd : /\ one.item[f].data = s.item[f].data
                       /\ f # conn[c].client => one.item[f] = s.item[f]
    BY <1>2, SetInterestResult
<1>4. \A f \in Fd : f \notin OwnFds(c) => f # conn[c].client /\ f # conn[c].origin
    BY DataAssumption DEF OwnFds
<1>5. CASE conn[c].origin = None
    <2>1. s' = one
        BY <1>1, <1>5
    <2> HIDE DEF one
    <2>2. Agrees(s)'
        BY <1>3, <2>1 DEF Agrees, Bounded, ITEM_USED
    <2> QED
        BY <1>2, <1>3, <1>4, <2>1, <2>2 DEF Keeps, Same
<1>6. CASE conn[c].origin # None
    <2>1. PICK origin \in Interests : s' = SetInterest(one, conn[c].origin, origin)
        BY <1>1, <1>6
    <2> HIDE DEF one
    <2>2. /\ s' \in Table /\ Agrees(SetInterest(one, conn[c].origin, origin))
          /\ \A f \in Fd : /\ s'.item[f].data = one.item[f].data
                           /\ f # conn[c].origin => s'.item[f] = one.item[f]
        BY <1>2, <1>3, <2>1, InterestsAreOps, SetInterestResult
    <2>3. Agrees(s)'
        BY <2>1, <2>2 DEF Agrees, Bounded, ITEM_USED
    <2> QED
        BY <1>2, <1>3, <1>4, <2>2, <2>3 DEF Keeps, Same
<1> QED
    BY <1>5, <1>6

LEMMA OpensOriginServes ==
    ASSUME IInv, NEW c \in Conn, OpensOrigin(c)
    PROVE  s' \in Table /\ Agrees(s)' /\ (Keeps(c) \/ \E fd \in Fd : Gets(c, fd))
<1> DEFINE reading == {OP_READ}
           writing == {OP_WRITE}
           fd == Lowest
           registered == Register(s, fd, c, reading)
           back == Unregister(registered, fd)
           kept == SetInterest(registered, conn[c].client, writing)
           undone == SetInterest(back, conn[c].client, writing)
<1>1. /\ s \in Table /\ Agrees(s) /\ s.item \in [Fd -> Item]
      /\ conn[c].client \in Fd \cup {None}
      /\ open \in SUBSET Fd
    BY DEF IInv, Typed, Closed, Table, Op
<1>0. reading \in SUBSET Op /\ writing \in SUBSET Op
    BY DEF Op
<1>2. fd \in Fd /\ fd \notin open /\ fd # None
    BY <1>1, LowestIsFree, DataAssumption DEF OpensOrigin
<1>3. ~ ITEM_USED(s, fd) /\ s.item[fd] = FD_UNUSED
    BY <1>1, <1>2, Items DEF IInv, Open, ITEM_USED
<1> HIDE DEF fd, reading, writing
<1>4. /\ registered \in Table /\ Agrees(registered)
      /\ registered.item = [s.item EXCEPT ![fd] = [data |-> c, interest |-> reading]]
    BY <1>0, <1>1, <1>2, <1>3, RegisterResult
<1>5. /\ registered.item[fd].data = c
      /\ \A f \in Fd : f # fd => registered.item[f] = s.item[f]
    BY <1>1, <1>2, <1>4
<1> HIDE DEF registered
<1>6. /\ back \in Table /\ Agrees(back) /\ back.item = [registered.item EXCEPT ![fd] = FD_UNUSED]
    BY <1>2, <1>4, UnregisterResult
<1>7. \A f \in Fd : back.item[f] = s.item[f]
    BY <1>2, <1>3, <1>4, <1>5, <1>6 DEF Table
<1> HIDE DEF back
<1>8. \A f \in Fd : f \notin OwnFds(c) => f # conn[c].client
    BY DataAssumption DEF OwnFds
<1>9. CASE s' = kept /\ open' = open \cup {fd} /\ conn' = [conn EXCEPT ![c].origin = fd]
    <2>1. /\ kept \in Table /\ Agrees(kept)
          /\ \A f \in Fd : /\ kept.item[f].data = registered.item[f].data
                           /\ f # conn[c].client => kept.item[f] = registered.item[f]
        BY <1>0, <1>1, <1>4, SetInterestResult
    <2> HIDE DEF kept
    <2>2. Agrees(s)'
        BY <1>9, <2>1 DEF Agrees, Bounded, ITEM_USED
    <2>3. Gets(c, fd)
        BY <1>2, <1>5, <1>8, <1>9, <2>1 DEF Gets, Same
    <2> QED
        BY <1>2, <1>9, <2>1, <2>2, <2>3
<1>10. CASE s' = undone /\ UNCHANGED <<open, conn>>
    <2>1. /\ undone \in Table /\ Agrees(undone)
          /\ \A f \in Fd : /\ undone.item[f].data = back.item[f].data
                           /\ f # conn[c].client => undone.item[f] = back.item[f]
        BY <1>0, <1>1, <1>6, SetInterestResult
    <2> HIDE DEF undone
    <2>2. Agrees(s)'
        BY <1>10, <2>1 DEF Agrees, Bounded, ITEM_USED
    <2>3. Keeps(c)
        BY <1>7, <1>8, <1>10, <2>1 DEF Keeps, Same
    <2> QED
        BY <1>10, <2>1, <2>2, <2>3
<1> QED
    BY <1>9, <1>10 DEF OpensOrigin, fd, reading, writing, registered, back

LEMMA DestroysServes ==
    ASSUME IInv, NEW c \in Conn, Destroys(c)
    PROVE  s' \in Table /\ Agrees(s)' /\ Drops(c)
<1> DEFINE one == Unregister(s, conn[c].client)
           two == Unregister(one, conn[c].origin)
<1>1. /\ s \in Table /\ Agrees(s) /\ s.item \in [Fd -> Item]
      /\ conn[c].client \in Fd \cup {None} /\ conn[c].origin \in Fd \cup {None}
    BY DEF IInv, Typed, Closed, Table
<1>2. /\ one \in Table /\ Agrees(one)
      /\ one.item = IF conn[c].client = None THEN s.item
                    ELSE [s.item EXCEPT ![conn[c].client] = FD_UNUSED]
    BY <1>1, UnregisterResult
<1>3. s' = IF conn[c].origin = None THEN one ELSE two
    BY DEF Destroys, UnregisterClient
<1> HIDE DEF one
<1>4. /\ two \in Table /\ Agrees(two)
      /\ two.item = IF conn[c].origin = None THEN one.item
                    ELSE [one.item EXCEPT ![conn[c].origin] = FD_UNUSED]
    BY <1>1, <1>2, UnregisterResult
<1>5. one.item \in [Fd -> Item]
    BY <1>2 DEF Table
<1> HIDE DEF two
<1>6. s' \in Table /\ s'.item = two.item /\ (s' = one \/ s' = two)
    BY <1>2, <1>3, <1>4
<1>7. Agrees(s)'
    BY <1>2, <1>4, <1>6 DEF Agrees, Bounded, ITEM_USED
<1>8. ASSUME NEW f \in Fd
      PROVE  IF f \in OwnFds(c) THEN s'.item[f] = FD_UNUSED ELSE Same(f)
    <2>1. f \in OwnFds(c) <=> f = conn[c].client \/ f = conn[c].origin
        BY DataAssumption DEF OwnFds
    <2>2. one.item[f] = IF f = conn[c].client THEN FD_UNUSED ELSE s.item[f]
        BY <1>1, <1>2, DataAssumption
    <2>3. two.item[f] = IF f = conn[c].origin THEN FD_UNUSED ELSE one.item[f]
        BY <1>1, <1>4, <1>5, DataAssumption
    <2> QED
        BY <1>6, <2>1, <2>2, <2>3 DEF Same
<1> QED
    BY <1>6, <1>7, <1>8 DEF Destroys, Drops

LEMMA AcceptsServes ==
    ASSUME IInv, Accepts
    PROVE  /\ s' \in Table /\ Agrees(s)'
           /\ UNCHANGED <<s, open, conn>> \/ \E c \in Conn, fd \in Fd : Admits(c, fd)
<1>1. /\ s \in Table /\ Agrees(s) /\ s.item \in [Fd -> Item] /\ open \in SUBSET Fd
      /\ {OP_READ} \in SUBSET Op
    BY DEF IInv, Typed, Table, Op
<1>2. CASE UNCHANGED <<s, open, conn>>
    BY <1>1, <1>2 DEF Agrees, Bounded, ITEM_USED
<1>3. ASSUME NEW c \in Conn, conn[c] = Gone, Fd \ open # {},
             s' = Register(s, Lowest, c, {OP_READ}), open' = open \cup {Lowest},
             conn' = [conn EXCEPT ![c].client = Lowest]
      PROVE  s' \in Table /\ Agrees(s)' /\ \E fd \in Fd : Admits(c, fd)
    <2>1. Lowest \in Fd /\ Lowest \notin open
        BY <1>1, <1>3, LowestIsFree
    <2>2. ~ ITEM_USED(s, Lowest)
        BY <2>1 DEF IInv, Open
    <2> DEFINE r == Register(s, Lowest, c, {OP_READ})
    <2>3. /\ r \in Table /\ Agrees(r)
          /\ r.item = [s.item EXCEPT ![Lowest] = [data |-> c, interest |-> {OP_READ}]]
        BY <1>1, <2>1, <2>2, RegisterResult
    <2>4. s' = r
        BY <1>3
    <2> HIDE DEF r
    <2>5. Agrees(s)'
        BY <2>3, <2>4 DEF Agrees, Bounded, ITEM_USED
    <2> QED
        BY <1>3, <2>1, <2>3, <2>4, <2>5 DEF Admits
<1> QED
    BY <1>2, <1>3 DEF Accepts

LEMMA ConnectionServes ==
    ASSUME IInv, NEW c \in Conn, ChangesInterests(c) \/ OpensOrigin(c) \/ Destroys(c)
    PROVE  s' \in Table /\ Agrees(s)' /\ ServedBy(c)
BY ChangesInterestsServes, OpensOriginServes, DestroysServes DEF ServedBy, OpensOrigin

-----------------------------------------------------------------------------
(* What every handler preserves.                                           *)

(* An event of a descriptor stays accounted for: its owner is the same, or *)
(* nobody, or it is an origin now                                          *)
Touched(fd) ==
    \/ /\ s'.item[fd].data = s.item[fd].data
       /\ (\E c \in Conn : conn[c].origin = fd) => \E c \in Conn : conn'[c].origin = fd
    \/ s'.item[fd].data = None
    \/ \E c \in Conn : conn'[c].origin = fd

ApartStill ==
    /\ Low \subseteq open'
    /\ LowItems(s'.item)
    /\ \A c \in Conn : conn'[c].client \notin Low /\ conn'[c].origin \notin Low

Sound ==
    /\ open' \in SUBSET Fd /\ conn' \in [Conn -> Closed]
    /\ Open' /\ ApartStill /\ Owned'
    /\ \A fd \in Fd : ITEM_USED(s, fd) => s'.item[fd].data \in {s.item[fd].data, None}

LEMMA Facts ==
    ASSUME IInv
    PROVE  /\ s \in Table /\ s.item \in [Fd -> Item] /\ open \in SUBSET Fd
           /\ conn \in [Conn -> Closed]
           /\ \A c \in Conn : /\ conn[c].client \in Fd \cup {None}
                              /\ conn[c].origin \in Fd \cup {None}
                              /\ OwnFds(c) \subseteq Fd
                              /\ \A fd \in Fd : fd \in OwnFds(c) <=> fd = conn[c].client \/ fd = conn[c].origin
                              /\ \A fd \in OwnFds(c) : s.item[fd].data = c
           /\ \A fd \in Fd, c \in Conn : s.item[fd].data = c => fd \in OwnFds(c)
           /\ \A fd \in Fd : s.item[fd].data # None => fd \in open
<1>1. s \in Table /\ s.item \in [Fd -> Item] /\ open \in SUBSET Fd /\ conn \in [Conn -> Closed]
    BY DEF IInv, Typed, Table
<1>2. ASSUME NEW c \in Conn
      PROVE  conn[c].client \in Fd \cup {None} /\ conn[c].origin \in Fd \cup {None}
    BY <1>1 DEF Closed
<1>3. ASSUME NEW c \in Conn
      PROVE  /\ OwnFds(c) \subseteq Fd
             /\ \A fd \in Fd : fd \in OwnFds(c) <=> fd = conn[c].client \/ fd = conn[c].origin
    BY <1>2, DataAssumption DEF OwnFds
<1>4. ASSUME NEW c \in Conn, NEW fd \in OwnFds(c) PROVE s.item[fd].data = c
    BY DEF IInv, Owned, OwnFds
<1>5. \A fd \in Fd, c \in Conn : s.item[fd].data = c => fd \in OwnFds(c)
    BY <1>3 DEF IInv, Owned
<1>6. \A fd \in Fd : s.item[fd].data # None => fd \in open
    BY DEF IInv, Open, ITEM_USED
<1> QED
    BY <1>1, <1>2, <1>3, <1>4, <1>5, <1>6

LEMMA KeepsSound ==
    ASSUME IInv, pc # "closed", NEW c \in Conn, Keeps(c)
    PROVE  Sound /\ \A fd \in Fd : Touched(fd)
<1>1. \A fd \in Fd : s'.item[fd].data = s.item[fd].data
    BY DEF Keeps
<1>2. open' = open /\ conn' = conn
    BY DEF Keeps
<1>3. Open'
    BY <1>1, <1>2 DEF IInv, Open, ITEM_USED
<1>4. LowItems(s'.item)
    <2>1. \A fd \in Low : fd \in Fd /\ fd \notin OwnFds(c)
        BY DEF IInv, Apart, Low, OwnFds
    <2>2. \A fd \in Low : s'.item[fd] = s.item[fd]
        BY <2>1 DEF Keeps, Same
    <2> QED
        BY <1>1, <2>2 DEF IInv, Apart, LowItems
<1>5. ApartStill
    BY <1>2, <1>4 DEF IInv, Apart, ApartStill
<1>6. Owned'
    <2>1. \A d \in Conn : /\ conn[d].client \in Fd \cup {None}
                          /\ conn[d].origin \in Fd \cup {None}
        BY Facts
    <2> QED
        BY <1>1, <1>2, <2>1 DEF IInv, Owned
<1> QED
    BY <1>1, <1>2, <1>3, <1>5, <1>6, Facts DEF Sound, Touched

LEMMA GetsSound ==
    ASSUME IInv, pc # "closed", NEW c \in Conn, conn[c].origin = None, NEW fd \in Fd, Gets(c, fd)
    PROVE  Sound /\ \A f \in Fd : Touched(f)
<1>1. /\ fd \notin open /\ s'.item[fd].data = c /\ open' = open \cup {fd}
      /\ \A f \in Fd : f # fd => /\ s'.item[f].data = s.item[f].data
                                 /\ f \notin OwnFds(c) => s'.item[f] = s.item[f]
    BY DEF Gets, Same
<1>2. /\ conn' \in [Conn -> Closed]
      /\ conn'[c].origin = fd /\ conn'[c].client = conn[c].client
      /\ \A d \in Conn : d # c => conn'[d] = conn[d]
    BY Facts DEF Gets, Closed
<1>3. s.item[fd].data = None
    BY <1>1, Facts
<1>4. Open'
    BY <1>1 DEF IInv, Open, ITEM_USED
<1>5. fd \notin Low
    BY <1>1 DEF IInv, Apart
<1>6. LowItems(s'.item)
    <2>1. \A f \in Low : f \in Fd /\ f # fd /\ f \notin OwnFds(c)
        BY <1>5 DEF IInv, Apart, Low, OwnFds
    <2>2. \A f \in Low : s'.item[f] = s.item[f]
        BY <1>1, <2>1
    <2>3. \A f \in Fd : f \notin Low => s'.item[f].data # Listener
        BY <1>1, DataAssumption DEF IInv, Apart, LowItems
    <2> QED
        BY <2>2, <2>3 DEF IInv, Apart, LowItems
<1>7. ApartStill
    <2>1. ASSUME NEW d \in Conn PROVE conn'[d].client \notin Low /\ conn'[d].origin \notin Low
        <3>1. CASE d = c
            BY <1>2, <1>5, <3>1 DEF IInv, Apart
        <3>2. CASE d # c
            BY <1>2, <3>2 DEF IInv, Apart
        <3> QED
            BY <3>1, <3>2
    <2> QED
        BY <1>1, <1>6, <2>1 DEF IInv, Apart, ApartStill
<1>8. Owned'
    <2>1. ASSUME NEW d \in Conn
          PROVE  /\ conn'[d].client # None => s'.item[conn'[d].client].data = d
                 /\ conn'[d].origin # None => s'.item[conn'[d].origin].data = d
        <3>1. ASSUME NEW f \in OwnFds(d) PROVE s'.item[f].data = d
            <4>1. f \in Fd /\ s.item[f].data = d /\ d # None
                BY Facts, DataAssumption
            <4>2. f # fd
                BY <1>3, <4>1
            <4> QED
                BY <1>1, <4>1, <4>2
        <3>2. conn[d].client # None => conn[d].client \in OwnFds(d)
            BY DEF OwnFds
        <3>3. conn[d].origin # None => conn[d].origin \in OwnFds(d)
            BY DEF OwnFds
        <3>4. CASE d = c
            BY <1>1, <1>2, <3>1, <3>2, <3>4
        <3>5. CASE d # c
            BY <1>2, <3>1, <3>2, <3>3, <3>5
        <3> QED
            BY <3>4, <3>5
    <2>2. ASSUME NEW f \in Fd, NEW d \in Conn, s'.item[f].data = d
          PROVE  conn'[d].client = f \/ conn'[d].origin = f
        <3>1. CASE f = fd
            BY <1>1, <1>2, <2>2, <3>1
        <3>2. CASE f # fd
            <4>1. s.item[f].data = d
                BY <1>1, <2>2, <3>2
            <4>2. conn[d].client = f \/ conn[d].origin = f
                BY <4>1 DEF IInv, Owned
            <4>3. f # None
                BY DataAssumption
            <4> QED
                BY <1>2, <4>2, <4>3
        <3> QED
            BY <3>1, <3>2
    <2> QED
        BY <2>1, <2>2 DEF Owned
<1>9. \A f \in Fd : ITEM_USED(s, f) => s'.item[f].data \in {s.item[f].data, None}
    BY <1>1, <1>3 DEF ITEM_USED
<1>10. ASSUME NEW f \in Fd PROVE Touched(f)
    <2>1. CASE f = fd
        BY <1>2, <2>1 DEF Touched
    <2>2. CASE f # fd
        <3>1. ASSUME NEW d \in Conn, conn[d].origin = f PROVE conn'[d].origin = f
            BY <1>2, <3>1, DataAssumption
        <3> QED
            BY <1>1, <2>2, <3>1 DEF Touched
    <2> QED
        BY <2>1, <2>2
<1> QED
    BY <1>1, <1>2, <1>4, <1>7, <1>8, <1>9, <1>10, Facts DEF Sound

LEMMA DropsSound ==
    ASSUME IInv, pc # "closed", NEW c \in Conn, Drops(c)
    PROVE  Sound /\ \A fd \in Fd : Touched(fd)
<1>1. \A fd \in Fd : IF fd \in OwnFds(c) THEN s'.item[fd] = FD_UNUSED
                     ELSE s'.item[fd] = s.item[fd]
    BY DEF Drops, Same
<1>2. open' = open \ OwnFds(c)
    BY DEF Drops
<1>3. /\ conn' \in [Conn -> Closed]
      /\ conn'[c].client = None /\ conn'[c].origin = None
      /\ \A d \in Conn : d # c => conn'[d] = conn[d]
    BY Facts DEF Drops, Closed, Gone
<1>4. Open'
    BY <1>1, <1>2, Items DEF IInv, Open, ITEM_USED
<1>5. \A fd \in Low : fd \in Fd /\ fd \notin OwnFds(c)
    BY DEF IInv, Apart, Low, OwnFds
<1>6. LowItems(s'.item)
    BY <1>1, <1>5, Items, DataAssumption DEF IInv, Apart, LowItems
<1>7. ApartStill
    <2>1. None \notin Low
        BY DataAssumption DEF Low
    <2>2. \A d \in Conn : conn'[d].client \notin Low /\ conn'[d].origin \notin Low
        BY <1>3, <2>1 DEF IInv, Apart
    <2> QED
        BY <1>2, <1>5, <1>6, <2>2 DEF IInv, Apart, ApartStill
<1>8. Owned'
    <2>1. ASSUME NEW d \in Conn
          PROVE  /\ conn'[d].client # None => s'.item[conn'[d].client].data = d
                 /\ conn'[d].origin # None => s'.item[conn'[d].origin].data = d
        <3>1. ASSUME NEW f \in OwnFds(d), d # c PROVE s'.item[f].data = d
            <4>1. f \in Fd /\ s.item[f].data = d
                BY Facts
            <4>2. f \notin OwnFds(c)
                BY <3>1, <4>1, Facts
            <4> QED
                BY <1>1, <4>1, <4>2
        <3>2. conn[d].client # None => conn[d].client \in OwnFds(d)
            BY DEF OwnFds
        <3>3. conn[d].origin # None => conn[d].origin \in OwnFds(d)
            BY DEF OwnFds
        <3>4. CASE d = c
            BY <1>3, <3>4
        <3>5. CASE d # c
            BY <1>3, <3>1, <3>2, <3>3, <3>5
        <3> QED
            BY <3>4, <3>5
    <2>2. ASSUME NEW f \in Fd, NEW d \in Conn, s'.item[f].data = d
          PROVE  conn'[d].client = f \/ conn'[d].origin = f
        <3>1. f \notin OwnFds(c)
            BY <1>1, <2>2, Items, DataAssumption
        <3>2. s.item[f].data = d
            BY <1>1, <2>2, <3>1
        <3>3. d # c
            BY <3>1, <3>2, Facts
        <3> QED
            BY <1>3, <3>2, <3>3 DEF IInv, Owned
    <2> QED
        BY <2>1, <2>2 DEF Owned
<1>9. ASSUME NEW f \in Fd PROVE Touched(f)
    <2>1. CASE f \in OwnFds(c)
        BY <1>1, <2>1, Items DEF Touched
    <2>2. CASE f \notin OwnFds(c)
        <3>1. ASSUME NEW d \in Conn, conn[d].origin = f PROVE conn'[d].origin = f
            <4>1. d # c
                BY <2>2, <3>1, Facts
            <4> QED
                BY <1>3, <3>1, <4>1
        <3> QED
            BY <1>1, <2>2, <3>1 DEF Touched
    <2> QED
        BY <2>1, <2>2
<1>10. \A f \in Fd : ITEM_USED(s, f) => s'.item[f].data \in {s.item[f].data, None}
    BY <1>1, Items
<1> QED
    BY <1>2, <1>3, <1>4, <1>7, <1>8, <1>9, <1>10, Facts DEF Sound

LEMMA ServedSound ==
    ASSUME IInv, pc # "closed", NEW c \in Conn, ServedBy(c)
    PROVE  Sound /\ \A fd \in Fd : Touched(fd)
BY KeepsSound, GetsSound, DropsSound DEF ServedBy

LEMMA AdmitsSound ==
    ASSUME IInv, pc # "closed", NEW c \in Conn, NEW fd \in Fd, Admits(c, fd)
    PROVE  Sound /\ open \subseteq open' /\ \A f \in open : Touched(f)
<1>1. /\ fd \notin open /\ open' = open \cup {fd}
      /\ s'.item[fd] = [data |-> c, interest |-> {OP_READ}]
      /\ \A f \in Fd : f # fd => s'.item[f] = s.item[f]
    BY Facts DEF Admits
<1>2. /\ conn' \in [Conn -> Closed]
      /\ conn[c].client = None /\ conn[c].origin = None
      /\ conn'[c].client = fd /\ conn'[c].origin = None
      /\ \A d \in Conn : d # c => conn'[d] = conn[d]
    BY Facts DEF Admits, Closed, Gone
<1>3. s.item[fd].data = None
    BY <1>1, Facts
<1>4. Open'
    BY <1>1 DEF IInv, Open, ITEM_USED
<1>5. fd \notin Low /\ None \notin Low
    BY <1>1, DataAssumption DEF IInv, Apart, Low
<1>6. LowItems(s'.item)
    <2>1. \A f \in Low : f \in Fd /\ f # fd
        BY <1>5 DEF Low
    <2> QED
        BY <1>1, <2>1, DataAssumption DEF IInv, Apart, LowItems
<1>7. ApartStill
    <2>1. ASSUME NEW d \in Conn PROVE conn'[d].client \notin Low /\ conn'[d].origin \notin Low
        BY <1>2, <1>5 DEF IInv, Apart
    <2> QED
        BY <1>1, <1>6, <2>1 DEF IInv, Apart, ApartStill
<1>8. Owned'
    <2>1. ASSUME NEW d \in Conn
          PROVE  /\ conn'[d].client # None => s'.item[conn'[d].client].data = d
                 /\ conn'[d].origin # None => s'.item[conn'[d].origin].data = d
        <3>1. ASSUME NEW f \in OwnFds(d) PROVE s'.item[f].data = d
            <4>1. f \in Fd /\ s.item[f].data = d /\ d # None
                BY Facts, DataAssumption
            <4>2. f # fd
                BY <1>3, <4>1
            <4> QED
                BY <1>1, <4>1, <4>2
        <3>2. conn[d].client # None => conn[d].client \in OwnFds(d)
            BY DEF OwnFds
        <3>3. conn[d].origin # None => conn[d].origin \in OwnFds(d)
            BY DEF OwnFds
        <3>4. CASE d = c
            BY <1>1, <1>2, <3>4
        <3>5. CASE d # c
            BY <1>2, <3>1, <3>2, <3>3, <3>5
        <3> QED
            BY <3>4, <3>5
    <2>2. ASSUME NEW f \in Fd, NEW d \in Conn, s'.item[f].data = d
          PROVE  conn'[d].client = f \/ conn'[d].origin = f
        <3>1. CASE f = fd
            BY <1>1, <1>2, <2>2, <3>1
        <3>2. CASE f # fd
            <4>1. s.item[f].data = d
                BY <1>1, <2>2, <3>2
            <4>2. conn[d].client = f \/ conn[d].origin = f
                BY <4>1 DEF IInv, Owned
            <4>3. f # None
                BY DataAssumption
            <4> QED
                BY <1>2, <4>2, <4>3
        <3> QED
            BY <3>1, <3>2
    <2> QED
        BY <2>1, <2>2 DEF Owned
<1>9. \A f \in Fd : ITEM_USED(s, f) => s'.item[f].data \in {s.item[f].data, None}
    BY <1>1, <1>3 DEF ITEM_USED
<1>10. ASSUME NEW f \in open PROVE Touched(f)
    <2>1. f \in Fd /\ f # fd
        BY <1>1, Facts
    <2>2. ASSUME NEW d \in Conn, conn[d].origin = f PROVE conn'[d].origin = f
        BY <1>2, <2>1, <2>2, DataAssumption
    <2> QED
        BY <1>1, <2>1, <2>2 DEF Touched
<1> QED
    BY <1>1, <1>2, <1>4, <1>7, <1>8, <1>9, <1>10, Facts DEF Sound

LEMMA UnchangedSound ==
    ASSUME IInv, pc # "closed", UNCHANGED <<s, open, conn>>
    PROVE  /\ s' \in Table /\ Agrees(s)' /\ Sound
           /\ open \subseteq open' /\ \A fd \in Fd : Touched(fd)
<1>1. Agrees(s)' /\ Open' /\ Owned'
    BY DEF IInv, Agrees, Bounded, Open, Owned, ITEM_USED
<1>2. ApartStill
    BY DEF IInv, Apart, ApartStill
<1> QED
    BY <1>1, <1>2, Facts DEF Sound, Touched

-----------------------------------------------------------------------------
(* The invariant holds at the start and after every step.                  *)

LEMMA InitIInv ==
    ASSUME Init
    PROVE  IInv
<1>1. /\ s = AtStart /\ pc = "pselect" /\ walk = NotWalking /\ owed = {}
      /\ slave = [read |-> {}, write |-> {}]
      /\ open = {fd \in Fd : \E p \in Passive : fd <= p}
      /\ conn = [c \in Conn |-> Gone]
    BY DEF Init
<1>2. FdSetSize \in Nat \ {0} /\ Passive \subseteq Fd /\ Fd = 0 .. FdSetSize - 1
    BY SizeAssumption, PassiveAssumption DEF Fd
<1>3. s.max_fd \in Passive \cup {0} /\ \A fd \in Passive : fd <= s.max_fd
    <2> DEFINE T == Passive \cup {0}
    <2>1. T \in SUBSET (0 .. FdSetSize - 1) /\ T # {} /\ FdSetSize - 1 \in Nat
        BY <1>2
    <2> HIDE DEF T
    <2>2. \E m \in T : \A x \in T : x <= m
        BY <2>1, HasGreatest
    <2> USE DEF T
    <2>3. \E m \in Passive \cup {0} : \A fd \in Passive : fd <= m
        BY <2>2
    <2>4. s.max_fd = CHOOSE m \in Passive \cup {0} : \A fd \in Passive : fd <= m
        BY <1>1 DEF AtStart
    <2> QED
        BY <2>3, <2>4
<1>4. /\ s.item = [fd \in Fd |-> IF fd \in Passive
                                 THEN [data |-> Listener, interest |-> {OP_READ}]
                                 ELSE FD_UNUSED]
      /\ s.master_r = Passive /\ s.master_w = {}
      /\ s = [item |-> s.item, max_fd |-> s.max_fd, master_r |-> Passive, master_w |-> {}]
    BY <1>1 DEF AtStart
<1> DEFINE listening == [data |-> Listener, interest |-> {OP_READ}]
<1>5. /\ listening \in Item /\ listening.data = Listener /\ listening.interest = {OP_READ}
      /\ OP_READ # OP_WRITE
    BY Items DEF Op, OP_READ, OP_WRITE
<1>6. \A fd \in Fd : s.item[fd] = IF fd \in Passive THEN listening ELSE FD_UNUSED
    BY <1>4
<1> HIDE DEF listening
<1>7. s \in Table
    <2>1. s.item \in [Fd -> Item]
        BY <1>4, <1>5, Items DEF listening
    <2>2. s.max_fd \in Fd
        <3>1. 0 \in Fd
            BY <1>2
        <3> QED
            BY <1>2, <1>3, <3>1
    <2> QED
        BY <1>2, <1>4, <2>1, <2>2 DEF Table
<1>8. \A fd \in Fd : ITEM_USED(s, fd) <=> fd \in Passive
    BY <1>5, <1>6, Items, DataAssumption DEF ITEM_USED
<1>9. Agrees(s)
    <2>1. s.master_r = {fd \in Fd : OP_READ \in s.item[fd].interest}
        BY <1>2, <1>4, <1>5, <1>6, Items
    <2>2. s.master_w = {fd \in Fd : OP_WRITE \in s.item[fd].interest}
        BY <1>2, <1>4, <1>5, <1>6, Items
    <2>3. Bounded(s)
        BY <1>3, <1>8 DEF Bounded
    <2>4. s.max_fd = 0 \/ ITEM_USED(s, s.max_fd)
        BY <1>2, <1>3, <1>8
    <2> QED
        BY <2>1, <2>2, <2>3, <2>4 DEF Agrees
<1>10. Low = open /\ Passive \subseteq Low
    BY <1>1, <1>2 DEF Low
<1>11. Open
    BY <1>8, <1>10 DEF Open
<1>12. \A c \in Conn : conn[c].client = None /\ conn[c].origin = None
    BY <1>1 DEF Gone
<1>13. Apart
    <2>1. LowItems(s.item)
        BY <1>5, <1>6, <1>10, Items, DataAssumption DEF LowItems, listening
    <2> QED
        BY <1>10, <1>12, <2>1, DataAssumption DEF Apart, Low
<1>14. Owned
    <2>1. \A fd \in Fd, c \in Conn : s.item[fd].data # c
        BY <1>5, <1>6, Items, DataAssumption
    <2> QED
        BY <1>12, <2>1 DEF Owned
<1>15. Typed
    <2>1. walk.n < FdSetSize /\ walk.i <= walk.n + 1
        BY <1>1, <1>2 DEF NotWalking
    <2> QED
        BY <1>1, <1>7, <2>1 DEF Typed, NotWalking, Closed, Gone
<1>16. Walking
    BY <1>1 DEF Walking
<1> QED
    BY <1>9, <1>11, <1>13, <1>14, <1>15, <1>16 DEF IInv

(* Whoever the walk calls finds what belongs to a listener below what      *)
(* belongs to a connection.                                                *)
LEMMA ReadCalls ==
    ASSUME IInv, pc = "walk", walk.i <= walk.n, Due("read", OP_READ)
    PROVE  /\ s.item[walk.i].data \in Conn \cup {Listener}
           /\ s.item[walk.i].data = Listener <=> walk.i \in Low
           /\ walk.i \in Fd
<1>1. walk.i \in Fd
    BY SizeAssumption DEF IInv, Typed, Fd
<1>2. s.item[walk.i] \in Item /\ s.item[walk.i].interest # {}
    BY <1>1, Facts DEF Due
<1>3. s.item[walk.i].data \in Conn \cup {Listener}
    BY <1>2, Items
<1>4. walk.i \in Low => s.item[walk.i].data = Listener
    BY <1>1, <1>2, Items DEF IInv, Apart, LowItems
<1>5. walk.i \notin Low => s.item[walk.i].data # Listener
    BY <1>1 DEF IInv, Apart, LowItems
<1> QED
    BY <1>1, <1>3, <1>4, <1>5

LEMMA WriteCalls ==
    ASSUME IInv, pc = "walk", walk.i <= walk.n, Due("write", OP_WRITE)
    PROVE  walk.data \in Conn /\ walk.i \notin Low /\ walk.i \in Fd
           /\ s.item[walk.i].data = walk.data
<1>1. walk.i \in Fd
    BY SizeAssumption DEF IInv, Typed, Fd
<1>2. s.item[walk.i] \in Item /\ OP_WRITE \in s.item[walk.i].interest
    BY <1>1, Facts DEF Due
<1>3. s.item[walk.i].data \in Conn \cup {Listener}
    BY <1>2, Items
<1>4. walk.i \notin Low
    BY <1>1, <1>2, Items DEF IInv, Apart, LowItems, OP_READ, OP_WRITE
<1>5. KeyHolds /\ walk.half = "write"
    BY DEF IInv, Walking, Due
<1>6. s.item[walk.i].data = walk.data
    BY <1>3, <1>5, DataAssumption DEF KeyHolds
<1> QED
    BY <1>1, <1>3, <1>4, <1>5, <1>6 DEF KeyHolds

(* A half of the loop's body, whichever handler it calls *)
Called ==
    /\ s' \in Table /\ Agrees(s)' /\ Sound
    /\ walk.i \in Low => open \subseteq open'
    /\ \A fd \in Fd : fd \in slave.read \cup slave.write => Touched(fd)

LEMMA ListenerCalled ==
    ASSUME IInv, pc = "walk", walk.i \in Low, Accepts
    PROVE  Called
<1>1. slave.read \cup slave.write \subseteq open
    BY DEF IInv, Walking
<1>2. CASE UNCHANGED <<s, open, conn>>
    BY <1>2, UnchangedSound DEF Called
<1>3. CASE \E c \in Conn, fd \in Fd : Admits(c, fd)
    <2>1. Sound /\ open \subseteq open' /\ \A f \in open : Touched(f)
        BY <1>3, AdmitsSound
    <2> QED
        BY <1>1, <2>1, AcceptsServes DEF Called
<1> QED
    BY <1>2, <1>3, AcceptsServes

LEMMA ConnectionCalled ==
    ASSUME IInv, pc = "walk", walk.i \notin Low, NEW c \in Conn,
           ChangesInterests(c) \/ OpensOrigin(c) \/ Destroys(c)
    PROVE  Called
<1>1. s' \in Table /\ Agrees(s)' /\ ServedBy(c)
    BY ConnectionServes
<1>2. Sound /\ \A fd \in Fd : Touched(fd)
    BY <1>1, ServedSound
<1> QED
    BY <1>1, <1>2 DEF Called

LEMMA ReadHalfCalled ==
    ASSUME IInv, ReadHalf
    PROVE  Called
<1>1. pc = "walk" /\ walk.i <= walk.n
    BY DEF ReadHalf
<1>2. CASE ~ Due("read", OP_READ)
    BY <1>1, <1>2, UnchangedSound DEF ReadHalf, Called
<1>3. CASE Due("read", OP_READ) /\ s.item[walk.i].data = Listener
    BY <1>1, <1>3, ReadCalls, ListenerCalled DEF ReadHalf, Handles
<1>4. CASE Due("read", OP_READ) /\ s.item[walk.i].data # Listener
    BY <1>1, <1>4, ReadCalls, ConnectionCalled DEF ReadHalf, Handles
<1> QED
    BY <1>2, <1>3, <1>4

LEMMA WriteHalfCalled ==
    ASSUME IInv, WriteHalf
    PROVE  Called
<1>1. pc = "walk" /\ walk.i <= walk.n
    BY DEF WriteHalf
<1>2. CASE ~ Due("write", OP_WRITE)
    BY <1>1, <1>2, UnchangedSound DEF WriteHalf, Called
<1>3. CASE Due("write", OP_WRITE)
    <2>1. walk.data \in Conn /\ walk.i \notin Low
        BY <1>1, <1>3, WriteCalls
    <2> QED
        BY <1>1, <1>3, <2>1, ConnectionCalled, DataAssumption DEF WriteHalf, Handles
<1> QED
    BY <1>2, <1>3

(* The events that are still ahead stay accounted for *)
LEMMA AccountKept ==
    ASSUME IInv, pc = "walk", Called, NEW passed, NEW half \in {"read", "write"},
           slave' = slave, owed' = StillOwed(passed),
           \A fd \in Fd : Ahead(fd, half)' => Ahead(fd, half) /\ <<fd, half>> # passed
    PROVE  Accountable(half)'
<1>1. SUFFICES ASSUME NEW fd \in slave[half], Ahead(fd, half)'
               PROVE  \/ <<fd, half>> \in owed'
                      \/ ~ ITEM_USED(s, fd)'
                      \/ \E c \in Conn : conn'[c].origin = fd
    BY DEF Accountable
<1>2. fd \in Fd /\ fd \in slave.read \cup slave.write
    BY <1>1 DEF IInv, Typed
<1>3. Ahead(fd, half) /\ <<fd, half>> # passed
    BY <1>1, <1>2
<1>4. \/ <<fd, half>> \in owed
      \/ ~ ITEM_USED(s, fd)
      \/ \E c \in Conn : conn[c].origin = fd
    BY <1>1, <1>3 DEF IInv, Walking, Accountable
<1>5. Touched(fd)
    BY <1>2 DEF Called
<1>6. ASSUME <<fd, half>> \in owed, s'.item[fd].data = s.item[fd].data
      PROVE  <<fd, half>> \in owed'
    <2>1. <<fd, half>>[1] = fd
        OBVIOUS
    <2> QED
        BY <1>3, <1>6, <2>1 DEF StillOwed
<1> QED
    BY <1>4, <1>5, <1>6 DEF Touched, ITEM_USED

LEMMA HalfTyped ==
    ASSUME IInv, Called, pc = "walk", pc' = pc, slave' = slave, NEW passed,
           owed' = StillOwed(passed),
           walk' \in [n : Nat, i : Nat, half : {"read", "write"},
                      data : Conn \cup {Listener, None}],
           walk'.n = walk.n, walk'.i <= walk.n + 1
    PROVE  Typed'
<1>1. owed' \subseteq owed
    BY DEF StillOwed
<1> QED
    BY <1>1 DEF Called, Sound, IInv, Typed

LEMMA LowIsLow ==
    ASSUME NEW i \in Nat, i + 1 \in Low
    PROVE  i \in Low
BY PassiveAssumption, SizeAssumption DEF Low, Fd

(* What moving on to the next descriptor does to the record of the walk *)
LEMMA Advanced ==
    ASSUME NEW w \in [n : Nat, i : Nat, half : {"read", "write"},
                      data : Conn \cup {Listener, None}],
           NEW next \in Nat
    PROVE  /\ [w EXCEPT !.i = next] \in [n : Nat, i : Nat, half : {"read", "write"},
                                         data : Conn \cup {Listener, None}]
           /\ [w EXCEPT !.i = next].n = w.n
           /\ [w EXCEPT !.i = next].i = next
           /\ [w EXCEPT !.i = next].half = w.half
           /\ [w EXCEPT !.half = "read", !.i = next, !.data = None]
                    \in [n : Nat, i : Nat, half : {"read", "write"},
                         data : Conn \cup {Listener, None}]
           /\ [w EXCEPT !.half = "read", !.i = next, !.data = None].n = w.n
           /\ [w EXCEPT !.half = "read", !.i = next, !.data = None].i = next
           /\ [w EXCEPT !.half = "read", !.i = next, !.data = None].half = "read"
OBVIOUS

LEMMA ReadHalfIInv ==
    ASSUME IInv, ReadHalf
    PROVE  IInv'
<1>1. /\ pc = "walk" /\ walk.half = "read" /\ walk.i <= walk.n
      /\ slave' = slave /\ pc' = pc
      /\ owed' = StillOwed(<<walk.i, "read">>)
      /\ walk' = IF ITEM_USED(s, walk.i)
                 THEN [walk EXCEPT !.half = "write", !.data = s.item[walk.i].data]
                 ELSE [walk EXCEPT !.i = @ + 1]
    BY DEF ReadHalf
<1>2. Called
    BY ReadHalfCalled
<1>3. /\ walk \in [n : Nat, i : Nat, half : {"read", "write"},
                   data : Conn \cup {Listener, None}]
      /\ walk.n < FdSetSize /\ walk.i \in Fd /\ walk.i \in Nat /\ walk.n \in Nat
    BY <1>1, SizeAssumption DEF IInv, Typed, Fd
<1>4. Agrees(s)' /\ Open' /\ ApartStill /\ Owned'
    BY <1>2 DEF Called, Sound
<1>5. Apart'
    BY <1>4 DEF ApartStill, Apart
<1>6. CASE ITEM_USED(s, walk.i)
    <2>1. s.item[walk.i].data \in Conn \cup {Listener} /\ s.item[walk.i].data # None
        BY <1>3, <1>6, Facts, Items DEF ITEM_USED
    <2>2. walk' = [walk EXCEPT !.half = "write", !.data = s.item[walk.i].data]
        BY <1>1, <1>6
    <2>3. /\ walk'.n = walk.n /\ walk'.i = walk.i /\ walk'.half = "write"
          /\ walk'.data = s.item[walk.i].data
          /\ walk' \in [n : Nat, i : Nat, half : {"read", "write"},
                        data : Conn \cup {Listener, None}]
        BY <1>3, <2>1, <2>2
    <2>4. Typed'
        <3>1. walk'.i <= walk.n + 1
            BY <1>1, <1>3, <2>3
        <3> QED
            BY <1>1, <1>2, <2>3, <3>1, HalfTyped
    <2>5. walk.i \in Low => slave'.read \cup slave'.write \subseteq open'
        BY <1>1, <1>2 DEF Called, IInv, Walking
    <2>6. KeyHolds'
        <3>1. s'.item[walk.i].data \in {s.item[walk.i].data, None}
            BY <1>2, <1>3, <1>6 DEF Called, Sound
        <3>2. s.item[walk.i].data = Listener => walk.i \in Low
            BY <1>1, <1>3 DEF IInv, Apart, LowItems
        <3> QED
            BY <1>1, <2>1, <2>3, <3>1, <3>2 DEF KeyHolds
    <2>7. ASSUME NEW half \in {"read", "write"}, NEW fd \in Fd, Ahead(fd, half)'
          PROVE  Ahead(fd, half) /\ <<fd, half>> # <<walk.i, "read">>
        <3>1. walk.i < fd \/ (walk.i = fd /\ half = "write")
            BY <2>3, <2>7 DEF Ahead
        <3>2. walk.i < fd => fd # walk.i
            BY <1>3 DEF Fd
        <3> QED
            BY <3>1, <3>2 DEF Ahead
    <2>8. Accountable("read")' /\ Accountable("write")'
        BY <1>1, <1>2, <2>7, AccountKept
    <2> QED
        BY <1>4, <1>5, <2>3, <2>4, <2>5, <2>6, <2>8 DEF IInv, Walking
<1>7. CASE ~ ITEM_USED(s, walk.i)
    <2>1. walk' = [walk EXCEPT !.i = @ + 1]
        BY <1>1, <1>7
    <2>2. /\ walk'.n = walk.n /\ walk'.i = walk.i + 1 /\ walk'.half = "read"
          /\ walk' \in [n : Nat, i : Nat, half : {"read", "write"},
                        data : Conn \cup {Listener, None}]
        <3>1. PICK next \in Nat : next = walk.i + 1
            BY <1>3
        <3>2. walk' = [walk EXCEPT !.i = next]
            BY <2>1, <3>1
        <3>3. /\ walk'.n = walk.n /\ walk'.i = next /\ walk'.half = walk.half
              /\ walk' \in [n : Nat, i : Nat, half : {"read", "write"},
                            data : Conn \cup {Listener, None}]
            BY <1>3, <3>2, Advanced
        <3> QED
            BY <1>1, <3>1, <3>3
    <2>3. Typed'
        <3>1. walk'.i <= walk.n + 1
            BY <1>1, <1>3, <2>2
        <3> QED
            BY <1>1, <1>2, <2>2, <3>1, HalfTyped
    <2>4. walk'.i \in Low => slave'.read \cup slave'.write \subseteq open'
        <3>1. walk'.i \in Low => walk.i \in Low
            BY <1>3, <2>2, LowIsLow
        <3> QED
            BY <1>1, <1>2, <3>1 DEF Called, IInv, Walking
    <2>5. KeyHolds'
        BY <2>2 DEF KeyHolds
    <2>6. ASSUME NEW half \in {"read", "write"}, NEW fd \in Fd, Ahead(fd, half)'
          PROVE  Ahead(fd, half) /\ <<fd, half>> # <<walk.i, "read">>
        <3>1. walk.i + 1 < fd \/ walk.i + 1 = fd
            BY <2>2, <2>6 DEF Ahead
        <3>2. walk.i < fd /\ fd # walk.i
            BY <1>3, <3>1 DEF Fd
        <3> QED
            BY <3>2 DEF Ahead
    <2>7. Accountable("read")' /\ Accountable("write")'
        BY <1>1, <1>2, <2>6, AccountKept
    <2> QED
        BY <1>4, <1>5, <2>3, <2>4, <2>5, <2>7 DEF IInv, Walking
<1> QED
    BY <1>6, <1>7

LEMMA WriteHalfIInv ==
    ASSUME IInv, WriteHalf
    PROVE  IInv'
<1>1. /\ pc = "walk" /\ walk.half = "write" /\ walk.i <= walk.n
      /\ slave' = slave /\ pc' = pc
      /\ owed' = StillOwed(<<walk.i, "write">>)
      /\ walk' = [walk EXCEPT !.half = "read", !.i = @ + 1, !.data = None]
    BY DEF WriteHalf
<1>2. Called
    BY WriteHalfCalled
<1>3. /\ walk \in [n : Nat, i : Nat, half : {"read", "write"},
                   data : Conn \cup {Listener, None}]
      /\ walk.n < FdSetSize /\ walk.i \in Fd /\ walk.i \in Nat /\ walk.n \in Nat
    BY <1>1, SizeAssumption DEF IInv, Typed, Fd
<1>4. Agrees(s)' /\ Open' /\ ApartStill /\ Owned'
    BY <1>2 DEF Called, Sound
<1>5. Apart'
    BY <1>4 DEF ApartStill, Apart
<1>6. /\ walk'.n = walk.n /\ walk'.i = walk.i + 1 /\ walk'.half = "read"
      /\ walk' \in [n : Nat, i : Nat, half : {"read", "write"},
                    data : Conn \cup {Listener, None}]
    <2>1. walk.i + 1 \in Nat
        BY <1>3
    <2> QED
        BY <1>1, <1>3, <2>1, Advanced
<1>7. Typed'
    <2>1. walk'.i <= walk.n + 1
        BY <1>1, <1>3, <1>6
    <2> QED
        BY <1>1, <1>2, <1>6, <2>1, HalfTyped
<1>8. walk'.i \in Low => slave'.read \cup slave'.write \subseteq open'
    <2>1. walk'.i \in Low => walk.i \in Low
        BY <1>3, <1>6, LowIsLow
    <2> QED
        BY <1>1, <1>2, <2>1 DEF Called, IInv, Walking
<1>9. KeyHolds'
    BY <1>6 DEF KeyHolds
<1>10. ASSUME NEW half \in {"read", "write"}, NEW fd \in Fd, Ahead(fd, half)'
       PROVE  Ahead(fd, half) /\ <<fd, half>> # <<walk.i, "write">>
    <2>1. walk.i + 1 < fd \/ walk.i + 1 = fd
        BY <1>6, <1>10 DEF Ahead
    <2>2. walk.i < fd /\ fd # walk.i
        BY <1>3, <2>1 DEF Fd
    <2> QED
        BY <2>2 DEF Ahead
<1>11. Accountable("read")' /\ Accountable("write")'
    BY <1>1, <1>2, <1>10, AccountKept
<1> QED
    BY <1>4, <1>5, <1>7, <1>8, <1>9, <1>11 DEF IInv, Walking

LEMMA SelectIInv ==
    ASSUME IInv, Select
    PROVE  IInv'
<1>1. PICK r \in SUBSET Asked(s.master_r), w \in SUBSET Asked(s.master_w) :
         /\ slave' = [read |-> r, write |-> w]
         /\ owed' = (r \X {"read"}) \cup (w \X {"write"})
    BY DEF Select
<1>2. UNCHANGED <<s, open, conn>> /\ pc' = "walk" /\ pc = "pselect"
      /\ walk' = [NotWalking EXCEPT !.n = s.max_fd]
    BY DEF Select
<1>3. r \subseteq Fd /\ w \subseteq Fd /\ r \subseteq s.master_r /\ w \subseteq s.master_w
    BY <1>1, Facts DEF Asked, Table
<1>4. s.max_fd \in Fd /\ s.max_fd \in Nat /\ s.max_fd < FdSetSize
    BY Facts, SizeAssumption DEF Table, Fd
<1>5. /\ walk'.n = s.max_fd /\ walk'.i = 0 /\ walk'.half = "read" /\ walk'.data = None
      /\ walk' \in [n : Nat, i : Nat, half : {"read", "write"},
                    data : Conn \cup {Listener, None}]
    BY <1>2, <1>4 DEF NotWalking
<1>6. Agrees(s)' /\ Open' /\ ApartStill /\ Owned'
    BY <1>2, UnchangedSound DEF Sound
<1>7. Apart'
    BY <1>2, <1>6 DEF ApartStill, Apart
<1>8. Typed'
    <2>1. walk'.n < FdSetSize /\ walk'.i <= walk'.n + 1
        BY <1>4, <1>5
    <2>2. owed' \in SUBSET (Fd \X {"read", "write"})
        BY <1>1, <1>3
    <2>3. slave' \in [read : SUBSET Fd, write : SUBSET Fd]
        BY <1>1, <1>3
    <2> QED
        BY <1>2, <1>5, <2>1, <2>2, <2>3 DEF IInv, Typed
<1>9. r \cup w \subseteq open
    <2>1. ASSUME NEW fd \in r \cup w PROVE fd \in open
        <3>1. fd \in Fd /\ s.item[fd].interest # {}
            BY <1>3 DEF IInv, Agrees
        <3>2. s.item[fd].data # None
            BY <3>1, Facts, Items
        <3> QED
            BY <3>1, <3>2, Facts
    <2> QED
        BY <2>1
<1>10. slave'.read = r /\ slave'.write = w
    BY <1>1
<1>11. Accountable("read")' /\ Accountable("write")'
    BY <1>1, <1>10 DEF Accountable
<1>12. KeyHolds'
    BY <1>5 DEF KeyHolds
<1> QED
    BY <1>2, <1>6, <1>7, <1>8, <1>9, <1>10, <1>11, <1>12 DEF IInv, Walking

LEMMA InterruptedIInv ==
    ASSUME IInv, Interrupted
    PROVE  IInv'
<1>1. UNCHANGED <<s, walk, open, conn, owed>> /\ pc' = "notify" /\ pc = "pselect"
      /\ slave' = [read |-> s.master_r, write |-> s.master_w]
    BY DEF Interrupted
<1>2. Agrees(s)' /\ Open' /\ ApartStill /\ Owned'
    BY <1>1, UnchangedSound DEF Sound
<1>3. slave' \in [read : SUBSET Fd, write : SUBSET Fd]
    BY <1>1, Facts DEF Table
<1>4. Typed'
    BY <1>1, <1>3 DEF IInv, Typed
<1> QED
    BY <1>1, <1>2, <1>4 DEF IInv, Apart, ApartStill, Walking

LEMMA WalkEndsIInv ==
    ASSUME IInv, WalkEnds
    PROVE  IInv'
<1>1. UNCHANGED <<s, slave, open, conn, owed>> /\ pc' = "notify" /\ pc = "walk"
      /\ walk' = NotWalking
    BY DEF WalkEnds
<1>2. Agrees(s)' /\ Open' /\ ApartStill /\ Owned'
    BY <1>1, UnchangedSound DEF Sound
<1>3. /\ walk' \in [n : Nat, i : Nat, half : {"read", "write"},
                    data : Conn \cup {Listener, None}]
      /\ walk'.n < FdSetSize /\ walk'.i <= walk'.n + 1
    BY <1>1, SizeAssumption DEF NotWalking
<1>4. Typed'
    BY <1>1, <1>3 DEF IInv, Typed
<1> QED
    BY <1>1, <1>2, <1>4 DEF IInv, Apart, ApartStill, Walking

LEMMA HandleBlockIInv ==
    ASSUME IInv, HandleBlock
    PROVE  IInv'
<1>1. PICK c \in Conn : conn[c] # Gone /\ conn[c].origin = None /\ OpensOrigin(c)
    BY DEF HandleBlock
<1>2. UNCHANGED <<slave, pc, walk, owed>> /\ pc = "notify"
    BY DEF HandleBlock
<1>3. s' \in Table /\ Agrees(s)' /\ ServedBy(c)
    BY <1>1, ConnectionServes
<1>4. Sound
    BY <1>2, <1>3, ServedSound
<1>5. Typed'
    BY <1>2, <1>3, <1>4 DEF IInv, Typed, Sound
<1> QED
    BY <1>2, <1>3, <1>4, <1>5 DEF IInv, Apart, ApartStill, Walking, Sound

LEMMA NotifyEndsIInv ==
    ASSUME IInv, NotifyEnds
    PROVE  IInv'
<1>1. UNCHANGED <<s, walk, open, conn, owed>> /\ pc' = "pselect" /\ pc = "notify"
      /\ slave' = [read |-> {}, write |-> {}]
    BY DEF NotifyEnds
<1>2. Agrees(s)' /\ Open' /\ ApartStill /\ Owned'
    BY <1>1, UnchangedSound DEF Sound
<1>3. Typed'
    BY <1>1 DEF IInv, Typed
<1> QED
    BY <1>1, <1>2, <1>3 DEF IInv, Apart, ApartStill, Walking

LEMMA ShutdownIInv ==
    ASSUME IInv, Shutdown
    PROVE  IInv'
<1>1. /\ pc' = "closed" /\ pc = "pselect" /\ s' = Destroyed /\ open' = open \ Passive
      /\ conn' = [c \in Conn |-> Gone] /\ UNCHANGED <<slave, walk, owed>>
    BY DEF Shutdown
<1>2. /\ s'.item = [fd \in Fd |-> FD_UNUSED] /\ s'.max_fd = 0
      /\ s'.master_r = {} /\ s'.master_w = {}
      /\ \A fd \in Fd : s'.item[fd] = FD_UNUSED
    BY <1>1 DEF Destroyed
<1>3. s' \in Table
    BY <1>1, Items, SizeAssumption DEF Destroyed, Table, Fd
<1>4. Agrees(s)'
    BY <1>2, Items DEF Agrees, Bounded, ITEM_USED
<1>5. Open'
    BY <1>2, Items DEF Open, ITEM_USED
<1>6. \A c \in Conn : conn'[c].client = None /\ conn'[c].origin = None
    BY <1>1 DEF Gone
<1>7. Owned'
    BY <1>2, <1>6, Items, DataAssumption DEF Owned
<1>8. conn' \in [Conn -> Closed] /\ open' \in SUBSET Fd
    BY <1>1, Facts DEF Gone, Closed
<1>9. Typed'
    BY <1>1, <1>3, <1>8 DEF IInv, Typed
<1> QED
    BY <1>1, <1>4, <1>5, <1>7, <1>9 DEF IInv, Apart, Walking

LEMMA IdleIInv ==
    ASSUME IInv, UNCHANGED vars
    PROVE  IInv'
BY DEF vars, IInv, Typed, Agrees, Bounded, Open, Apart, Owned, Walking, KeyHolds,
       Accountable, Ahead, ITEM_USED

THEOREM Invariant == Spec => []IInv
<1>1. IInv /\ [Next]_vars => IInv'
    <2>1. SUFFICES ASSUME IInv, [Next]_vars PROVE IInv'
        OBVIOUS
    <2> QED
        BY <2>1, SelectIInv, InterruptedIInv, ReadHalfIInv, WriteHalfIInv, WalkEndsIInv,
           HandleBlockIInv, NotifyEndsIInv, ShutdownIInv, IdleIInv DEF Next
<1> QED
    BY <1>1, InitIInv, PTL DEF Spec

-----------------------------------------------------------------------------
(* The theorems about the properties the runs check.                       *)

(* The table, the sets and what is derived from them have the types that   *)
(* selector.c gives them, and a walk never leaves the table                *)
THEOREM SelectorTypeCorrect == Spec => []TypeOK
<1>1. IInv => TypeOK
    BY DEF IInv, Typed, TypeOK, Table, Closed
<1> QED
    BY <1>1, Invariant, PTL

(* pselect is asked for exactly what the items ask for, all of it on open  *)
(* descriptors up to max_fd: items_update_fdset_for_fd and items_max_fd    *)
(* keep up with every registration, also in the middle of a walk           *)
THEOREM TableStaysInAgreement == Spec => []TableAgrees
<1>1. IInv => TableAgrees
    BY DEF IInv, Agrees, Bounded, Open, TableAgrees
<1> QED
    BY <1>1, Invariant, PTL

(* An event that handle_iteration hands to the new owner of a descriptor   *)
(* meets the origin of a connection, in any table of any size: a client's  *)
(* descriptor comes from accept(), which the walk calls before any handler *)
(* that closes                                                             *)
THEOREM StaleEventsMeetOrigins == Spec => []StaleOnlyAtOrigins
<1>1. ASSUME IInv PROVE StaleOnlyAtOrigins
    <2>1. SUFFICES ASSUME NEW half \in {"read", "write"}, NEW op \in Op, Stale(half, op)
                   PROVE  \E c \in Conn : conn[c].origin = walk.i
        BY DEF StaleOnlyAtOrigins
    <2>2. /\ pc = "walk" /\ walk.half = half /\ walk.i <= walk.n
          /\ walk.i \in slave[half] /\ op \in s.item[walk.i].interest
          /\ <<walk.i, half>> \notin owed
        BY <2>1 DEF Stale, Due
    <2>3. walk.i \in Fd
        BY <1>1, <2>2, SizeAssumption DEF IInv, Typed, Fd
    <2>4. ITEM_USED(s, walk.i)
        BY <1>1, <2>2, <2>3, Facts, Items DEF ITEM_USED
    <2>5. Ahead(walk.i, half)
        BY <2>2 DEF Ahead
    <2>6. Accountable(half)
        BY <1>1, <2>2 DEF IInv, Walking
    <2> QED
        BY <2>2, <2>4, <2>5, <2>6 DEF Accountable
<1> QED
    BY <1>1, Invariant, PTL

-----------------------------------------------------------------------------
(* The refinement: what a handler does to the table is a step of the event *)
(* source, or changes none of it.                                          *)

LEMMA ServedChangesOwn ==
    ASSUME IInv, s' \in Table, NEW c \in Conn, ServedBy(c)
    PROVE  Source!ChangesOwn(c)
<1>1. SUFFICES ASSUME NEW fd \in Fd, s'.item[fd] # s.item[fd]
               PROVE  s.item[fd].data \in {c, None} /\ s'.item[fd].data \in {c, None}
    BY DEF Source!ChangesOwn
<1>2. \A f \in OwnFds(c) : s.item[f].data = c
    BY Facts
<1>3. CASE Keeps(c)
    BY <1>1, <1>2, <1>3 DEF Keeps, Same
<1>4. CASE \E f \in Fd : Gets(c, f)
    <2>1. PICK f \in Fd : Gets(c, f)
        BY <1>4
    <2>2. s.item[f].data = None
        BY <2>1, Facts DEF Gets
    <2> QED
        BY <1>1, <1>2, <2>1, <2>2 DEF Gets, Same
<1>5. CASE Drops(c)
    BY <1>1, <1>2, <1>5 DEF Drops, Same, FD_UNUSED
<1> QED
    BY <1>3, <1>4, <1>5 DEF ServedBy

LEMMA AdmitsAdds ==
    ASSUME IInv, NEW c \in Conn, NEW fd \in Fd, Admits(c, fd)
    PROVE  Source!Adds
<1>1. s.item[fd] = Source!Unused
    <2>1. s.item[fd] \in Item /\ s.item[fd].data = None
        BY Facts DEF Admits
    <2> QED
        BY <2>1, Items DEF FD_UNUSED, Source!Unused
<1>2. \A other \in Fd : s.item[other].data # c
    <2>1. conn[c].client = None /\ conn[c].origin = None
        BY DEF Admits, Gone
    <2> QED
        BY <2>1, Facts, DataAssumption
<1>3. s'.item = [s.item EXCEPT ![fd] = [data |-> c, interest |-> s'.item[fd].interest]]
    <2>1. s'.item = [s.item EXCEPT ![fd] = [data |-> c, interest |-> {OP_READ}]]
        BY DEF Admits
    <2>2. s'.item[fd] = [data |-> c, interest |-> {OP_READ}]
        BY <2>1, Facts
    <2> QED
        BY <2>1, <2>2
<1> QED
    BY <1>1, <1>2, <1>3 DEF Source!Adds

LEMMA ReadHalfServes ==
    ASSUME IInv, ReadHalf
    PROVE  Source!Event \/ UNCHANGED s.item
<1>1. pc = "walk" /\ walk.i <= walk.n
    BY DEF ReadHalf
<1>2. CASE ~ Due("read", OP_READ)
    BY <1>2 DEF ReadHalf
<1>3. CASE Due("read", OP_READ)
    <2>1. /\ s.item[walk.i].data \in Conn \cup {Listener} /\ walk.i \in Fd
          /\ s.item[walk.i].interest # {}
        BY <1>1, <1>3, ReadCalls DEF Due
    <2>2. CASE s.item[walk.i].data = Listener
        <3>1. Accepts
            BY <1>3, <2>2 DEF ReadHalf, Handles
        <3>2. UNCHANGED <<s, open, conn>> \/ \E c \in Conn, fd \in Fd : Admits(c, fd)
            BY <3>1, AcceptsServes
        <3> QED
            BY <2>1, <2>2, <3>2, AdmitsAdds DEF Source!Event
    <2>3. CASE s.item[walk.i].data # Listener
        <3>1. PICK c \in Conn : c = s.item[walk.i].data
            BY <2>1, <2>3
        <3>2. ChangesInterests(c) \/ OpensOrigin(c) \/ Destroys(c)
            BY <1>3, <2>3, <3>1 DEF ReadHalf, Handles
        <3>3. Source!ChangesOwn(c)
            BY <3>2, ConnectionServes, ServedChangesOwn
        <3> QED
            BY <2>1, <2>3, <3>1, <3>3 DEF Source!Event
    <2> QED
        BY <2>2, <2>3
<1> QED
    BY <1>2, <1>3

LEMMA WriteHalfServes ==
    ASSUME IInv, WriteHalf
    PROVE  Source!Event \/ UNCHANGED s.item
<1>1. pc = "walk" /\ walk.i <= walk.n
    BY DEF WriteHalf
<1>2. CASE ~ Due("write", OP_WRITE)
    BY <1>2 DEF WriteHalf
<1>3. CASE Due("write", OP_WRITE)
    <2>1. /\ walk.data \in Conn /\ walk.i \in Fd /\ s.item[walk.i].data = walk.data
          /\ s.item[walk.i].interest # {}
        BY <1>1, <1>3, WriteCalls DEF Due
    <2>2. ChangesInterests(walk.data) \/ OpensOrigin(walk.data) \/ Destroys(walk.data)
        BY <1>3, <2>1, DataAssumption DEF WriteHalf, Handles
    <2>3. Source!ChangesOwn(walk.data)
        BY <2>1, <2>2, ConnectionServes, ServedChangesOwn
    <2> QED
        BY <2>1, <2>3, DataAssumption DEF Source!Event
<1> QED
    BY <1>2, <1>3

LEMMA HandleBlockServes ==
    ASSUME IInv, HandleBlock
    PROVE  \E fd \in Fd : Source!Notified(fd)
<1>1. PICK c \in Conn : conn[c] # Gone /\ conn[c].origin = None /\ OpensOrigin(c)
    BY DEF HandleBlock
<1>2. conn[c] \in Closed
    BY Facts
<1>3. conn[c].client # None
    BY <1>1, <1>2 DEF Closed, Gone
<1>4. conn[c].client \in Fd /\ s.item[conn[c].client].data = c
    BY <1>3, Facts DEF IInv, Owned
<1>5. Source!ChangesOwn(c)
    BY <1>1, ConnectionServes, ServedChangesOwn
<1> QED
    BY <1>4, <1>5 DEF Source!Notified

(* The selector implements the event source of selector.h: whatever the    *)
(* handlers of a walk close, open and register, the key that is passed on  *)
(* from handle_read to handle_write names the descriptor's owner, and no   *)
(* call changes what belongs to another                                    *)
THEOREM SelectorIsEventSource == Spec => EventSourceSpec
<1>1. IInv /\ [Next]_vars => [Source!Next]_(s.item)
    <2>1. SUFFICES ASSUME IInv, [Next]_vars PROVE Source!Next \/ UNCHANGED s.item
        OBVIOUS
    <2>2. CASE Shutdown
        BY <2>2 DEF Shutdown, Destroyed, FD_UNUSED, Source!Next, Source!Destroyed, Source!Unused
    <2>3. CASE Select \/ Interrupted \/ WalkEnds \/ NotifyEnds
        BY <2>3 DEF Select, Interrupted, WalkEnds, NotifyEnds
    <2>4. CASE UNCHANGED vars
        BY <2>4 DEF vars
    <2> QED
        BY <2>1, <2>2, <2>3, <2>4, ReadHalfServes, WriteHalfServes, HandleBlockServes
        DEF Next, Source!Next
<1> QED
    BY <1>1, Invariant, PTL DEF Spec, EventSourceSpec, Source!Spec
=============================================================================
