--------------------------- MODULE HandshakeProofs ---------------------------
(***************************************************************************)
(* Proofs about the handshake, for every stream of bytes, however recv()   *)
(* cuts it, and for any number of values a byte can have.                  *)
(***************************************************************************)
EXTENDS Handshake, SequenceTheorems, FiniteSetTheorems, WellFoundedInduction, TLAPS

-----------------------------------------------------------------------------
(* Induction, with the set of the numbers that have a property in place of *)
(* the property.                                                           *)

LEMMA HasLeast ==
    ASSUME NEW T \in SUBSET Nat, T # {}
    PROVE  \E m \in T : \A x \in T : m <= x
<1>1. PICK m \in T : \A x \in T : ~ (<<x, m>> \in OpToRel(<, Nat))
    BY NatLessThanWellFounded, WFMin
<1>2. \A x \in T : ~ (x < m)
    BY <1>1 DEF OpToRel
<1> QED
    BY <1>2

LEMMA Climb ==
    ASSUME NEW a \in Nat, NEW b \in Nat, NEW S, a \in S,
           \A n \in a .. b - 1 : n \in S => n + 1 \in S
    PROVE  a .. b \subseteq S
<1>1. SUFFICES ASSUME NEW x \in a .. b, x \notin S PROVE FALSE
    OBVIOUS
<1> DEFINE T == {n \in a .. b : n \notin S}
<1>2. T \in SUBSET Nat /\ T # {}
    BY <1>1
<1>3. PICK m \in T : \A n \in T : m <= n
    BY <1>2, HasLeast
<1>4. m \in Nat /\ m # a /\ a <= m /\ m <= b
    BY <1>3
<1>5. m - 1 \in a .. b - 1 /\ m - 1 \notin T
    BY <1>3, <1>4
<1>6. m - 1 \in S
    BY <1>5
<1>7. m - 1 + 1 \in S
    BY <1>5, <1>6
<1> QED
    BY <1>3, <1>4, <1>7

-----------------------------------------------------------------------------
(* What the bytes of a segment make of a parser.                           *)

After(f, k) ==
    IF k = parsed THEN [p |-> parser, at |-> parsed]
    ELSE IF Stopped(f[k - 1]) THEN f[k - 1]
    ELSE [p |-> ConsumeByte(f[k - 1].p, stream[k]), at |-> k]

LEMMA ReadingsExist ==
    ASSUME parsed \in Nat, NEW last \in Nat, parsed <= last
    PROVE  \E f : f = [k \in parsed .. last |-> After(f, k)]
<1> DEFINE S == {n \in Nat : \E f : f = [k \in parsed .. n |-> After(f, k)]}
<1>1. parsed \in S
    <2> DEFINE f == [k \in {parsed} |-> [p |-> parser, at |-> parsed]]
    <2>1. f = [k \in {parsed} |-> After(f, k)]
        BY DEF After
    <2>2. {parsed} = parsed .. parsed
        OBVIOUS
    <2> QED
        BY <2>1, <2>2
<1>2. ASSUME NEW n \in parsed .. last - 1, n \in S
      PROVE  n + 1 \in S
    <2>1. PICK f : f = [k \in parsed .. n |-> After(f, k)]
        BY <1>2
    <2> DEFINE g == [k \in parsed .. n + 1 |-> IF k = n + 1 THEN After(f, n + 1) ELSE f[k]]
    <2>2. n \in Nat /\ n + 1 \in Nat /\ parsed <= n
        BY <1>2
    <2>3. ASSUME NEW k \in parsed .. n + 1
          PROVE  g[k] = After(g, k)
        <3>1. k \in Nat /\ parsed <= k /\ k <= n + 1
            BY <2>2
        <3>2. CASE k = parsed
            <4>1. k \in parsed .. n /\ k # n + 1
                BY <2>2, <3>2
            <4>2. g[k] = f[k] /\ f[k] = After(f, k)
                BY <2>1, <4>1
            <4> HIDE DEF g
            <4> QED
                BY <3>2, <4>2 DEF After
        <3>3. CASE k # parsed
            <4>1. k - 1 \in parsed .. n /\ k - 1 # n + 1 /\ k - 1 \in parsed .. n + 1
                BY <3>1, <3>3
            <4>2. g[k - 1] = f[k - 1]
                BY <4>1
            <4>3. g[k] = After(f, k)
                <5>1. CASE k = n + 1
                    BY <5>1
                <5>2. CASE k # n + 1
                    <6>1. k \in parsed .. n
                        BY <3>1, <5>2
                    <6> QED
                        BY <2>1, <5>2, <6>1
                <5> QED
                    BY <5>1, <5>2
            <4> HIDE DEF g
            <4> QED
                BY <4>2, <4>3 DEF After
        <3> QED
            BY <3>2, <3>3
    <2>4. g = [k \in parsed .. n + 1 |-> After(g, k)]
        BY <2>3
    <2> HIDE DEF g
    <2> QED
        BY <2>2, <2>4
<1>3. parsed .. last \subseteq S
    <2> HIDE DEF S
    <2> QED
        BY <1>1, <1>2, Climb
<1> QED
    BY <1>3

LEMMA ConsumeUnfolds ==
    ASSUME parsed \in Nat, NEW last \in Nat, parsed <= last
    PROVE  \E f : f = [k \in parsed .. last |-> After(f, k)] /\ Consume(last) = f[last]
<1> DEFINE f[k \in parsed .. last] ==
            IF k = parsed THEN [p |-> parser, at |-> parsed]
            ELSE LET before == f[k - 1]
                 IN  IF Stopped(before) THEN before
                     ELSE [p |-> ConsumeByte(before.p, stream[k]), at |-> k]
<1>1. f = [k \in parsed .. last |-> After(f, k)]
    <2>1. \E g : g = [k \in parsed .. last |-> After(g, k)]
        BY ReadingsExist
    <2> QED
        BY <2>1, Zenon DEF After
<1>2. Consume(last) = f[last]
    BY Zenon DEF Consume
<1> HIDE DEF f
<1> QED
    BY <1>1, <1>2

(* Whatever holds of the parser at every byte it takes, P[k] behind the    *)
(* byte at k, holds of it where it is left: at its end or at the last byte *)
LEMMA ConsumeIn ==
    ASSUME parsed \in Nat, NEW last \in Nat, parsed <= last,
           NEW P, parser \in P[parsed],
           \A k \in parsed .. last - 1 : \A p \in P[k] :
              p.state \notin {"end", "error"} => ConsumeByte(p, stream[k + 1]) \in P[k + 1]
    PROVE  /\ Consume(last).at \in parsed .. last
           /\ Consume(last).p \in P[Consume(last).at]
           /\ Stopped(Consume(last)) \/ Consume(last).at = last
<1>1. PICK f : f = [k \in parsed .. last |-> After(f, k)] /\ Consume(last) = f[last]
    BY ConsumeUnfolds
<1> DEFINE S == {k \in parsed .. last :
                    /\ f[k].at \in parsed .. k /\ f[k].p \in P[f[k].at]
                    /\ Stopped(f[k]) \/ f[k].at = k}
<1>2. \A k \in parsed .. last : f[k] = After(f, k)
    BY <1>1, Zenon
<1>3. parsed \in S
    <2>1. f[parsed] = [p |-> parser, at |-> parsed]
        <3>1. parsed \in parsed .. last
            OBVIOUS
        <3> QED
            BY <1>2, <3>1 DEF After
    <2>2. f[parsed].p = parser /\ f[parsed].at = parsed
        BY <2>1
    <2>3. parsed \in parsed .. last /\ parsed \in parsed .. parsed
        OBVIOUS
    <2> QED
        BY <2>2, <2>3
<1>4. ASSUME NEW k \in parsed .. last - 1, k \in S
      PROVE  k + 1 \in S
    <2>1. k \in Nat /\ k + 1 \in parsed .. last /\ k + 1 # parsed /\ (k + 1) - 1 = k
        OBVIOUS
    <2>2. f[k + 1] = IF Stopped(f[k]) THEN f[k]
                     ELSE [p |-> ConsumeByte(f[k].p, stream[k + 1]), at |-> k + 1]
        BY <1>2, <2>1 DEF After
    <2>3. CASE Stopped(f[k])
        BY <1>4, <2>1, <2>2, <2>3
    <2>4. CASE ~ Stopped(f[k])
        <3>1. f[k].at = k /\ f[k].p \in P[k] /\ f[k].p.state \notin {"end", "error"}
            BY <1>4, <2>4 DEF Stopped
        <3>2. ConsumeByte(f[k].p, stream[k + 1]) \in P[k + 1]
            BY <3>1
        <3>3. f[k + 1].p = ConsumeByte(f[k].p, stream[k + 1]) /\ f[k + 1].at = k + 1
            BY <2>2, <2>4
        <3> QED
            BY <2>1, <3>2, <3>3
    <2> QED
        BY <2>3, <2>4
<1>5. parsed .. last \subseteq S
    <2> HIDE DEF S
    <2> QED
        BY <1>3, <1>4, Climb
<1>6. last \in S
    BY <1>5
<1> QED
    BY <1>1, <1>6

-----------------------------------------------------------------------------
(* What a parser is when it has taken the bytes of a message that begins   *)
(* behind b, up to the one at k and no further.                            *)

(* The n cells of an array hold what the client sent from byte `first` on  *)
Holds(array, n, b, first) ==
    Len(array) = n /\ \A i \in 1 .. n : array[i] = At(b, first + i - 1)

MethodsAt(hp, b, n) ==
    /\ At(b, 1) = 5 /\ At(b, 2) # 0 /\ memory
    /\ hp.nmethods = At(b, 2) /\ Holds(hp.methods, n, b, 3)

HelloAt(b, k) ==
    {hp \in HelloParser :
        \/ hp.state = "version" /\ k = b /\ hp.methods = <<>>
        \/ hp.state = "nmethods" /\ k = b + 1 /\ At(b, 1) = 5 /\ hp.methods = <<>>
        \/ /\ hp.state = "methods"
           /\ \E n \in 0 .. hp.nmethods - 1 : k = b + 2 + n /\ MethodsAt(hp, b, n)
        \/ hp.state = "end" /\ k = b + 2 + hp.nmethods /\ MethodsAt(hp, b, hp.nmethods)
        \/ /\ hp.state = "error" /\ hp.methods = <<>>
           /\ \/ k = b + 1 /\ At(b, 1) # 5
              \/ k = b + 2 /\ At(b, 1) = 5 /\ (At(b, 2) = 0 \/ ~ memory)}

UserAt(hap, b, n) ==
    /\ At(b, 1) = 1 /\ At(b, 2) # 0
    /\ hap.ulen = At(b, 2) /\ Holds(hap.user, n, b, 3)

PassAt(hap, b, n) ==
    /\ UserAt(hap, b, hap.ulen) /\ At(b, 3 + hap.ulen) # 0
    /\ hap.plen = At(b, 3 + hap.ulen) /\ Holds(hap.pass, n, b, 4 + hap.ulen)

AuthAt(b, k) ==
    {hap \in AuthParser :
        \/ hap.state = "version" /\ k = b /\ hap.user = <<>> /\ hap.pass = <<>>
        \/ /\ hap.state = "ulen" /\ k = b + 1 /\ At(b, 1) = 1
           /\ hap.user = <<>> /\ hap.pass = <<>>
        \/ /\ hap.state = "uname" /\ hap.pass = <<>>
           /\ \E n \in 0 .. hap.ulen - 1 : k = b + 2 + n /\ UserAt(hap, b, n)
        \/ /\ hap.state = "plen" /\ hap.pass = <<>>
           /\ k = b + 2 + hap.ulen /\ UserAt(hap, b, hap.ulen)
        \/ /\ hap.state = "password"
           /\ \E n \in 0 .. hap.plen - 1 : k = b + 3 + hap.ulen + n /\ PassAt(hap, b, n)
        \/ /\ hap.state = "end"
           /\ k = b + 3 + hap.ulen + hap.plen /\ PassAt(hap, b, hap.plen)
        \/ /\ hap.state = "error" /\ hap.pass = <<>>
           /\ \/ k = b + 1 /\ At(b, 1) # 1 /\ hap.user = <<>>
              \/ k = b + 2 /\ At(b, 1) = 1 /\ At(b, 2) = 0 /\ hap.user = <<>>
              \/ k = b + 3 + hap.ulen /\ UserAt(hap, b, hap.ulen) /\ At(b, 3 + hap.ulen) = 0}

(* The parser before it has a block for the host                           *)
Early(state, atype) ==
    [state |-> state, atype |-> atype, index |-> 0, destaddr_len |-> 0,
     destaddr |-> None, port |-> <<Unset, Unset>>]

Header(b) == At(b, 1) = 5 /\ At(b, 2) = 1 /\ At(b, 3) = 0

(* Where the host of a request begins, and how long it is                  *)
Host(b) == IF At(b, 4) = FQDN THEN 5 ELSE 4
Size(b) == IF At(b, 4) = FQDN THEN At(b, 5) ELSE 4 * At(b, 4)

(* The first n bytes of the host                                           *)
HasHost(block, b, n) == \A i \in 0 .. n - 1 : block[i] = At(b, Host(b) + 1 + i)

(* The parser behind the header, with a block in which n bytes are stored  *)
HostAt(rp, b, n) ==
    /\ Header(b) /\ At(b, 4) \in {IPV4, FQDN, IPV6} /\ Size(b) \in 1 .. Longest
    /\ rp.atype = At(b, 4)
    /\ rp \in RequestParser(Size(b) + 1)
    /\ HasHost(rp.destaddr, b, n)

(* n bytes of the port are stored too, so the host is ended                *)
PortAt(rp, b, n) ==
    /\ HostAt(rp, b, Size(b)) /\ Size(b) < Longest /\ rp.destaddr[Size(b)] = 0
    /\ \A i \in 1 .. n : rp.port[i] = At(b, Host(b) + Size(b) + i)

RequestParsers == UNION {RequestParser(room) : room \in 0 .. Values}

(* A block whose length does not fit a byte is written again and again     *)
RequestAt(b, k) ==
    {rp \in RequestParsers :
        \/ rp = RequestInit /\ k = b
        \/ rp = Early("command", 0) /\ k = b + 1 /\ At(b, 1) = 5
        \/ rp = Early("reserved", 0) /\ k = b + 2 /\ At(b, 1) = 5 /\ At(b, 2) = 1
        \/ rp = Early("atype", 0) /\ k = b + 3 /\ Header(b)
        \/ rp = Early("destaddr_len", FQDN) /\ k = b + 4 /\ Header(b) /\ At(b, 4) = FQDN
        \/ /\ rp.state = "destaddr" /\ Size(b) < Longest
           /\ rp.index \in 0 .. Size(b) - 1
           /\ k = b + Host(b) + rp.index /\ HostAt(rp, b, rp.index)
        \/ /\ rp.state = "destaddr" /\ Size(b) = Longest
           /\ k >= b + 5 /\ HostAt(rp, b, 0)
        \/ /\ rp.state = "port" /\ rp.index \in 0 .. 1
           /\ k = b + Host(b) + Size(b) + rp.index /\ PortAt(rp, b, rp.index)
        \/ /\ rp.state = "end"
           /\ k = b + Host(b) + Size(b) + 2 /\ PortAt(rp, b, 2)
        \/ rp = Early("command_error", 0) /\ k >= b + 2 /\ At(b, 1) = 5 /\ At(b, 2) # 1
        \/ /\ rp = Early("atype_error", 0) /\ k >= b + 4
           /\ Header(b) /\ At(b, 4) \notin {IPV4, FQDN, IPV6}
        \/ rp = Early("error", 0) /\ k = b + 1 /\ At(b, 1) # 5
        \/ rp = Early("error", 0) /\ k = b + 3 /\ At(b, 1) = 5 /\ At(b, 2) = 1 /\ At(b, 3) # 0
        \/ rp = Early("error", FQDN) /\ k = b + 5 /\ Header(b) /\ At(b, 4) = FQDN /\ At(b, 5) = 0}

(* What every reachable state satisfies: the parser of a login or of the   *)
(* methods is the one of the bytes taken since the message began, a request*)
(* is begun anew by each read, and nobody is answered before the end       *)
Awaits(state) == st = state /\ ~ writing

IInv ==
    /\ TypeOK
    /\ st = "HELLO" => parser \in HelloAt(begin, parsed)
    /\ st = "HELLO_AUTH" => parser \in AuthAt(begin, parsed)
    /\ st = "REQUEST_READING" => parser = RequestInit /\ parsed = begin
    /\ Awaits("HELLO") => method = -1
    /\ st \in {"HELLO", "REQUEST_READING"} \/ Awaits("HELLO_AUTH") => status = 0
    /\ Awaits("HELLO") \/ Awaits("HELLO_AUTH") => parser.state \notin {"end", "error"}

-----------------------------------------------------------------------------
(* A byte more.                                                            *)

LEMMA StreamBytes ==
    ASSUME stream \in Streams, NEW b \in Nat, NEW i \in Nat \ {0}, b + i <= Len(stream)
    PROVE  At(b, i) \in Byte /\ At(b, i) \in Int /\ 0 <= At(b, i) /\ At(b, i) < Values
<1>1. stream \in Seq(Byte)
    BY StreamsAssumption DEF Byte
<1>2. b + i \in 1 .. Len(stream)
    BY <1>1
<1>3. stream[b + i] \in Byte
    BY <1>1, <1>2
<1> QED
    BY <1>3, ValuesAssumption DEF At, Byte

(* A byte stored behind the n others of an array                           *)
LEMMA Stored ==
    ASSUME NEW array \in Seq(Byte), NEW n \in Nat, NEW c \in Byte,
           NEW length \in Byte, n < length,
           NEW b \in Nat, NEW first \in Nat, Holds(array, n, b, first), c = At(b, first + n)
    PROVE  /\ Append(array, c) \in Seq(Byte) /\ Holds(Append(array, c), n + 1, b, first)
           /\ Reached(Append(array, c), length) <=> n + 1 = length
<1> DEFINE more == Append(array, c)
<1>1. /\ more \in Seq(Byte) /\ Len(more) = n + 1 /\ more[n + 1] = c
      /\ \A i \in 1 .. n : more[i] = array[i]
    BY DEF Holds
<1>2. Values \in Nat /\ length \in Nat /\ length < Values
    BY ValuesAssumption DEF Byte
<1>3. (n + 1) % Values = n + 1
    BY <1>2
<1>4. ASSUME NEW i \in 1 .. n + 1
      PROVE  more[i] = At(b, first + i - 1)
    <2>1. CASE i = n + 1
        <3>1. first + i - 1 = first + n
            BY <2>1
        <3> QED
            BY <3>1, <2>1, <1>1
    <2>2. CASE i # n + 1
        <3>1. i \in 1 .. n
            BY <2>2
        <3> QED
            BY <3>1, <1>1 DEF Holds
    <2> QED
        BY <2>1, <2>2
<1> HIDE DEF more
<1>5. Holds(more, n + 1, b, first)
    BY <1>1, <1>4 DEF Holds
<1>6. Reached(more, length) <=> n + 1 = length
    BY <1>1, <1>3 DEF Reached
<1> QED
    BY <1>1, <1>5, <1>6 DEF more

LEMMA HoldsNone ==
    ASSUME NEW b \in Nat, NEW first \in Nat
    PROVE  Holds(<<>>, 0, b, first)
BY DEF Holds

LEMMA HelloByteKeeps ==
    ASSUME NEW b \in Nat, NEW k \in Nat, NEW c \in Byte, c = At(b, k + 1 - b),
           NEW hp \in HelloAt(b, k), hp.state \notin {"end", "error"}
    PROVE  HelloByte(hp, c) \in HelloAt(b, k + 1)
<1> DEFINE q == HelloByte(hp, c)
<1>1. hp \in HelloParser /\ hp.methods \in Seq(Byte) /\ hp.nmethods \in Byte
    BY DEF HelloAt, HelloParser
<1>2. hp = [state |-> hp.state, methods |-> hp.methods, nmethods |-> hp.nmethods]
    BY <1>1 DEF HelloParser
<1>3. c \in Nat /\ hp.nmethods \in Nat
    BY <1>1, ValuesAssumption DEF Byte
<1>4. CASE hp.state = "version"
    <2>1. k = b /\ hp.methods = <<>>
        BY <1>4 DEF HelloAt
    <2>2. c = At(b, 1)
        BY <2>1
    <2>3. q = [state |-> IF c = 5 THEN "nmethods" ELSE "error",
               methods |-> hp.methods, nmethods |-> hp.nmethods]
        BY <1>2, <1>4 DEF HelloByte
    <2> HIDE DEF q
    <2>4. q \in HelloParser
        BY <1>1, <2>3 DEF HelloParser
    <2> QED
        BY <2>1, <2>2, <2>3, <2>4 DEF HelloAt, q
<1>5. CASE hp.state = "nmethods"
    <2>1. k = b + 1 /\ hp.methods = <<>> /\ At(b, 1) = 5
        BY <1>5 DEF HelloAt
    <2>2. c = At(b, 2) /\ k + 1 = b + 2 + 0
        BY <2>1
    <2>3. q = [state |-> IF c = 0 \/ ~ memory THEN "error" ELSE "methods",
               methods |-> hp.methods, nmethods |-> IF c = 0 THEN hp.nmethods ELSE c]
        BY <1>2, <1>5 DEF HelloByte
    <2> HIDE DEF q
    <2>4. q \in HelloParser
        BY <1>1, <2>3 DEF HelloParser
    <2>5. CASE c = 0 \/ ~ memory
        BY <2>1, <2>2, <2>3, <2>4, <2>5 DEF HelloAt, q
    <2>6. CASE c # 0 /\ memory
        <3>1. MethodsAt(q, b, 0)
            BY <2>1, <2>2, <2>3, <2>6, HoldsNone DEF MethodsAt
        <3>2. q.state = "methods" /\ 0 \in 0 .. q.nmethods - 1
            BY <1>3, <2>3, <2>6
        <3> QED
            BY <2>2, <2>4, <3>1, <3>2 DEF HelloAt, q
    <2> QED
        BY <2>5, <2>6
<1>6. CASE hp.state = "methods"
    <2> DEFINE more == Append(hp.methods, c)
    <2>1. PICK n \in 0 .. hp.nmethods - 1 : k = b + 2 + n /\ MethodsAt(hp, b, n)
        BY <1>6 DEF HelloAt
    <2>2. /\ At(b, 1) = 5 /\ At(b, 2) # 0 /\ memory
          /\ hp.nmethods = At(b, 2) /\ Holds(hp.methods, n, b, 3)
        BY <2>1 DEF MethodsAt
    <2>3. /\ n \in Nat /\ n < hp.nmethods /\ k + 1 - b = 3 + n
          /\ k + 1 = b + 2 + (n + 1) /\ n + 1 <= hp.nmethods
        BY <1>3, <2>1
    <2>4. c = At(b, 3 + n)
        BY <2>3
    <2>5. /\ more \in Seq(Byte) /\ Holds(more, n + 1, b, 3)
          /\ Reached(more, hp.nmethods) <=> n + 1 = hp.nmethods
        BY <1>1, <2>2, <2>3, <2>4, Stored
    <2> HIDE DEF more
    <2>6. q = [state |-> IF Reached(more, hp.nmethods) THEN "end" ELSE "methods",
               methods |-> more, nmethods |-> hp.nmethods]
        BY <1>2, <1>6 DEF HelloByte, more
    <2> HIDE DEF q
    <2>7. q \in HelloParser
        BY <1>1, <2>5, <2>6 DEF HelloParser
    <2>8. MethodsAt(q, b, n + 1) /\ q.nmethods = hp.nmethods
        BY <2>2, <2>5, <2>6 DEF MethodsAt
    <2>9. CASE n + 1 = hp.nmethods
        BY <2>3, <2>5, <2>6, <2>7, <2>8, <2>9 DEF HelloAt, q
    <2>10. CASE n + 1 # hp.nmethods
        <3>1. n + 1 \in 0 .. q.nmethods - 1 /\ q.state = "methods"
            BY <2>3, <2>5, <2>6, <2>8, <2>10, <1>3
        <3> QED
            BY <2>3, <2>7, <2>8, <3>1 DEF HelloAt, q
    <2> QED
        BY <2>9, <2>10
<1> QED
    BY <1>1, <1>4, <1>5, <1>6 DEF HelloParser

LEMMA AuthByteKeeps ==
    ASSUME NEW b \in Nat, NEW k \in Nat, NEW c \in Byte, c = At(b, k + 1 - b),
           NEW hap \in AuthAt(b, k), hap.state \notin {"end", "error"}
    PROVE  AuthByte(hap, c) \in AuthAt(b, k + 1)
<1> DEFINE q == AuthByte(hap, c)
<1>1. /\ hap \in AuthParser /\ hap.user \in Seq(Byte) /\ hap.pass \in Seq(Byte)
      /\ hap.ulen \in Byte /\ hap.plen \in Byte
    BY DEF AuthAt, AuthParser
<1>2. hap = [state |-> hap.state, user |-> hap.user, pass |-> hap.pass,
             ulen |-> hap.ulen, plen |-> hap.plen]
    BY <1>1 DEF AuthParser
<1>3. c \in Nat /\ hap.ulen \in Nat /\ hap.plen \in Nat
    BY <1>1, ValuesAssumption DEF Byte
<1>4. CASE hap.state = "version"
    <2>1. k = b /\ hap.user = <<>> /\ hap.pass = <<>>
        BY <1>4 DEF AuthAt
    <2>2. c = At(b, 1)
        BY <2>1
    <2>3. q = [state |-> IF c = 1 THEN "ulen" ELSE "error", user |-> hap.user,
               pass |-> hap.pass, ulen |-> hap.ulen, plen |-> hap.plen]
        BY <1>2, <1>4 DEF AuthByte
    <2> HIDE DEF q
    <2>4. q \in AuthParser
        BY <1>1, <2>3 DEF AuthParser
    <2> QED
        BY <2>1, <2>2, <2>3, <2>4 DEF AuthAt, q
<1>5. CASE hap.state = "ulen"
    <2>1. k = b + 1 /\ hap.user = <<>> /\ hap.pass = <<>> /\ At(b, 1) = 1
        BY <1>5 DEF AuthAt
    <2>2. c = At(b, 2) /\ k + 1 = b + 2 + 0
        BY <2>1
    <2>3. q = [state |-> IF c = 0 THEN "error" ELSE "uname", user |-> hap.user,
               pass |-> hap.pass, ulen |-> IF c = 0 THEN hap.ulen ELSE c, plen |-> hap.plen]
        BY <1>2, <1>5 DEF AuthByte
    <2> HIDE DEF q
    <2>4. q \in AuthParser
        BY <1>1, <2>3 DEF AuthParser
    <2>5. CASE c = 0
        BY <2>1, <2>2, <2>3, <2>4, <2>5 DEF AuthAt, q
    <2>6. CASE c # 0
        <3>1. UserAt(q, b, 0)
            BY <2>1, <2>2, <2>3, <2>6, HoldsNone DEF UserAt
        <3>2. q.state = "uname" /\ q.pass = <<>> /\ 0 \in 0 .. q.ulen - 1
            BY <1>3, <2>1, <2>3, <2>6
        <3> QED
            BY <2>2, <2>4, <3>1, <3>2 DEF AuthAt, q
    <2> QED
        BY <2>5, <2>6
<1>6. CASE hap.state = "uname"
    <2> DEFINE more == Append(hap.user, c)
    <2>1. PICK n \in 0 .. hap.ulen - 1 : k = b + 2 + n /\ UserAt(hap, b, n)
        BY <1>6 DEF AuthAt
    <2>2. /\ At(b, 1) = 1 /\ At(b, 2) # 0 /\ hap.pass = <<>>
          /\ hap.ulen = At(b, 2) /\ Holds(hap.user, n, b, 3)
        BY <2>1, <1>6 DEF UserAt, AuthAt
    <2>3. /\ n \in Nat /\ n < hap.ulen /\ k + 1 - b = 3 + n
          /\ k + 1 = b + 2 + (n + 1) /\ n + 1 <= hap.ulen
        BY <1>3, <2>1
    <2>4. c = At(b, 3 + n)
        BY <2>3
    <2>5. /\ more \in Seq(Byte) /\ Holds(more, n + 1, b, 3)
          /\ Reached(more, hap.ulen) <=> n + 1 = hap.ulen
        BY <1>1, <2>2, <2>3, <2>4, Stored
    <2> HIDE DEF more
    <2>6. q = [state |-> IF Reached(more, hap.ulen) THEN "plen" ELSE "uname", user |-> more,
               pass |-> hap.pass, ulen |-> hap.ulen, plen |-> hap.plen]
        BY <1>2, <1>6 DEF AuthByte, more
    <2> HIDE DEF q
    <2>7. q \in AuthParser
        BY <1>1, <2>5, <2>6 DEF AuthParser
    <2>8. UserAt(q, b, n + 1) /\ q.ulen = hap.ulen /\ q.pass = <<>>
        BY <2>2, <2>5, <2>6 DEF UserAt
    <2>9. CASE n + 1 = hap.ulen
        BY <2>3, <2>5, <2>6, <2>7, <2>8, <2>9 DEF AuthAt, q
    <2>10. CASE n + 1 # hap.ulen
        <3>1. n + 1 \in 0 .. q.ulen - 1 /\ q.state = "uname"
            BY <2>3, <2>5, <2>6, <2>8, <2>10, <1>3
        <3> QED
            BY <2>3, <2>7, <2>8, <3>1 DEF AuthAt, q
    <2> QED
        BY <2>9, <2>10
<1>7. CASE hap.state = "plen"
    <2>1. k = b + 2 + hap.ulen /\ UserAt(hap, b, hap.ulen) /\ hap.pass = <<>>
        BY <1>7 DEF AuthAt
    <2>2. k + 1 - b = 3 + hap.ulen /\ k + 1 = b + 3 + hap.ulen + 0 /\ 4 + hap.ulen \in Nat
        BY <1>3, <2>1
    <2>3. c = At(b, 3 + hap.ulen)
        BY <2>2
    <2>4. q = [state |-> IF c = 0 THEN "error" ELSE "password", user |-> hap.user,
               pass |-> hap.pass, ulen |-> hap.ulen, plen |-> IF c = 0 THEN hap.plen ELSE c]
        BY <1>2, <1>7 DEF AuthByte
    <2> HIDE DEF q
    <2>5. q \in AuthParser
        BY <1>1, <2>4 DEF AuthParser
    <2>6. q.ulen = hap.ulen /\ q.user = hap.user /\ q.pass = <<>>
        BY <2>1, <2>4
    <2>7. UserAt(q, b, q.ulen)
        BY <2>1, <2>6 DEF UserAt
    <2>8. CASE c = 0
        <3>1. k + 1 = b + 3 + q.ulen /\ At(b, 3 + q.ulen) = 0 /\ q.state = "error"
            BY <2>1, <2>2, <2>3, <2>4, <2>6, <2>8, <1>3
        <3> QED
            BY <3>1, <2>5, <2>6, <2>7 DEF AuthAt, q
    <2>9. CASE c # 0
        <3>1. PassAt(q, b, 0)
            BY <2>2, <2>3, <2>4, <2>6, <2>7, <2>9, HoldsNone DEF PassAt
        <3>2. q.state = "password" /\ 0 \in 0 .. q.plen - 1 /\ k + 1 = b + 3 + q.ulen + 0
            BY <1>3, <2>2, <2>4, <2>6, <2>9
        <3> QED
            BY <2>5, <3>1, <3>2 DEF AuthAt, q
    <2> QED
        BY <2>8, <2>9
<1>8. CASE hap.state = "password"
    <2> DEFINE more == Append(hap.pass, c)
    <2>1. PICK n \in 0 .. hap.plen - 1 : k = b + 3 + hap.ulen + n /\ PassAt(hap, b, n)
        BY <1>8 DEF AuthAt
    <2>2. /\ UserAt(hap, b, hap.ulen) /\ At(b, 3 + hap.ulen) # 0
          /\ hap.plen = At(b, 3 + hap.ulen) /\ Holds(hap.pass, n, b, 4 + hap.ulen)
        BY <2>1 DEF PassAt
    <2>3. /\ n \in Nat /\ n < hap.plen /\ k + 1 - b = (4 + hap.ulen) + n
          /\ k + 1 = b + 3 + hap.ulen + (n + 1) /\ n + 1 <= hap.plen /\ 4 + hap.ulen \in Nat
        BY <1>3, <2>1
    <2>4. c = At(b, (4 + hap.ulen) + n)
        BY <2>3
    <2>5. /\ more \in Seq(Byte) /\ Holds(more, n + 1, b, 4 + hap.ulen)
          /\ Reached(more, hap.plen) <=> n + 1 = hap.plen
        <3>1. PICK first \in Nat : first = 4 + hap.ulen
            BY <2>3
        <3>2. Holds(hap.pass, n, b, first) /\ c = At(b, first + n)
            BY <2>2, <2>4, <3>1
        <3>3. more \in Seq(Byte) /\ Holds(more, n + 1, b, first)
            BY <1>1, <2>3, <3>2, Stored
        <3>4. Reached(more, hap.plen) <=> n + 1 = hap.plen
            BY <1>1, <2>3, <3>2, Stored
        <3> HIDE DEF more
        <3> QED
            BY <3>1, <3>3, <3>4
    <2> HIDE DEF more
    <2>6. q = [state |-> IF Reached(more, hap.plen) THEN "end" ELSE "password",
               user |-> hap.user, pass |-> more, ulen |-> hap.ulen, plen |-> hap.plen]
        BY <1>2, <1>8 DEF AuthByte, more
    <2> HIDE DEF q
    <2>7. q \in AuthParser
        BY <1>1, <2>5, <2>6 DEF AuthParser
    <2>8. q.user = hap.user /\ q.pass = more /\ q.ulen = hap.ulen /\ q.plen = hap.plen
        BY <2>6
    <2>9. PassAt(q, b, n + 1)
        BY <2>2, <2>5, <2>8 DEF PassAt, UserAt
    <2>10. CASE n + 1 = hap.plen
        <3>1. k + 1 = b + 3 + q.ulen + q.plen /\ q.state = "end" /\ PassAt(q, b, q.plen)
            BY <2>3, <2>5, <2>6, <2>8, <2>9, <2>10
        <3> QED
            BY <3>1, <2>7 DEF AuthAt, q
    <2>11. CASE n + 1 # hap.plen
        <3>1. n + 1 \in 0 .. q.plen - 1 /\ q.state = "password" /\ k + 1 = b + 3 + q.ulen + (n + 1)
            BY <2>3, <2>5, <2>6, <2>8, <2>11, <1>3
        <3> QED
            BY <2>7, <2>9, <3>1 DEF AuthAt, q
    <2> QED
        BY <2>10, <2>11
<1> QED
    BY <1>1, <1>4, <1>5, <1>6, <1>7, <1>8 DEF AuthParser

LEMMA EarlyTyped ==
    ASSUME NEW state \in {"version", "command", "reserved", "atype", "destaddr_len",
                          "command_error", "atype_error", "error"},
           NEW atype \in {0, IPV4, FQDN, IPV6}
    PROVE  Early(state, atype) \in RequestParsers /\ ParserOK(Early(state, atype))
<1> DEFINE e == Early(state, atype)
<1>1. Values \in Nat /\ 0 \in Byte /\ 0 % Values = 0
    BY ValuesAssumption DEF Byte
<1>2. <<Unset, Unset>> \in [1 .. 2 -> Byte \cup {Unset}]
    OBVIOUS
<1>3. e \in RequestParser(0) /\ e.state # "destaddr"
    BY <1>1, <1>2 DEF RequestParser, Early
<1>4. 0 \in 0 .. Values
    BY <1>1
<1> HIDE DEF e
<1>5. e \in RequestParsers
    BY <1>3, <1>4 DEF RequestParsers
<1>6. ParserOK(e)
    BY <1>3, <1>4 DEF ParserOK
<1> QED
    BY <1>5, <1>6 DEF e

(* The block that is made for a host                                       *)
LEMMA Room ==
    ASSUME NEW b \in Nat, Header(b), At(b, 4) \in {IPV4, FQDN, IPV6},
           Size(b) \in 1 .. Longest,
           NEW q, q = [state |-> "destaddr", atype |-> At(b, 4), index |-> 0,
                       destaddr_len |-> (Size(b) + 1) % Values,
                       destaddr |-> Block(Size(b) + 1), port |-> <<Unset, Unset>>]
    PROVE  q \in RequestAt(b, b + Host(b))
<1>1. Values \in Nat /\ Values > 17 /\ 0 \in Byte /\ Longest = Values - 1
    BY ValuesAssumption DEF Byte, Longest
<1>2. PICK n \in 1 .. Longest : n = Size(b)
    OBVIOUS
<1>3. n + 1 \in 0 .. Values /\ n + 1 # 0 /\ n # 0 /\ n \in Nat
    BY <1>1, <1>2
<1>4. Block(n + 1) \in BlockOf(n + 1)
    BY <1>1 DEF Block, BlockOf
<1>5. <<Unset, Unset>> \in [1 .. 2 -> Byte \cup {Unset}]
    OBVIOUS
<1>6. q \in RequestParser(Size(b) + 1)
    BY <1>1, <1>2, <1>3, <1>4, <1>5 DEF RequestParser
<1>7. q \in RequestParsers
    BY <1>2, <1>3, <1>6 DEF RequestParsers
<1>8. HostAt(q, b, 0)
    <2>1. HasHost(q.destaddr, b, 0)
        BY DEF HasHost
    <2> QED
        BY <1>2, <1>3, <1>6, <2>1 DEF HostAt
<1>9. Host(b) \in Nat /\ b + Host(b) = b + Host(b) + 0
    BY DEF Host
<1>10. CASE n = Longest
    <2>1. At(b, 4) = FQDN
        BY <1>1, <1>2, <1>10 DEF Size, IPV4, IPV6, FQDN
    <2> QED
        BY <1>2, <1>7, <1>8, <1>10, <2>1 DEF RequestAt, Host
<1>11. CASE n < Longest
    <2>1. 0 \in 0 .. Size(b) - 1 /\ Size(b) < Longest
        BY <1>2, <1>3, <1>11
    <2> QED
        BY <1>7, <1>8, <1>9, <2>1 DEF RequestAt
<1> QED
    BY <1>1, <1>2, <1>10, <1>11

(* What the parser of a request makes of a byte before it has a block      *)
LEMMA EarlyByte ==
    ASSUME NEW c \in Byte
    PROVE  /\ RequestByte(Early("version", 0), c) = Early(IF c = 5 THEN "command" ELSE "error", 0)
           /\ RequestByte(Early("command", 0), c) =
                 Early(IF c = 1 THEN "reserved" ELSE "command_error", 0)
           /\ RequestByte(Early("reserved", 0), c) = Early(IF c = 0 THEN "atype" ELSE "error", 0)
           /\ RequestByte(Early("command_error", 0), c) = Early("command_error", 0)
           /\ RequestByte(Early("atype_error", 0), c) = Early("atype_error", 0)
           /\ c \notin {IPV4, FQDN, IPV6} =>
                 RequestByte(Early("atype", 0), c) = Early("atype_error", 0)
           /\ c = FQDN => RequestByte(Early("atype", 0), c) = Early("destaddr_len", FQDN)
           /\ c \in {IPV4, IPV6} =>
                 RequestByte(Early("atype", 0), c) =
                    [state |-> "destaddr", atype |-> c, index |-> 0,
                     destaddr_len |-> (c * 4 + 1) % Values,
                     destaddr |-> Block(c * 4 + 1), port |-> <<Unset, Unset>>]
           /\ c = 0 => RequestByte(Early("destaddr_len", FQDN), c) = Early("error", FQDN)
           /\ c # 0 => RequestByte(Early("destaddr_len", FQDN), c) =
                    [state |-> "destaddr", atype |-> FQDN, index |-> 0,
                     destaddr_len |-> (c + 1) % Values,
                     destaddr |-> Block(c + 1), port |-> <<Unset, Unset>>]
<1>1. \A state, atype : Early(state, atype).state = state
    BY DEF Early
<1>2. \A state, atype, new : [Early(state, atype) EXCEPT !.state = new] = Early(new, atype)
    BY DEF Early
<1>3. \A state, atype, new : [Early(state, atype) EXCEPT !.atype = new] = Early(state, new)
    BY DEF Early
<1>4. ASSUME NEW state, NEW atype, NEW new, NEW kind, NEW block, NEW length, NEW q,
             q = [Early(state, atype) EXCEPT !.state = new, !.atype = kind,
                                             !.destaddr = block, !.destaddr_len = length]
      PROVE  q = [state |-> new, atype |-> kind, index |-> 0, destaddr_len |-> length,
                  destaddr |-> block, port |-> <<Unset, Unset>>]
    BY <1>4 DEF Early
<1>5. RequestByte(Early("version", 0), c) = Early(IF c = 5 THEN "command" ELSE "error", 0)
    BY <1>1, <1>2 DEF RequestByte
<1>6. RequestByte(Early("command", 0), c) =
                 Early(IF c = 1 THEN "reserved" ELSE "command_error", 0)
    BY <1>1, <1>2 DEF RequestByte
<1>7. RequestByte(Early("reserved", 0), c) = Early(IF c = 0 THEN "atype" ELSE "error", 0)
    BY <1>1, <1>2 DEF RequestByte
<1>8. /\ RequestByte(Early("command_error", 0), c) = Early("command_error", 0)
      /\ RequestByte(Early("atype_error", 0), c) = Early("atype_error", 0)
    BY <1>1 DEF RequestByte
<1>9. ASSUME c \notin {IPV4, FQDN, IPV6}
      PROVE  RequestByte(Early("atype", 0), c) = Early("atype_error", 0)
    BY <1>1, <1>2, <1>9 DEF RequestByte
<1>10. ASSUME c = FQDN
       PROVE  RequestByte(Early("atype", 0), c) = Early("destaddr_len", FQDN)
    <2>1. PICK rp : rp = Early("atype", 0)
        OBVIOUS
    <2>2. rp.state = "atype"
        BY <1>1, <2>1
    <2>3. RequestByte(rp, c) = [rp EXCEPT !.state = "destaddr_len", !.atype = c]
        <3>1. c \notin {IPV4, IPV6}
            BY <1>10 DEF IPV4, IPV6, FQDN
        <3> QED
            BY <1>10, <2>2, <3>1 DEF RequestByte
    <2>4. ASSUME NEW q, q = [rp EXCEPT !.state = "destaddr_len", !.atype = c]
          PROVE  q = Early("destaddr_len", c)
        BY <2>1, <2>4 DEF Early
    <2> QED
        BY <1>10, <2>1, <2>3, <2>4
<1>11. ASSUME c \in {IPV4, IPV6}
       PROVE  RequestByte(Early("atype", 0), c) =
                    [state |-> "destaddr", atype |-> c, index |-> 0,
                     destaddr_len |-> (c * 4 + 1) % Values,
                     destaddr |-> Block(c * 4 + 1), port |-> <<Unset, Unset>>]
    <2> DEFINE q == RequestByte(Early("atype", 0), c)
    <2>1. c # FQDN
        BY <1>11 DEF IPV4, IPV6, FQDN
    <2>2. q = [Early("atype", 0) EXCEPT !.state = "destaddr", !.atype = c,
                   !.destaddr = Block(c * 4 + 1), !.destaddr_len = (c * 4 + 1) % Values]
        BY <1>1, <1>11, <2>1 DEF RequestByte
    <2> HIDE DEF q
    <2>3. q = [state |-> "destaddr", atype |-> c, index |-> 0,
               destaddr_len |-> (c * 4 + 1) % Values,
               destaddr |-> Block(c * 4 + 1), port |-> <<Unset, Unset>>]
        BY <2>2 DEF Early
    <2> QED
        BY <2>3 DEF q
<1>12. ASSUME c # 0
       PROVE  RequestByte(Early("destaddr_len", FQDN), c) =
                    [state |-> "destaddr", atype |-> FQDN, index |-> 0,
                     destaddr_len |-> (c + 1) % Values,
                     destaddr |-> Block(c + 1), port |-> <<Unset, Unset>>]
    <2> DEFINE q == RequestByte(Early("destaddr_len", FQDN), c)
    <2>1. q = [Early("destaddr_len", FQDN) EXCEPT !.state = "destaddr",
                   !.atype = Early("destaddr_len", FQDN).atype,
                   !.destaddr = Block(c + 1), !.destaddr_len = (c + 1) % Values]
        BY <1>1, <1>12 DEF RequestByte
    <2> HIDE DEF q
    <2>2. q = [state |-> "destaddr", atype |-> FQDN, index |-> 0,
               destaddr_len |-> (c + 1) % Values,
               destaddr |-> Block(c + 1), port |-> <<Unset, Unset>>]
        BY <2>1 DEF Early
    <2> QED
        BY <2>2 DEF q
<1>13. c = 0 => RequestByte(Early("destaddr_len", FQDN), c) = Early("error", FQDN)
    BY <1>1, <1>2 DEF RequestByte
<1> QED
    BY <1>5, <1>6, <1>7, <1>8, <1>9, <1>10, <1>11, <1>12, <1>13

(* The parser behind a header: its cells and their number                  *)
LEMMA HostRoom ==
    ASSUME NEW b \in Nat, NEW n \in Nat, NEW rp, HostAt(rp, b, n)
    PROVE  /\ Host(b) \in {4, 5} /\ Size(b) \in 1 .. Longest
           /\ Longest \in Nat /\ Longest = Values - 1 /\ Values \in Nat
           /\ Size(b) = Longest => Host(b) = 5
           /\ rp.destaddr \in [0 .. Size(b) -> Byte]
           /\ rp.destaddr_len = (Size(b) + 1) % Values
           /\ rp.index \in Byte /\ rp.port \in [1 .. 2 -> Byte \cup {Unset}]
           /\ rp = [state |-> rp.state, atype |-> rp.atype, index |-> rp.index,
                    destaddr_len |-> rp.destaddr_len, destaddr |-> rp.destaddr,
                    port |-> rp.port]
<1>1. /\ Header(b) /\ At(b, 4) \in {IPV4, FQDN, IPV6} /\ Size(b) \in 1 .. Longest
      /\ rp.atype = At(b, 4) /\ rp \in RequestParser(Size(b) + 1)
    BY DEF HostAt
<1>2. Values \in Nat /\ Values > 17 /\ Longest = Values - 1 /\ Longest \in Nat
    BY ValuesAssumption DEF Longest
<1>3. PICK m \in 1 .. Longest : m = Size(b)
    BY <1>1
<1>4. m + 1 # 0 /\ m + 1 - 1 = m
    BY <1>2
<1>5. rp.destaddr \in BlockOf(m + 1) /\ rp.destaddr_len = (m + 1) % Values
    BY <1>1, <1>3, <1>4 DEF RequestParser
<1>6. rp.destaddr \in [0 .. m -> Byte]
    BY <1>4, <1>5 DEF BlockOf
<1>7. Host(b) \in {4, 5}
    BY DEF Host
<1>8. m = Longest => Host(b) = 5
    BY <1>1, <1>2, <1>3 DEF Host, Size, IPV4, FQDN, IPV6
<1>9. rp.index \in Byte /\ rp.port \in [1 .. 2 -> Byte \cup {Unset}]
    BY <1>1 DEF RequestParser
<1>10. rp = [state |-> rp.state, atype |-> rp.atype, index |-> rp.index,
             destaddr_len |-> rp.destaddr_len, destaddr |-> rp.destaddr, port |-> rp.port]
    BY <1>1 DEF RequestParser
<1> QED
    BY <1>1, <1>2, <1>3, <1>5, <1>6, <1>7, <1>8, <1>9, <1>10

(* A byte more of the host or of the port leaves the rest as it was        *)
LEMMA HostStays ==
    ASSUME NEW b \in Nat, NEW n \in Nat, NEW m \in Nat, NEW rp, HostAt(rp, b, n),
           NEW q, q.state \in {"destaddr", "port", "end"}, q.index \in Byte,
           q.atype = rp.atype, q.destaddr_len = rp.destaddr_len,
           q.destaddr \in [0 .. Size(b) -> Byte], q.port \in [1 .. 2 -> Byte \cup {Unset}],
           q = [state |-> q.state, atype |-> q.atype, index |-> q.index,
                destaddr_len |-> q.destaddr_len, destaddr |-> q.destaddr, port |-> q.port],
           HasHost(q.destaddr, b, m)
    PROVE  HostAt(q, b, m) /\ q \in RequestParsers
<1>1. PICK s \in 1 .. Longest : s = Size(b)
    BY HostRoom
<1>2. /\ Header(b) /\ At(b, 4) \in {IPV4, FQDN, IPV6}
      /\ rp.atype = At(b, 4) /\ rp \in RequestParser(s + 1)
    BY <1>1 DEF HostAt
<1>3. Values \in Nat /\ Longest = Values - 1 /\ Longest \in Nat
    BY ValuesAssumption DEF Longest
<1>4. s + 1 # 0 /\ s + 1 \in 0 .. Values /\ s + 1 - 1 = s
    BY <1>3
<1>5. rp.destaddr_len \in {(s + 1) % Values} /\ rp.atype \in {0, IPV4, FQDN, IPV6}
    BY <1>2 DEF RequestParser
<1>6. q.destaddr \in BlockOf(s + 1)
    BY <1>1, <1>4 DEF BlockOf
<1>7. q \in RequestParser(s + 1)
    BY <1>4, <1>5, <1>6 DEF RequestParser
<1>8. q \in RequestParsers
    BY <1>4, <1>7 DEF RequestParsers
<1> QED
    BY <1>1, <1>2, <1>7, <1>8 DEF HostAt

LEMMA AdvanceByte ==
    ASSUME NEW j \in Byte
    PROVE  Advance(j) \in Byte /\ (j + 1 < Values => Advance(j) = j + 1)
<1>1. Values \in Nat /\ Values > 0 /\ j \in Nat
    BY ValuesAssumption DEF Byte
<1>2. (j + 1) % Values \in 0 .. Values - 1
    BY <1>1
<1>3. j + 1 < Values => (j + 1) % Values = j + 1
    BY <1>1
<1> QED
    BY <1>2, <1>3 DEF Advance, Byte

LEMMA HostByteKeeps ==
    ASSUME NEW b \in Nat, NEW k \in Nat, NEW c \in Byte, c = At(b, k + 1 - b),
           NEW rp \in RequestAt(b, k), rp.state = "destaddr"
    PROVE  RequestByte(rp, c) \in RequestAt(b, k + 1)
<1> DEFINE next == Advance(rp.index)
<1> DEFINE stored == [rp.destaddr EXCEPT ![rp.index] = c]
<1>1. \/ /\ Size(b) < Longest /\ rp.index \in 0 .. Size(b) - 1
         /\ k = b + Host(b) + rp.index /\ HostAt(rp, b, rp.index)
      \/ Size(b) = Longest /\ k >= b + 5 /\ HostAt(rp, b, 0)
    BY DEF RequestAt, Early, RequestInit
<1>2. PICK n \in Nat : HostAt(rp, b, n)
    BY <1>1
<1>3. /\ Host(b) \in {4, 5} /\ Size(b) \in 1 .. Longest
      /\ Longest \in Nat /\ Longest = Values - 1 /\ Values \in Nat
      /\ Size(b) = Longest => Host(b) = 5
      /\ rp.destaddr \in [0 .. Size(b) -> Byte]
      /\ rp.destaddr_len = (Size(b) + 1) % Values
      /\ rp.index \in Byte /\ rp.port \in [1 .. 2 -> Byte \cup {Unset}]
      /\ rp = [state |-> rp.state, atype |-> rp.atype, index |-> rp.index,
               destaddr_len |-> rp.destaddr_len, destaddr |-> rp.destaddr, port |-> rp.port]
    BY <1>2, HostRoom
<1>4. PICK s \in 1 .. Longest, j \in Byte : s = Size(b) /\ j = rp.index
    BY <1>3
<1>5. j \in Nat /\ j < Values
    BY <1>3 DEF Byte
<1>6. next \in Byte /\ (j + 1 < Values => next = j + 1)
    BY <1>4, AdvanceByte
<1>7. stored \in [0 .. s -> Byte] /\ (j \in 0 .. s => stored[j] = c)
      /\ \A i \in 0 .. s : i # j => stored[i] = rp.destaddr[i]
    BY <1>3, <1>4
<1> HIDE DEF next, stored
<1>8. ASSUME next # EndCell(rp)
      PROVE  RequestByte(rp, c) =
                [state |-> "destaddr", atype |-> rp.atype, index |-> next,
                 destaddr_len |-> rp.destaddr_len, destaddr |-> stored, port |-> rp.port]
    <2>1. PICK q : q = RequestByte(rp, c)
        OBVIOUS
    <2>2. q = [rp EXCEPT !.destaddr[rp.index] = c, !.index = next]
        BY <1>8, <2>1 DEF RequestByte, next
    <2>3. q = [rp EXCEPT !.destaddr = stored, !.index = next]
        BY <2>2 DEF stored
    <2>4. q = [state |-> "destaddr", atype |-> rp.atype, index |-> next,
               destaddr_len |-> rp.destaddr_len, destaddr |-> stored, port |-> rp.port]
        BY <2>3, <1>3
    <2> QED
        BY <2>1, <2>4
<1>9. ASSUME next = EndCell(rp)
      PROVE  RequestByte(rp, c) =
                [state |-> "port", atype |-> rp.atype, index |-> 0,
                 destaddr_len |-> rp.destaddr_len,
                 destaddr |-> [stored EXCEPT ![next] = 0], port |-> rp.port]
    <2>1. PICK q : q = RequestByte(rp, c)
        OBVIOUS
    <2>2. PICK r : r = [rp EXCEPT !.destaddr[rp.index] = c, !.index = next]
        OBVIOUS
    <2>3. q = [r EXCEPT !.destaddr[next] = 0, !.state = "port", !.index = 0]
        BY <1>9, <2>1, <2>2 DEF RequestByte, next
    <2>4. r = [rp EXCEPT !.destaddr = stored, !.index = next]
        BY <2>2 DEF stored
    <2>5. r = [state |-> "destaddr", atype |-> rp.atype, index |-> next,
               destaddr_len |-> rp.destaddr_len, destaddr |-> stored, port |-> rp.port]
        BY <2>4, <1>3
    <2>6. q = [state |-> "port", atype |-> rp.atype, index |-> 0,
               destaddr_len |-> rp.destaddr_len,
               destaddr |-> [stored EXCEPT ![next] = 0], port |-> rp.port]
        BY <2>3, <2>5
    <2> QED
        BY <2>1, <2>6
<1>10. CASE s = Longest
    <2>1. (s + 1) % Values = 0
        BY <1>3, <1>10
    <2>2. next # EndCell(rp)
        BY <1>3, <1>4, <1>6, <2>1 DEF EndCell, Byte
    <2>3. k >= b + 5 /\ HostAt(rp, b, 0) /\ k + 1 >= b + 5
        BY <1>1, <1>3, <1>4, <1>10
    <2>4. PICK q : q = RequestByte(rp, c)
        OBVIOUS
    <2>5. q = [state |-> "destaddr", atype |-> rp.atype, index |-> next,
               destaddr_len |-> rp.destaddr_len, destaddr |-> stored, port |-> rp.port]
        BY <1>8, <2>2, <2>4
    <2>6. /\ q.state = "destaddr" /\ q.index \in Byte
          /\ q.atype = rp.atype /\ q.destaddr_len = rp.destaddr_len
          /\ q.destaddr \in [0 .. Size(b) -> Byte] /\ q.port \in [1 .. 2 -> Byte \cup {Unset}]
          /\ q = [state |-> q.state, atype |-> q.atype, index |-> q.index,
                  destaddr_len |-> q.destaddr_len, destaddr |-> q.destaddr, port |-> q.port]
        BY <1>3, <1>4, <1>6, <1>7, <2>5
    <2>7. PICK m \in Nat : m = 0
        OBVIOUS
    <2>8. HostAt(q, b, m) /\ q \in RequestParsers
        <3>1. HasHost(q.destaddr, b, m)
            BY <2>7 DEF HasHost
        <3> QED
            BY <1>2, <2>6, <3>1, HostStays
    <2> QED
        BY <1>4, <1>10, <2>3, <2>4, <2>5, <2>7, <2>8 DEF RequestAt
<1>11. CASE s < Longest
    <2>1. /\ j \in 0 .. s - 1 /\ k = b + Host(b) + j /\ HostAt(rp, b, j)
          /\ j \in Nat /\ j + 1 \in Nat /\ j + 1 < Values /\ s \in Nat /\ s + 1 < Values
        <3>1. Values \in Nat /\ Longest \in Nat /\ Longest = Values - 1 /\ s < Longest /\ s \in Nat
            BY <1>3, <1>11
        <3>2. j \in 0 .. s - 1 /\ k = b + Host(b) + j /\ HostAt(rp, b, j)
            <4>1. Size(b) # Longest
                BY <1>4, <3>1
            <4> QED
                BY <1>1, <1>4, <4>1
        <3> QED
            BY <3>1, <3>2
    <2>2. next = j + 1 /\ EndCell(rp) = s
        <3>1. (s + 1) % Values = s + 1
            <4>1. Values \in Nat /\ s \in Nat /\ s + 1 < Values
                BY <1>3, <2>1
            <4> QED
                BY <4>1
        <3> QED
            BY <1>3, <1>4, <1>6, <2>1, <3>1 DEF EndCell
    <2>3. PICK h \in {4, 5} : h = Host(b)
        BY <1>3
    <2>4. k + 1 - b = h + 1 + j /\ k + 1 = b + h + (j + 1)
        BY <2>1, <2>3
    <2>5. HasHost(stored, b, j + 1)
        <3>1. SUFFICES ASSUME NEW i \in 0 .. j PROVE stored[i] = At(b, h + 1 + i)
            BY <2>1, <2>3 DEF HasHost
        <3>2. CASE i = j
            <4>1. j \in 0 .. s
                BY <2>1
            <4>2. stored[i] = c
                BY <1>7, <3>2, <4>1
            <4> QED
                BY <2>4, <3>2, <4>2
        <3>3. CASE i # j
            <4>1. i \in 0 .. j - 1 /\ i \in 0 .. s
                BY <2>1, <3>3
            <4> QED
                BY <1>7, <2>1, <2>3, <3>3, <4>1 DEF HostAt, HasHost
        <3> QED
            BY <3>2, <3>3
    <2>6. CASE j + 1 # s
        <3>1. PICK q : q = RequestByte(rp, c)
            OBVIOUS
        <3>2. q = [state |-> "destaddr", atype |-> rp.atype, index |-> next,
                   destaddr_len |-> rp.destaddr_len, destaddr |-> stored, port |-> rp.port]
            BY <1>8, <2>2, <2>6, <3>1
        <3>3. /\ q.state = "destaddr" /\ q.index \in Byte
              /\ q.atype = rp.atype /\ q.destaddr_len = rp.destaddr_len
              /\ q.destaddr \in [0 .. Size(b) -> Byte] /\ q.port \in [1 .. 2 -> Byte \cup {Unset}]
              /\ q = [state |-> q.state, atype |-> q.atype, index |-> q.index,
                      destaddr_len |-> q.destaddr_len, destaddr |-> q.destaddr, port |-> q.port]
              /\ q.destaddr = stored
            BY <1>3, <1>4, <1>6, <1>7, <3>2
        <3>4. HostAt(q, b, j + 1) /\ q \in RequestParsers
            BY <2>1, <2>5, <3>3, HostStays
        <3>5. q.index = j + 1 /\ q.state = "destaddr"
            BY <2>2, <3>2
        <3>6. j + 1 \in 0 .. Size(b) - 1 /\ Size(b) < Longest /\ k + 1 = b + Host(b) + (j + 1)
            BY <1>4, <1>11, <2>1, <2>3, <2>4, <2>6
        <3> QED
            BY <3>1, <3>4, <3>5, <3>6 DEF RequestAt
    <2>7. CASE j + 1 = s
        <3> DEFINE ended == [stored EXCEPT ![next] = 0]
        <3>1. PICK q : q = RequestByte(rp, c)
            OBVIOUS
        <3>2. q = [state |-> "port", atype |-> rp.atype, index |-> 0,
                   destaddr_len |-> rp.destaddr_len, destaddr |-> ended, port |-> rp.port]
            BY <1>9, <2>2, <2>7, <3>1
        <3>3. 0 \in Byte
            BY <1>3 DEF Byte
        <3>4. ended \in [0 .. Size(b) -> Byte] /\ ended[s] = 0
            BY <1>4, <1>7, <2>1, <2>2, <2>7, <3>3
        <3>5. HasHost(ended, b, s)
            BY <1>7, <2>1, <2>2, <2>5, <2>7 DEF HasHost
        <3> HIDE DEF ended
        <3>6. HostAt(q, b, Size(b)) /\ q \in RequestParsers
            <4>1. /\ q.state = "port" /\ q.index \in Byte
                  /\ q.atype = rp.atype /\ q.destaddr_len = rp.destaddr_len
                  /\ q.destaddr \in [0 .. Size(b) -> Byte]
                  /\ q.port \in [1 .. 2 -> Byte \cup {Unset}]
                  /\ q = [state |-> q.state, atype |-> q.atype, index |-> q.index,
                          destaddr_len |-> q.destaddr_len, destaddr |-> q.destaddr,
                          port |-> q.port]
                  /\ q.destaddr = ended
                BY <1>3, <3>2, <3>3, <3>4
            <4>2. HostAt(q, b, s) /\ q \in RequestParsers
                BY <2>1, <3>5, <4>1, HostStays
            <4> QED
                BY <1>4, <4>2
        <3>7. q.index = 0 /\ q.state = "port" /\ q.destaddr[Size(b)] = 0
            BY <1>4, <3>2, <3>4
        <3>8. Size(b) < Longest /\ k + 1 = b + Host(b) + Size(b) + 0 /\ 0 \in 0 .. 1
            BY <1>4, <1>11, <2>3, <2>4, <2>7
        <3>9. PortAt(q, b, 0)
            BY <3>6, <3>7, <3>8 DEF PortAt
        <3> QED
            BY <3>1, <3>6, <3>7, <3>8, <3>9 DEF RequestAt
    <2> QED
        BY <2>6, <2>7
<1> QED
    BY <1>3, <1>4, <1>10, <1>11

(* A byte of the port                                                      *)
LEMMA PortByteKeeps ==
    ASSUME NEW b \in Nat, NEW k \in Nat, NEW c \in Byte, c = At(b, k + 1 - b),
           NEW rp \in RequestAt(b, k), rp.state = "port"
    PROVE  RequestByte(rp, c) \in RequestAt(b, k + 1)
<1>1. /\ rp.index \in 0 .. 1 /\ k = b + Host(b) + Size(b) + rp.index
      /\ PortAt(rp, b, rp.index)
    BY DEF RequestAt, Early, RequestInit
<1>2. /\ HostAt(rp, b, Size(b)) /\ Size(b) < Longest /\ rp.destaddr[Size(b)] = 0
      /\ \A i \in 1 .. rp.index : rp.port[i] = At(b, Host(b) + Size(b) + i)
    BY <1>1 DEF PortAt
<1>3. PICK s \in Nat : s = Size(b)
    <2>1. Size(b) \in 1 .. Longest /\ Longest \in Nat
        BY <1>2, ValuesAssumption DEF HostAt, Longest
    <2> QED
        BY <2>1
<1>4. HostAt(rp, b, s)
    BY <1>2, <1>3
<1>5. /\ Host(b) \in {4, 5} /\ Size(b) \in 1 .. Longest
      /\ Longest \in Nat /\ Longest = Values - 1 /\ Values \in Nat
      /\ rp.destaddr \in [0 .. Size(b) -> Byte]
      /\ rp.destaddr_len = (Size(b) + 1) % Values
      /\ rp.index \in Byte /\ rp.port \in [1 .. 2 -> Byte \cup {Unset}]
      /\ rp = [state |-> rp.state, atype |-> rp.atype, index |-> rp.index,
               destaddr_len |-> rp.destaddr_len, destaddr |-> rp.destaddr, port |-> rp.port]
    BY <1>4, HostRoom
<1>6. PICK j \in 0 .. 1, h \in {4, 5} : j = rp.index /\ h = Host(b)
    BY <1>1, <1>5
<1>7. Values > 2 /\ 0 \in Byte
    BY ValuesAssumption DEF Byte
<1>8. Advance(rp.index) = j + 1 /\ j + 1 \in Byte /\ j + 1 \in 1 .. 2
    <2>1. j \in Byte /\ j + 1 < Values /\ j + 1 \in Byte
        BY <1>5, <1>7 DEF Byte
    <2> QED
        BY <1>6, <2>1, AdvanceByte
<1> DEFINE more == [rp.port EXCEPT ![j + 1] = c]
<1>9. more \in [1 .. 2 -> Byte \cup {Unset}]
    BY <1>5
<1>10. \A i \in 1 .. j + 1 : more[i] = At(b, h + s + i)
    <2>1. k + 1 - b = h + s + (j + 1)
        BY <1>1, <1>3, <1>6
    <2>2. more[j + 1] = c
        BY <1>5, <1>8
    <2>3. ASSUME NEW i \in 1 .. j PROVE more[i] = At(b, h + s + i)
        <3>1. i # j + 1 /\ i \in 1 .. 2
            BY <1>6
        <3> QED
            BY <1>2, <1>3, <1>5, <1>6, <3>1
    <2>4. ASSUME NEW i \in 1 .. j + 1 PROVE more[i] = At(b, h + s + i)
        <3>1. CASE i = j + 1
            BY <2>1, <2>2, <3>1
        <3>2. CASE i # j + 1
            <4>1. i \in 1 .. j
                BY <3>2
            <4> QED
                BY <2>3, <4>1
        <3> QED
            BY <3>1, <3>2
    <2> QED
        BY <2>4
<1> HIDE DEF more
<1>11. PICK q : q = RequestByte(rp, c)
    OBVIOUS
<1>12. q = [state |-> IF j + 1 = 2 THEN "end" ELSE "port", atype |-> rp.atype, index |-> j + 1,
            destaddr_len |-> rp.destaddr_len, destaddr |-> rp.destaddr, port |-> more]
    <2>1. q = [rp EXCEPT !.port[rp.index + 1] = c, !.index = j + 1,
                         !.state = IF j + 1 = 2 THEN "end" ELSE rp.state]
        BY <1>8, <1>11 DEF RequestByte
    <2>2. q = [rp EXCEPT !.port = more, !.index = j + 1,
                         !.state = IF j + 1 = 2 THEN "end" ELSE rp.state]
        BY <1>6, <2>1 DEF more
    <2> QED
        BY <1>5, <2>2
<1>13. /\ q.state \in {"destaddr", "port", "end"} /\ q.index \in Byte
       /\ q.atype = rp.atype /\ q.destaddr_len = rp.destaddr_len
       /\ q.destaddr \in [0 .. Size(b) -> Byte] /\ q.port \in [1 .. 2 -> Byte \cup {Unset}]
       /\ q = [state |-> q.state, atype |-> q.atype, index |-> q.index,
               destaddr_len |-> q.destaddr_len, destaddr |-> q.destaddr, port |-> q.port]
       /\ q.destaddr = rp.destaddr /\ q.port = more /\ q.index = j + 1
    BY <1>5, <1>8, <1>9, <1>12
<1>14. HostAt(q, b, s) /\ q \in RequestParsers
    <2>1. HasHost(q.destaddr, b, s)
        BY <1>4, <1>13 DEF HostAt
    <2> QED
        BY <1>4, <1>13, <2>1, HostStays
<1>15. PortAt(q, b, j + 1)
    BY <1>2, <1>3, <1>6, <1>10, <1>13, <1>14 DEF PortAt
<1>16. k + 1 = b + Host(b) + Size(b) + (j + 1)
    BY <1>1, <1>3, <1>6
<1>17. CASE j = 0
    <2>1. q.state = "port" /\ q.index = 1 /\ j + 1 = 1
        BY <1>12, <1>13, <1>17
    <2> QED
        BY <1>11, <1>14, <1>15, <1>16, <2>1 DEF RequestAt
<1>18. CASE j = 1
    <2>1. q.state = "end" /\ j + 1 = 2
        BY <1>12, <1>18
    <2> QED
        BY <1>11, <1>14, <1>15, <1>16, <2>1 DEF RequestAt
<1> QED
    BY <1>6, <1>17, <1>18

LEMMA RequestByteKeeps ==
    ASSUME NEW b \in Nat, NEW k \in Nat, NEW c \in Byte, c = At(b, k + 1 - b),
           NEW rp \in RequestAt(b, k), rp.state \notin {"end", "error"}
    PROVE  RequestByte(rp, c) \in RequestAt(b, k + 1)
<1>1. /\ Values \in Nat /\ Values > 17 /\ c \in Nat /\ c < Values
      /\ Longest = Values - 1 /\ Longest \in Nat
    BY ValuesAssumption DEF Byte, Longest
<1>2. \A state, atype : Early(state, atype).state = state
    BY DEF Early
<1>3. CASE rp = RequestInit /\ k = b
    <2>1. c = At(b, 1) /\ rp = Early("version", 0) /\ k + 1 = b + 1
        BY <1>3 DEF RequestInit, Early
    <2>2. RequestByte(rp, c) = Early(IF c = 5 THEN "command" ELSE "error", 0)
        BY <2>1, EarlyByte
    <2> QED
        BY <2>1, <2>2, EarlyTyped DEF RequestAt
<1>4. CASE rp = Early("command", 0) /\ k = b + 1 /\ At(b, 1) = 5
    <2>1. c = At(b, 2) /\ k + 1 = b + 2
        BY <1>4
    <2>2. RequestByte(rp, c) = Early(IF c = 1 THEN "reserved" ELSE "command_error", 0)
        BY <1>4, EarlyByte
    <2> QED
        BY <1>4, <2>1, <2>2, EarlyTyped DEF RequestAt
<1>5. CASE rp = Early("reserved", 0) /\ k = b + 2 /\ At(b, 1) = 5 /\ At(b, 2) = 1
    <2>1. c = At(b, 3) /\ k + 1 = b + 3
        BY <1>5
    <2>2. RequestByte(rp, c) = Early(IF c = 0 THEN "atype" ELSE "error", 0)
        BY <1>5, EarlyByte
    <2> QED
        BY <1>5, <2>1, <2>2, EarlyTyped DEF RequestAt, Header
<1>6. CASE rp = Early("atype", 0) /\ k = b + 3 /\ Header(b)
    <2>1. c = At(b, 4) /\ k + 1 = b + 4
        BY <1>6
    <2>2. CASE c \notin {IPV4, FQDN, IPV6}
        <3>1. RequestByte(rp, c) = Early("atype_error", 0)
            BY <1>6, <2>2, EarlyByte
        <3> QED
            BY <1>6, <2>1, <2>2, <3>1, EarlyTyped DEF RequestAt
    <2>3. CASE c = FQDN
        <3>1. RequestByte(rp, c) = Early("destaddr_len", FQDN)
            BY <1>6, <2>3, EarlyByte
        <3> QED
            BY <1>6, <2>1, <2>3, <3>1, EarlyTyped DEF RequestAt
    <2>4. CASE c \in {IPV4, IPV6}
        <3>1. RequestByte(rp, c) =
                 [state |-> "destaddr", atype |-> c, index |-> 0,
                  destaddr_len |-> (c * 4 + 1) % Values,
                  destaddr |-> Block(c * 4 + 1), port |-> <<Unset, Unset>>]
            BY <1>6, <2>4, EarlyByte
        <3>2. c # FQDN /\ (c = 1 \/ c = 4)
            BY <2>4 DEF IPV4, IPV6, FQDN
        <3>3. Host(b) = 4 /\ Size(b) = 4 * c
            BY <2>1, <3>2 DEF Host, Size
        <3>4. c * 4 = Size(b) /\ Size(b) \in 1 .. Longest
            BY <1>1, <3>2, <3>3
        <3>5. RequestByte(rp, c) \in RequestAt(b, b + Host(b))
            BY <1>6, <2>1, <2>4, <3>1, <3>4, Room
        <3> QED
            BY <2>1, <3>3, <3>5
    <2> QED
        BY <2>2, <2>3, <2>4
<1>7. CASE rp = Early("destaddr_len", FQDN) /\ k = b + 4 /\ Header(b) /\ At(b, 4) = FQDN
    <2>1. c = At(b, 5) /\ k + 1 = b + 5
        BY <1>7
    <2>2. CASE c = 0
        <3>1. RequestByte(rp, c) = Early("error", FQDN)
            BY <1>7, <2>2, EarlyByte
        <3> QED
            BY <1>7, <2>1, <2>2, <3>1, EarlyTyped DEF RequestAt
    <2>3. CASE c # 0
        <3>1. RequestByte(rp, c) =
                 [state |-> "destaddr", atype |-> FQDN, index |-> 0,
                  destaddr_len |-> (c + 1) % Values,
                  destaddr |-> Block(c + 1), port |-> <<Unset, Unset>>]
            BY <1>7, <2>3, EarlyByte
        <3>2. Host(b) = 5 /\ Size(b) = c
            BY <1>7, <2>1 DEF Host, Size
        <3>3. Size(b) \in 1 .. Longest
            BY <1>1, <2>3, <3>2
        <3>4. RequestByte(rp, c) \in RequestAt(b, b + Host(b))
            BY <1>7, <3>1, <3>2, <3>3, Room
        <3> QED
            BY <2>1, <3>2, <3>4
    <2> QED
        BY <2>2, <2>3
<1>8. CASE rp = Early("command_error", 0) /\ k >= b + 2 /\ At(b, 1) = 5 /\ At(b, 2) # 1
    <2>1. RequestByte(rp, c) = Early("command_error", 0) /\ k + 1 >= b + 2
        BY <1>8, EarlyByte
    <2> QED
        BY <1>8, <2>1, EarlyTyped DEF RequestAt
<1>9. CASE /\ rp = Early("atype_error", 0) /\ k >= b + 4
           /\ Header(b) /\ At(b, 4) \notin {IPV4, FQDN, IPV6}
    <2>1. RequestByte(rp, c) = Early("atype_error", 0) /\ k + 1 >= b + 4
        BY <1>9, EarlyByte
    <2> QED
        BY <1>9, <2>1, EarlyTyped DEF RequestAt
<1>10. CASE rp.state = "destaddr"
    BY <1>10, HostByteKeeps
<1>11. CASE rp.state = "port"
    BY <1>11, PortByteKeeps
<1> QED
    BY <1>2, <1>3, <1>4, <1>5, <1>6, <1>7, <1>8, <1>9, <1>10, <1>11 DEF RequestAt

-----------------------------------------------------------------------------
(* What was stored is what the stream has there, as a C string too.        *)

LEMMA BytesAre ==
    ASSUME stream \in Streams, NEW b \in Nat, NEW first \in Nat \ {0}, NEW n \in Nat,
           b + first + n - 1 <= Len(stream)
    PROVE  /\ Bytes(b, first, n) \in Seq(Byte) /\ Len(Bytes(b, first, n)) = n
           /\ \A i \in 1 .. n : Bytes(b, first, n)[i] = At(b, first + i - 1)
<1>1. stream \in Seq(Byte)
    BY StreamsAssumption DEF Byte
<1> DEFINE from == b + first
<1> DEFINE to == b + first + n - 1
<1>2. from \in Nat /\ to \in Int /\ from >= 1 /\ to <= Len(stream) /\ to + 1 - from = n
    OBVIOUS
<1>3. \A i \in from .. to : i \in 1 .. Len(stream) /\ stream[i] \in Byte
    BY <1>1, <1>2
<1> DEFINE bytes == SubSeq(stream, from, to)
<1>4. /\ bytes \in Seq(Byte) /\ Len(bytes) = IF from <= to THEN to - from + 1 ELSE 0
      /\ \A i \in 1 .. to - from + 1 : bytes[i] = stream[from + i - 1]
    BY <1>2, <1>3, SubSeqProperties
<1>5. Len(bytes) = n /\ to - from + 1 = n
    BY <1>4
<1> HIDE DEF bytes
<1>6. \A i \in 1 .. n : bytes[i] = At(b, first + i - 1)
    <2>1. ASSUME NEW i \in 1 .. n PROVE b + (first + i - 1) = from + i - 1
        OBVIOUS
    <2> QED
        BY <1>4, <1>5, <2>1 DEF At
<1> QED
    BY <1>4, <1>5, <1>6 DEF Bytes, bytes

LEMMA HeldIs ==
    ASSUME stream \in Streams, NEW b \in Nat, NEW first \in Nat \ {0}, NEW n \in Nat,
           b + first + n - 1 <= Len(stream),
           NEW array \in Seq(Byte), Holds(array, n, b, first)
    PROVE  array = Bytes(b, first, n)
<1> DEFINE bytes == Bytes(b, first, n)
<1>1. bytes \in Seq(Byte) /\ Len(bytes) = n /\ \A i \in 1 .. n : bytes[i] = At(b, first + i - 1)
    BY BytesAre
<1>2. Len(array) = n /\ \A i \in 1 .. n : array[i] = At(b, first + i - 1)
    BY DEF Holds
<1> HIDE DEF bytes
<1>3. array = bytes
    BY <1>1, <1>2
<1> QED
    BY <1>3 DEF bytes

LEMMA CStringWhole ==
    ASSUME NEW s, Zeroes(s) = {}
    PROVE  CString(s) = s
BY DEF CString

LEMMA CStringTo ==
    ASSUME NEW s \in Seq(Byte), NEW z \in Zeroes(s), \A j \in Zeroes(s) : z <= j
    PROVE  CString(s) = SubSeq(s, 1, z - 1)
<1>1. Zeroes(s) \subseteq Nat
    BY DEF Zeroes
<1> DEFINE least == CHOOSE i \in Zeroes(s) : \A j \in Zeroes(s) : i <= j
<1>2. least \in Zeroes(s) /\ \A j \in Zeroes(s) : least <= j
    OBVIOUS
<1>3. least = z
    <2>1. least \in Nat /\ z \in Nat /\ least <= z /\ z <= least
        BY <1>1, <1>2
    <2> HIDE DEF least
    <2> QED
        BY <2>1
<1>4. CString(s) = SubSeq(s, 1, least - 1)
    BY DEF CString
<1> HIDE DEF least
<1> QED
    BY <1>3, <1>4

LEMMA LeastZero ==
    ASSUME NEW s \in Seq(Byte), Zeroes(s) # {}
    PROVE  \E z \in Zeroes(s) : z \in 1 .. Len(s) /\ \A j \in Zeroes(s) : z <= j
<1>1. Zeroes(s) \in SUBSET Nat /\ \A j \in Zeroes(s) : j \in 1 .. Len(s)
    BY DEF Zeroes
<1> QED
    BY <1>1, HasLeast

LEMMA SamePrefix ==
    ASSUME NEW s \in Seq(Byte), NEW t \in Seq(Byte), NEW m \in Nat,
           m <= Len(s), m <= Len(t), \A i \in 1 .. m : s[i] = t[i]
    PROVE  SubSeq(s, 1, m) = SubSeq(t, 1, m)
<1>1. SubSeq(s, 1, m) = [i \in 1 .. m |-> s[i]]
    BY SubSeqProperties
<1>2. SubSeq(t, 1, m) = [i \in 1 .. m |-> t[i]]
    BY SubSeqProperties
<1> QED
    BY <1>1, <1>2

(* A string with an end in it is not changed by what lies behind           *)
LEMMA CStringSame ==
    ASSUME NEW s \in Seq(Byte), NEW t \in Seq(Byte), Zeroes(s) # {},
           Len(s) <= Len(t), \A i \in 1 .. Len(s) : s[i] = t[i]
    PROVE  CString(t) = CString(s) /\ Zeroes(t) # {}
<1>1. PICK z \in Zeroes(s) : z \in 1 .. Len(s) /\ \A j \in Zeroes(s) : z <= j
    BY LeastZero
<1>2. z \in Zeroes(t)
    BY <1>1 DEF Zeroes
<1>3. ASSUME NEW j \in Zeroes(t) PROVE z <= j
    <2>1. j \in 1 .. Len(t) /\ t[j] = 0
        BY <1>3 DEF Zeroes
    <2>2. CASE j \in 1 .. Len(s)
        <3>1. j \in Zeroes(s)
            BY <2>1, <2>2 DEF Zeroes
        <3> QED
            BY <1>1, <3>1
    <2>3. CASE j \notin 1 .. Len(s)
        BY <1>1, <2>1, <2>3
    <2> QED
        BY <2>2, <2>3
<1>4. CString(t) = SubSeq(t, 1, z - 1) /\ CString(s) = SubSeq(s, 1, z - 1)
    BY <1>1, <1>2, <1>3, CStringTo
<1>5. PICK m \in Nat : m = z - 1
    BY <1>1
<1>6. m <= Len(s) /\ m <= Len(t) /\ \A i \in 1 .. m : s[i] = t[i]
    BY <1>1, <1>5
<1>7. SubSeq(s, 1, m) = SubSeq(t, 1, m)
    BY <1>6, SamePrefix
<1> QED
    BY <1>2, <1>4, <1>5, <1>7

(* ... and a zero behind a string ends it there, if not before             *)
LEMMA CStringEnded ==
    ASSUME NEW s \in Seq(Byte), NEW t \in Seq(Byte), Len(t) = Len(s) + 1, t[Len(s) + 1] = 0,
           \A i \in 1 .. Len(s) : s[i] = t[i]
    PROVE  CString(t) = CString(s) /\ Zeroes(t) # {}
<1>1. CASE Zeroes(s) # {}
    BY <1>1, CStringSame
<1>2. CASE Zeroes(s) = {}
    <2>1. PICK n \in Nat : n = Len(s)
        OBVIOUS
    <2>2. n + 1 \in Zeroes(t)
        BY <2>1 DEF Zeroes
    <2>3. ASSUME NEW j \in Zeroes(t) PROVE n + 1 <= j
        <3>1. j \in 1 .. n + 1 /\ t[j] = 0
            BY <2>1, <2>3 DEF Zeroes
        <3>2. CASE j \in 1 .. n
            <4>1. j \in Zeroes(s)
                BY <2>1, <3>1, <3>2 DEF Zeroes
            <4> QED
                BY <1>2, <4>1
        <3> QED
            BY <3>1, <3>2
    <2>4. CString(t) = SubSeq(t, 1, n + 1 - 1)
        BY <2>2, <2>3, CStringTo
    <2>5. SubSeq(t, 1, n) = SubSeq(s, 1, n)
        BY <2>1, SamePrefix
    <2>6. SubSeq(s, 1, n) = s
        <3>1. SubSeq(s, 1, n) = [i \in 1 .. n |-> s[i]]
            BY <2>1, SubSeqProperties
        <3> QED
            BY <2>1, <3>1
    <2>7. CString(s) = s /\ n + 1 - 1 = n
        BY <1>2, CStringWhole
    <2> QED
        BY <2>2, <2>4, <2>5, <2>6, <2>7
<1> QED
    BY <1>1, <1>2

(* A string of n bytes without an end goes on behind them                  *)
LEMMA CStringGoesOn ==
    ASSUME NEW s \in Seq(Byte), NEW t \in Seq(Byte), NEW n \in Nat, Len(s) = n, n <= Len(t),
           Zeroes(s) = {}, \A i \in 1 .. n : s[i] = t[i]
    PROVE  Len(CString(t)) >= n
<1>1. CASE Zeroes(t) = {}
    BY <1>1, CStringWhole
<1>2. CASE Zeroes(t) # {}
    <2>1. PICK z \in Zeroes(t) : z \in 1 .. Len(t) /\ \A j \in Zeroes(t) : z <= j
        BY <1>2, LeastZero
    <2>2. z \notin 1 .. n
        <3>1. SUFFICES ASSUME z \in 1 .. n PROVE FALSE
            OBVIOUS
        <3>2. z \in Zeroes(s)
            BY <2>1, <3>1 DEF Zeroes
        <3> QED
            BY <3>2
    <2>3. PICK m \in Nat : m = z - 1 /\ m >= n /\ m <= Len(t)
        BY <2>1, <2>2
    <2>4. CString(t) = SubSeq(t, 1, m)
        BY <2>1, <2>3, CStringTo
    <2>5. Len(SubSeq(t, 1, m)) = m
        BY <2>3, SubSeqProperties
    <2> QED
        BY <2>3, <2>4, <2>5
<1> QED
    BY <1>1, <1>2

(* A login that is an account's is that of the message, byte for byte: a   *)
(* name of the greatest length reads on into the password, but no account  *)
(* has one                                                                 *)
LEMMA LoginAsked ==
    ASSUME stream \in Streams, NEW b \in Nat, NEW hap \in AuthParser,
           PassAt(hap, b, hap.plen), b + 3 + hap.ulen + hap.plen <= Len(stream)
    PROVE  <<UserString(hap), CString(hap.pass)>> \in Accounts
              <=> <<CString(Bytes(b, 3, At(b, 2))),
                    CString(Bytes(b, 4 + At(b, 2), At(b, 3 + At(b, 2))))>> \in Accounts
<1>1. /\ hap.user \in Seq(Byte) /\ hap.pass \in Seq(Byte)
      /\ hap.ulen \in Byte /\ hap.plen \in Byte
    BY DEF AuthParser
<1>2. PICK ulen \in Nat, plen \in Nat : ulen = hap.ulen /\ plen = hap.plen
    BY <1>1, ValuesAssumption DEF Byte
<1>3. PICK user \in Seq(Byte), pass \in Seq(Byte) : user = hap.user /\ pass = hap.pass
    BY <1>1
<1>4. /\ ulen = At(b, 2) /\ plen = At(b, 3 + ulen)
      /\ Holds(user, ulen, b, 3) /\ Holds(pass, plen, b, 4 + ulen)
      /\ b + 3 + ulen + plen <= Len(stream)
    BY <1>2, <1>3 DEF PassAt, UserAt
<1>5. PICK length \in Nat : length = Len(stream)
    BY StreamsAssumption DEF Byte
<1>6. user = Bytes(b, 3, ulen) /\ pass = Bytes(b, 4 + ulen, plen)
    <2>1. PICK one \in Nat \ {0}, two \in Nat \ {0} : one = 3 /\ two = 4 + ulen
        OBVIOUS
    <2>2. b + 3 + ulen + plen <= length
        BY <1>4, <1>5
    <2>3. b + one + ulen - 1 <= length /\ b + two + plen - 1 <= length
        BY <2>1, <2>2
    <2>4. b + one + ulen - 1 <= Len(stream) /\ b + two + plen - 1 <= Len(stream)
        BY <1>5, <2>3
    <2>5. Holds(user, ulen, b, one) /\ Holds(pass, plen, b, two)
        BY <1>4, <2>1
    <2>6. user = Bytes(b, one, ulen) /\ pass = Bytes(b, two, plen)
        BY <2>4, <2>5, HeldIs
    <2> QED
        BY <2>1, <2>6
<1>7. Len(user) = ulen
    BY <1>4 DEF Holds
<1>8. SUFFICES <<UserString(hap), CString(pass)>> \in Accounts
                   <=> <<CString(user), CString(pass)>> \in Accounts
    BY <1>3, <1>4, <1>6
<1>9. CASE Len(user) # Longest
    BY <1>3, <1>9 DEF UserString
<1>10. CASE Len(user) = Longest
    <2> DEFINE both == user \o pass
    <2>1. UserString(hap) = CString(both)
        BY <1>3, <1>10 DEF UserString
    <2>2. /\ both \in Seq(Byte) /\ Len(user) <= Len(both)
          /\ \A i \in 1 .. Len(user) : user[i] = both[i]
        <3>1. PICK m \in Nat : m = Len(pass)
            OBVIOUS
        <3>2. both \in Seq(Byte) /\ Len(both) = ulen + m
            BY <1>7, <3>1, ConcatProperties
        <3>3. \A i \in 1 .. ulen : both[i] = user[i]
            BY <1>7, <3>1, ConcatProperties
        <3> QED
            BY <1>7, <3>2, <3>3
    <2> HIDE DEF both
    <2>3. CASE Zeroes(user) # {}
        BY <2>1, <2>2, <2>3, CStringSame
    <2>4. CASE Zeroes(user) = {}
        <3>1. CString(user) = user
            BY <2>4, CStringWhole
        <3>2. Len(CString(both)) >= ulen
            BY <1>7, <2>2, <2>4, CStringGoesOn
        <3>3. ASSUME NEW name, NEW word, <<name, word>> \in Accounts
              PROVE  Len(name) < Longest
            BY <3>3, AccountsAssumption
        <3>4. <<user, CString(pass)>> \notin Accounts
            <4>1. ~ (Len(user) < Longest)
                BY <1>7, <1>10
            <4> QED
                BY <3>3, <4>1
        <3>5. <<CString(both), CString(pass)>> \notin Accounts
            <4>1. SUFFICES ASSUME Len(CString(both)) < Longest PROVE FALSE
                BY <3>3
            <4>2. PICK n : n = Len(CString(both))
                OBVIOUS
            <4> QED
                BY <1>7, <1>10, <3>2, <4>1, <4>2
        <3> QED
            BY <2>1, <3>1, <3>4, <3>5
    <2> QED
        BY <2>3, <2>4
<1> QED
    BY <1>9, <1>10

-----------------------------------------------------------------------------
(* hello_read takes the best of the methods that were offered.             *)

Offers(methods, n) == {methods[i] : i \in 1 .. n}

LEMMA OffersMore ==
    ASSUME NEW methods \in Seq(Byte), NEW n \in Nat
    PROVE  Offers(methods, n + 1) = Offers(methods, n) \cup {methods[n + 1]}
<1>1. 1 .. n + 1 = (1 .. n) \cup {n + 1}
    OBVIOUS
<1> QED
    BY <1>1 DEF Offers

LEMMA SelectedBest ==
    ASSUME method = -1, NEW methods \in Seq(Byte), NEW n \in Nat, n = Len(methods), n # 0
    PROVE  Selected(methods) = Best(Offers(methods, n))
<1> DEFINE Chosen(f, i) ==
       IF i = 0 THEN method
       ELSE CASE methods[i] = AUTH -> AUTH
              [] methods[i] = NOAUTH -> IF f[i - 1] # AUTH THEN NOAUTH ELSE AUTH
              [] OTHER -> IF f[i - 1] \notin {AUTH, NOAUTH} THEN NOMETHOD ELSE f[i - 1]
<1> DEFINE best == [i \in 0 .. n |-> IF i = 0 THEN method ELSE Best(Offers(methods, i))]
<1>1. AUTH # NOAUTH /\ NOMETHOD # AUTH /\ NOMETHOD # NOAUTH /\ -1 \notin {AUTH, NOAUTH}
    BY ValuesAssumption DEF AUTH, NOAUTH, NOMETHOD, Longest
<1>2. ASSUME NEW i \in 1 .. n
      PROVE  Best(Offers(methods, i)) =
                CASE methods[i] = AUTH -> AUTH
                  [] methods[i] = NOAUTH -> IF best[i - 1] # AUTH THEN NOAUTH ELSE AUTH
                  [] OTHER -> IF best[i - 1] \notin {AUTH, NOAUTH} THEN NOMETHOD ELSE best[i - 1]
    <2>1. PICK m \in 0 .. n : m = i - 1 /\ m \in Nat /\ i = m + 1
        OBVIOUS
    <2>2. Offers(methods, i) = Offers(methods, m) \cup {methods[i]}
        BY <2>1, OffersMore
    <2>3. best[m] = IF m = 0 THEN -1 ELSE Best(Offers(methods, m))
        BY <2>1
    <2>4. m = 0 => Offers(methods, m) = {}
        BY DEF Offers
    <2> HIDE DEF best
    <2>5. CASE m = 0
        BY <1>1, <2>1, <2>2, <2>3, <2>4, <2>5 DEF Best
    <2>6. CASE m # 0
        BY <1>1, <2>1, <2>2, <2>3, <2>6 DEF Best
    <2> QED
        BY <2>5, <2>6
<1>3. best = [i \in 0 .. n |-> Chosen(best, i)]
    <2>1. ASSUME NEW i \in 0 .. n PROVE best[i] = Chosen(best, i)
        <3>1. CASE i = 0
            BY <3>1
        <3>2. CASE i # 0
            <4>1. i \in 1 .. n /\ best[i] = Best(Offers(methods, i))
                BY <3>2
            <4> HIDE DEF best
            <4> QED
                BY <1>2, <3>2, <4>1
        <3> QED
            BY <3>1, <3>2
    <2>2. best = [i \in 0 .. n |-> best[i]]
        OBVIOUS
    <2> HIDE DEF best, Chosen
    <2> QED
        BY <2>1, <2>2
<1> DEFINE f[i \in 0 .. Len(methods)] ==
            IF i = 0 THEN method
            ELSE CASE methods[i] = AUTH -> AUTH
                   [] methods[i] = NOAUTH -> IF f[i - 1] # AUTH THEN NOAUTH ELSE AUTH
                   [] OTHER -> IF f[i - 1] \notin {AUTH, NOAUTH} THEN NOMETHOD
                               ELSE f[i - 1]
<1>4. f = [i \in 0 .. n |-> Chosen(f, i)]
    <2>1. \E g : g = [i \in 0 .. n |-> Chosen(g, i)]
        <3> HIDE DEF Chosen, best
        <3> QED
            BY <1>3
    <2> HIDE DEF best
    <2> QED
        BY <2>1, Zenon
<1>5. Selected(methods) = f[n]
    BY Zenon DEF Selected
<1> HIDE DEF f
<1>6. \A i \in 0 .. n : f[i] = Chosen(f, i)
    <2> HIDE DEF Chosen
    <2> QED
        BY <1>4, Zenon
<1> DEFINE S == {i \in 0 .. n : f[i] = best[i]}
<1>7. 0 \in S
    BY <1>6
<1>8. ASSUME NEW i \in 0 .. n - 1, i \in S PROVE i + 1 \in S
    <2>1. i + 1 \in 0 .. n /\ i + 1 # 0 /\ (i + 1) - 1 = i /\ f[i] = best[i]
        BY <1>8
    <2>2. f[i + 1] = Chosen(f, i + 1) /\ best[i + 1] = Chosen(best, i + 1)
        <3>1. best[i + 1] = Chosen(best, i + 1)
            <4> HIDE DEF Chosen, best
            <4> QED
                BY <1>3, <2>1
        <3> QED
            BY <1>6, <2>1, <3>1
    <2>3. Chosen(f, i + 1) = Chosen(best, i + 1)
        <3> HIDE DEF best
        <3> QED
            BY <2>1
    <2> HIDE DEF Chosen, best
    <2> QED
        BY <2>1, <2>2, <2>3
<1>9. 0 .. n \subseteq S
    <2> HIDE DEF S
    <2> QED
        BY <1>7, <1>8, Climb
<1>10. f[n] = best[n]
    <2> HIDE DEF best
    <2>1. n \in 0 .. n
        OBVIOUS
    <2> QED
        BY <1>9, <2>1
<1>11. best[n] = Best(Offers(methods, n))
    OBVIOUS
<1> HIDE DEF best
<1> QED
    BY <1>5, <1>10, <1>11

-----------------------------------------------------------------------------
(* What a read leaves behind.                                              *)

LEMMA Parsers ==
    ASSUME NEW b \in Nat, NEW k \in Nat
    PROVE  /\ \A p \in HelloAt(b, k) : ParserOK(p)
           /\ \A p \in AuthAt(b, k) : ParserOK(p)
           /\ \A p \in RequestAt(b, k) : ParserOK(p)
<1>1. ASSUME NEW p \in HelloAt(b, k) PROVE ParserOK(p)
    <2>1. p \in HelloParser /\ p.nmethods \in Nat /\ Len(<<>>) = 0
        BY ValuesAssumption DEF HelloAt, HelloParser, Byte
    <2>2. \/ p.methods = <<>>
          \/ \E n \in 0 .. p.nmethods : Len(p.methods) = n
        <3>1. \A n \in 0 .. p.nmethods - 1 : n \in 0 .. p.nmethods
            BY <2>1
        <3>2. p.nmethods \in 0 .. p.nmethods
            BY <2>1
        <3> QED
            BY <3>1, <3>2 DEF HelloAt, MethodsAt, Holds
    <2>3. Len(p.methods) <= p.nmethods
        BY <2>1, <2>2
    <2> QED
        BY <2>1, <2>3 DEF ParserOK
<1>2. ASSUME NEW p \in AuthAt(b, k) PROVE ParserOK(p)
    <2>1. p \in AuthParser /\ p.ulen \in Nat /\ p.plen \in Nat /\ Len(<<>>) = 0
        BY ValuesAssumption DEF AuthAt, AuthParser, Byte
    <2>2. /\ p.ulen \in 0 .. p.ulen /\ p.plen \in 0 .. p.plen
          /\ \A n \in 0 .. p.ulen - 1 : n \in 0 .. p.ulen
          /\ \A n \in 0 .. p.plen - 1 : n \in 0 .. p.plen
        BY <2>1
    <2>3. /\ p.user = <<>> \/ \E n \in 0 .. p.ulen : Len(p.user) = n
          /\ p.pass = <<>> \/ \E n \in 0 .. p.plen : Len(p.pass) = n
        BY <2>2 DEF AuthAt, UserAt, PassAt, Holds
    <2>4. Len(p.user) <= p.ulen /\ Len(p.pass) <= p.plen
        BY <2>1, <2>3
    <2> QED
        BY <2>1, <2>4 DEF ParserOK
<1>3. ASSUME NEW p \in RequestAt(b, k) PROVE ParserOK(p)
    <2>1. PICK room \in 0 .. Values : p \in RequestParser(room)
        BY DEF RequestAt, RequestParsers
    <2>2. ASSUME p.state = "destaddr"
          PROVE  p.index \in DOMAIN p.destaddr
        <3>1. \/ p.index \in 0 .. Size(b) - 1 /\ HostAt(p, b, p.index)
              \/ Size(b) = Longest /\ HostAt(p, b, 0)
            BY <2>2 DEF RequestAt, Early, RequestInit
        <3>2. PICK n \in Nat : HostAt(p, b, n)
            BY <3>1
        <3>3. /\ Size(b) \in 1 .. Longest /\ Longest = Values - 1 /\ Values \in Nat
              /\ p.destaddr \in [0 .. Size(b) -> Byte] /\ p.index \in Byte
            BY <3>2, HostRoom
        <3>4. DOMAIN p.destaddr = 0 .. Size(b)
            BY <3>3
        <3>5. p.index \in 0 .. Size(b)
            BY <3>1, <3>3 DEF Byte
        <3> QED
            BY <3>4, <3>5
    <2> QED
        BY <2>1, <2>2 DEF ParserOK
<1> QED
    BY <1>1, <1>2, <1>3

LEMMA StreamByte ==
    ASSUME stream \in Streams, NEW b \in Nat, NEW k \in Nat, b <= k, k < Len(stream)
    PROVE  stream[k + 1] \in Byte /\ stream[k + 1] = At(b, k + 1 - b)
<1>1. stream \in Seq(Byte)
    BY StreamsAssumption DEF Byte
<1>2. k + 1 \in 1 .. Len(stream) /\ b + (k + 1 - b) = k + 1
    BY <1>1
<1> QED
    BY <1>1, <1>2 DEF At

Left(last) ==
    /\ Consume(last).at \in parsed .. last
    /\ Stopped(Consume(last)) \/ Consume(last).at = last

(* However recv() cut the stream, the parser of the state is then the one  *)
(* of the bytes since `begin`, and it has stopped or wants more            *)
LEMMA Consumed ==
    ASSUME stream \in Streams, begin \in Nat, parsed \in Nat, begin <= parsed,
           NEW last \in Nat, parsed <= last, last <= Len(stream)
    PROVE  /\ st = "HELLO" /\ parser \in HelloAt(begin, parsed) =>
                 Consume(last).p \in HelloAt(begin, Consume(last).at) /\ Left(last)
           /\ st = "HELLO_AUTH" /\ parser \in AuthAt(begin, parsed) =>
                 Consume(last).p \in AuthAt(begin, Consume(last).at) /\ Left(last)
           /\ st = "REQUEST_READING" /\ parser \in RequestAt(begin, parsed) =>
                 Consume(last).p \in RequestAt(begin, Consume(last).at) /\ Left(last)
<1>1. \A k \in parsed .. last - 1 : k \in Nat /\ begin <= k /\ k < Len(stream)
    <2>1. PICK length \in Nat : length = Len(stream)
        BY StreamsAssumption DEF Byte
    <2>2. \A k \in parsed .. last - 1 : k \in Nat /\ begin <= k /\ k < length
        BY <2>1
    <2> QED
        BY <2>1, <2>2
<1>2. \A k \in parsed .. last - 1 :
         stream[k + 1] \in Byte /\ stream[k + 1] = At(begin, k + 1 - begin)
    BY <1>1, StreamByte
<1>3. ASSUME st = "HELLO", parser \in HelloAt(begin, parsed)
      PROVE  Consume(last).p \in HelloAt(begin, Consume(last).at) /\ Left(last)
    <2> DEFINE P == [k \in parsed .. last + 1 |-> HelloAt(begin, k)]
    <2>1. ASSUME NEW k \in parsed .. last - 1, NEW p \in P[k], p.state \notin {"end", "error"}
          PROVE  ConsumeByte(p, stream[k + 1]) \in P[k + 1]
        <3>1. HelloByte(p, stream[k + 1]) \in HelloAt(begin, k + 1)
            BY <1>1, <1>2, <2>1, HelloByteKeeps
        <3> QED
            BY <1>1, <1>3, <3>1 DEF ConsumeByte
    <2>2. parser \in P[parsed] /\ \A k \in parsed .. last : P[k] = HelloAt(begin, k)
        BY <1>3
    <2> HIDE DEF P
    <2>3. Left(last) /\ Consume(last).p \in P[Consume(last).at]
        BY <2>1, <2>2, ConsumeIn DEF Left
    <2>4. Consume(last).at \in parsed .. last
        BY <2>3 DEF Left
    <2> QED
        BY <2>2, <2>3, <2>4
<1>4. ASSUME st = "HELLO_AUTH", parser \in AuthAt(begin, parsed)
      PROVE  Consume(last).p \in AuthAt(begin, Consume(last).at) /\ Left(last)
    <2> DEFINE P == [k \in parsed .. last + 1 |-> AuthAt(begin, k)]
    <2>1. ASSUME NEW k \in parsed .. last - 1, NEW p \in P[k], p.state \notin {"end", "error"}
          PROVE  ConsumeByte(p, stream[k + 1]) \in P[k + 1]
        <3>1. AuthByte(p, stream[k + 1]) \in AuthAt(begin, k + 1)
            BY <1>1, <1>2, <2>1, AuthByteKeeps
        <3> QED
            BY <1>1, <1>4, <3>1 DEF ConsumeByte
    <2>2. parser \in P[parsed] /\ \A k \in parsed .. last : P[k] = AuthAt(begin, k)
        BY <1>4
    <2> HIDE DEF P
    <2>3. Left(last) /\ Consume(last).p \in P[Consume(last).at]
        BY <2>1, <2>2, ConsumeIn DEF Left
    <2>4. Consume(last).at \in parsed .. last
        BY <2>3 DEF Left
    <2> QED
        BY <2>2, <2>3, <2>4
<1>5. ASSUME st = "REQUEST_READING", parser \in RequestAt(begin, parsed)
      PROVE  Consume(last).p \in RequestAt(begin, Consume(last).at) /\ Left(last)
    <2> DEFINE P == [k \in parsed .. last + 1 |-> RequestAt(begin, k)]
    <2>1. ASSUME NEW k \in parsed .. last - 1, NEW p \in P[k], p.state \notin {"end", "error"}
          PROVE  ConsumeByte(p, stream[k + 1]) \in P[k + 1]
        <3>1. RequestByte(p, stream[k + 1]) \in RequestAt(begin, k + 1)
            BY <1>1, <1>2, <2>1, RequestByteKeeps
        <3> QED
            BY <1>1, <1>5, <3>1 DEF ConsumeByte
    <2>2. parser \in P[parsed] /\ \A k \in parsed .. last : P[k] = RequestAt(begin, k)
        BY <1>5
    <2> HIDE DEF P
    <2>3. Left(last) /\ Consume(last).p \in P[Consume(last).at]
        BY <2>1, <2>2, ConsumeIn DEF Left
    <2>4. Consume(last).at \in parsed .. last
        BY <2>3 DEF Left
    <2> QED
        BY <2>2, <2>3, <2>4
<1> QED
    BY <1>3, <1>4, <1>5

-----------------------------------------------------------------------------
(* The invariant.                                                          *)

LEMMA HelloStays ==
    ASSUME stream' = stream, memory' = memory, NEW p, p = parser', p \in HelloAt(begin', parsed')
    PROVE  (parser \in HelloAt(begin, parsed))'
BY DEF HelloAt, MethodsAt, Holds, At

LEMMA AuthStays ==
    ASSUME stream' = stream, NEW p, p = parser', p \in AuthAt(begin', parsed')
    PROVE  (parser \in AuthAt(begin, parsed))'
BY DEF AuthAt, UserAt, PassAt, Holds, At

(* The three indices of the stream are in their order                      *)
LEMMA InOrder ==
    ASSUME TypeOK
    PROVE  /\ stream \in Streams /\ Len(stream) \in Nat
           /\ begin \in Nat /\ parsed \in Nat /\ pos \in Nat
           /\ begin <= parsed /\ parsed <= pos /\ pos <= Len(stream)
<1>1. PICK length \in Nat : length = Len(stream)
    BY StreamsAssumption DEF Byte, TypeOK
<1>2. pos \in 0 .. length /\ parsed \in 0 .. pos /\ begin \in 0 .. parsed
    BY <1>1 DEF TypeOK
<1> QED
    BY <1>1, <1>2 DEF TypeOK

LEMMA FirstParsers ==
    ASSUME NEW b \in Nat
    PROVE  /\ HelloInit \in HelloAt(b, b) /\ AuthInit \in AuthAt(b, b)
           /\ RequestInit \in RequestAt(b, b)
           /\ ParserOK(HelloInit) /\ ParserOK(AuthInit) /\ ParserOK(RequestInit)
<1>1. 0 \in Byte /\ <<>> \in Seq(Byte)
    BY ValuesAssumption DEF Byte
<1>2. HelloInit \in HelloAt(b, b) /\ HelloInit \in HelloParser
    BY <1>1 DEF HelloInit, HelloAt, HelloParser
<1>3. AuthInit \in AuthAt(b, b)
    BY <1>1 DEF AuthInit, AuthAt, AuthParser
<1>4. RequestInit \in RequestAt(b, b)
    <2>1. RequestInit = Early("version", 0)
        BY DEF RequestInit, Early
    <2>2. Early("version", 0) \in RequestParsers
        BY EarlyTyped
    <2> QED
        BY <2>1, <2>2 DEF RequestAt
<1> QED
    BY <1>2, <1>3, <1>4, Parsers

LEMMA InvInit == Init => IInv
<1> SUFFICES ASSUME Init PROVE IInv
    OBVIOUS
<1>1. PICK length \in Nat : length = Len(stream)
    BY StreamsAssumption DEF Init, Byte
<1>2. 0 \in 0 .. length /\ 0 \in 0 .. 0 /\ 0 \in Nat
    OBVIOUS
<1>3. HelloInit \in HelloAt(0, 0) /\ ParserOK(HelloInit)
    BY <1>2, FirstParsers
<1>4. TypeOK
    BY <1>1, <1>2, <1>3 DEF Init, TypeOK
<1> QED
    BY <1>3, <1>4 DEF Init, IInv, Awaits, HelloInit

(* What a read of n bytes in a state leaves: the facts of Consumed         *)
LEMMA ReadsOn ==
    ASSUME IInv, NEW n \in Nat, pos + n <= Len(stream)
    PROVE  /\ st = "HELLO" =>
                 Consume(pos + n).p \in HelloAt(begin, Consume(pos + n).at) /\ Left(pos + n)
           /\ st = "HELLO_AUTH" =>
                 Consume(pos + n).p \in AuthAt(begin, Consume(pos + n).at) /\ Left(pos + n)
           /\ st = "REQUEST_READING" =>
                 Consume(pos + n).p \in RequestAt(begin, Consume(pos + n).at) /\ Left(pos + n)
<1>1. /\ stream \in Streams /\ begin \in Nat /\ parsed \in Nat /\ pos \in Nat
      /\ begin <= parsed /\ parsed <= pos
    BY InOrder DEF IInv
<1>2. pos + n \in Nat /\ parsed <= pos + n
    BY <1>1
<1>3. st = "REQUEST_READING" => parser \in RequestAt(begin, parsed)
    BY <1>1, FirstParsers DEF IInv
<1> QED
    BY <1>1, <1>2, <1>3, Consumed DEF IInv

(* The indices after such a read                                           *)
LEMMA IndicesKeep ==
    ASSUME TypeOK, NEW n \in Nat, pos + n <= Len(stream), Left(pos + n),
           NEW at, at = Consume(pos + n).at
    PROVE  /\ pos + n \in 0 .. Len(stream) /\ at \in 0 .. pos + n
           /\ begin \in 0 .. at /\ at \in Nat /\ at \in 0 .. at
<1>1. PICK length \in Nat : length = Len(stream)
    BY InOrder
<1>2. begin \in Nat /\ parsed \in Nat /\ pos \in Nat /\ begin <= parsed
    BY InOrder
<1>3. at \in parsed .. pos + n
    BY DEF Left
<1>4. pos + n \in 0 .. length
    BY <1>1, <1>2
<1> QED
    BY <1>1, <1>2, <1>3, <1>4

LEMMA MinusOne == (-1) % Values = NOMETHOD
<1>1. Values \in Nat /\ Values > 17
    BY ValuesAssumption
<1>2. -1 = Values * (-1) + (Values - 1)
    BY <1>1
<1> QED
    BY <1>1, <1>2 DEF NOMETHOD, Longest

(* The methods that were stored are those of the message                   *)
LEMMA Offered ==
    ASSUME NEW b \in Nat, NEW hp \in HelloParser, MethodsAt(hp, b, hp.nmethods)
    PROVE  /\ hp.nmethods \in Nat /\ hp.nmethods # 0 /\ Len(hp.methods) = hp.nmethods
           /\ Offers(hp.methods, hp.nmethods) = {At(b, 2 + i) : i \in 1 .. At(b, 2)}
<1>1. PICK n \in Nat : n = hp.nmethods
    BY ValuesAssumption DEF HelloParser, Byte
<1>2. /\ n # 0 /\ n = At(b, 2) /\ Len(hp.methods) = n
      /\ \A i \in 1 .. n : hp.methods[i] = At(b, 3 + i - 1)
    BY <1>1 DEF MethodsAt, Holds
<1>3. \A i \in 1 .. n : 3 + i - 1 = 2 + i
    OBVIOUS
<1>4. \A i \in 1 .. n : hp.methods[i] = At(b, 2 + i)
    BY <1>2, <1>3
<1>5. Offers(hp.methods, n) = {At(b, 2 + i) : i \in 1 .. n}
    BY <1>4 DEF Offers
<1> QED
    BY <1>1, <1>2, <1>5

(* What hello_read answers, and when                                       *)
LEMMA HelloAnswered ==
    ASSUME IInv, NEW n \in Nat, pos + n <= Len(stream), Awaits("HELLO"),
           NEW p, NEW at, p = Consume(pos + n).p, at = Consume(pos + n).at
    PROVE  /\ p.state = "end" => /\ Selected(p.methods) = HelloMessage(begin).reply
                                 /\ at = HelloMessage(begin).stop
                                 /\ Selected(p.methods) \in {AUTH, NOAUTH, NOMETHOD}
           /\ p.state = "error" => /\ method % Values = HelloMessage(begin).reply
                                   /\ at = HelloMessage(begin).stop
                                   /\ method % Values = NOMETHOD
<1>1. p \in HelloAt(begin, at) /\ begin \in Nat /\ method = -1
    BY ReadsOn, InOrder DEF IInv, Awaits
<1>2. p \in HelloParser /\ p.methods \in Seq(Byte)
    BY <1>1 DEF HelloAt, HelloParser
<1>3. CASE p.state = "end"
    <2>1. at = begin + 2 + p.nmethods /\ MethodsAt(p, begin, p.nmethods)
        BY <1>1, <1>3 DEF HelloAt
    <2>2. PICK m \in Nat : m = p.nmethods /\ m # 0 /\ Len(p.methods) = m
        BY <1>1, <1>2, <2>1, Offered
    <2>3. Offers(p.methods, m) = {At(begin, 2 + i) : i \in 1 .. At(begin, 2)}
        BY <1>1, <1>2, <2>1, <2>2, Offered
    <2>4. Selected(p.methods) = Best(Offers(p.methods, m))
        BY <1>1, <1>2, <2>2, SelectedBest
    <2>5. At(begin, 1) = 5 /\ At(begin, 2) # 0 /\ At(begin, 2) = m /\ memory
        BY <2>1, <2>2 DEF MethodsAt
    <2>6. /\ HelloMessage(begin).stop = begin + 2 + At(begin, 2)
          /\ HelloMessage(begin).reply = Best({At(begin, 2 + i) : i \in 1 .. At(begin, 2)})
        BY <2>5 DEF HelloMessage
    <2> QED
        BY <1>3, <2>1, <2>2, <2>3, <2>4, <2>5, <2>6 DEF Best
<1>4. CASE p.state = "error"
    <2>1. \/ at = begin + 1 /\ At(begin, 1) # 5
          \/ at = begin + 2 /\ At(begin, 1) = 5 /\ (At(begin, 2) = 0 \/ ~ memory)
        BY <1>1, <1>4 DEF HelloAt
    <2>2. at = HelloMessage(begin).stop /\ HelloMessage(begin).reply = NOMETHOD
        BY <2>1 DEF HelloMessage
    <2> QED
        BY <1>1, <1>4, <2>2, MinusOne
<1> QED
    BY <1>3, <1>4

LEMMA HelloReadKeeps ==
    ASSUME IInv, HelloRead PROVE IInv'
<1>1. PICK n \in Chunks :
         /\ Receives("HELLO", n)
         /\ LET read == Consume(pos + n)
            IN  /\ parser' = read.p
                /\ parsed' = read.at
                /\ CASE read.p.state = "end" ->
                         /\ method' = Selected(read.p.methods)
                         /\ Answers(method')
                     [] read.p.state = "error" ->
                         /\ Answers(method % Values)
                         /\ method' = NOMETHOD
                     [] OTHER -> UNCHANGED <<method, reply, writing>>
         /\ UNCHANGED <<stream, memory, begin, st, status, target>>
    BY DEF HelloRead
<1>2. n \in Nat /\ Awaits("HELLO") /\ st = "HELLO" /\ pos + n <= Len(stream) /\ pos' = pos + n
    BY <1>1, ChunksAssumption DEF Receives, Awaits
<1>3. PICK p, at : p = Consume(pos + n).p /\ at = Consume(pos + n).at
    OBVIOUS
<1>4. p \in HelloAt(begin, at) /\ Left(pos + n)
    BY <1>2, <1>3, ReadsOn
<1>5. /\ pos + n \in 0 .. Len(stream) /\ at \in 0 .. pos + n /\ begin \in 0 .. at
      /\ at \in Nat /\ begin \in Nat
    BY <1>2, <1>3, <1>4, IndicesKeep, InOrder DEF IInv
<1>6. ParserOK(p)
    BY <1>4, <1>5, Parsers
<1>7. parser' = p /\ parsed' = at /\ UNCHANGED <<stream, memory, begin, st, status, target>>
    BY <1>1, <1>3
<1>8. (parser \in HelloAt(begin, parsed))'
    BY <1>4, <1>7, HelloStays
<1>9. \/ /\ writing' = TRUE
         /\ method' \in {AUTH, NOAUTH, NOMETHOD} /\ reply' \in {AUTH, NOAUTH, NOMETHOD}
      \/ /\ p.state \notin {"end", "error"}
         /\ UNCHANGED <<method, reply, writing>>
    <2>1. CASE p.state = "end"
        BY <1>1, <1>2, <1>3, <2>1, HelloAnswered DEF Answers
    <2>2. CASE p.state = "error"
        BY <1>1, <1>2, <1>3, <2>2, HelloAnswered DEF Answers
    <2>3. CASE p.state \notin {"end", "error"}
        BY <1>1, <1>3, <2>3
    <2> QED
        BY <2>1, <2>2, <2>3
<1>10. TypeOK'
    BY <1>2, <1>5, <1>6, <1>7, <1>9 DEF IInv, TypeOK
<1> QED
    BY <1>2, <1>7, <1>8, <1>9, <1>10 DEF IInv, Awaits

LEMMA EnterKeeps ==
    ASSUME IInv, NEW state, NEW p, Enter(state, p),
           \/ state = "HELLO_AUTH" /\ p = AuthInit /\ status = 0
           \/ state = "REQUEST_READING" /\ p = RequestInit /\ status = 0
    PROVE  IInv'
<1>1. parsed \in Nat /\ parsed \in 0 .. parsed
    BY InOrder DEF IInv
<1>2. p \in {AuthInit, RequestInit} /\ ParserOK(p)
    BY <1>1, FirstParsers
<1>3. TypeOK'
    BY <1>1, <1>2 DEF Enter, IInv, TypeOK
<1>4. state = "HELLO_AUTH" => (parser \in AuthAt(begin, parsed))'
    <2>1. AuthInit \in AuthAt(parsed, parsed)
        BY <1>1, FirstParsers
    <2>2. ASSUME state = "HELLO_AUTH" PROVE parser' \in AuthAt(begin', parsed')
        BY <2>1, <2>2 DEF Enter
    <2>3. stream' = stream
        BY DEF Enter
    <2> QED
        BY <2>2, <2>3, AuthStays
<1> QED
    BY <1>3, <1>4 DEF Enter, IInv, Awaits, AuthInit

LEMMA EndsKeeps ==
    ASSUME IInv, Ends PROVE IInv'
<1>1. TypeOK'
    BY DEF Ends, IInv, TypeOK
<1> QED
    BY <1>1 DEF Ends, IInv, Awaits

LEMMA HelloWriteKeeps ==
    ASSUME IInv, HelloWrite PROVE IInv'
BY EnterKeeps, EndsKeeps DEF HelloWrite, IInv

LEMMA HelloAuthWriteKeeps ==
    ASSUME IInv, HelloAuthWrite PROVE IInv'
BY EnterKeeps, EndsKeeps DEF HelloAuthWrite

(* What hello_auth_read answers, and when                                  *)
LEMMA LoginAnswered ==
    ASSUME IInv, NEW n \in Nat, pos + n <= Len(stream), Awaits("HELLO_AUTH"),
           NEW p, NEW at, p = Consume(pos + n).p, at = Consume(pos + n).at
    PROVE  /\ p.state = "end" =>
                 /\ at = Login(begin).stop
                 /\ Login(begin).reply =
                       IF <<UserString(p), CString(p.pass)>> \in Accounts THEN 0 ELSE 1
           /\ p.state = "error" => at = Login(begin).stop /\ Login(begin).reply = status
<1>1. p \in AuthAt(begin, at) /\ begin \in Nat /\ Left(pos + n) /\ stream \in Streams
    BY ReadsOn, InOrder DEF IInv, Awaits
<1>2. p \in AuthParser
    BY <1>1 DEF AuthAt
<1>3. CASE p.state = "end"
    <2>1. at = begin + 3 + p.ulen + p.plen /\ PassAt(p, begin, p.plen)
        BY <1>1, <1>3 DEF AuthAt
    <2>2. at <= Len(stream)
        <3>1. PICK length \in Nat : length = Len(stream)
            BY InOrder DEF IInv
        <3>2. at \in parsed .. pos + n /\ pos \in Nat /\ parsed \in Nat
            BY <1>1, InOrder DEF Left, IInv
        <3> QED
            BY <3>1, <3>2
    <2>3. /\ At(begin, 1) = 1 /\ At(begin, 2) # 0 /\ p.ulen = At(begin, 2)
          /\ At(begin, 3 + p.ulen) # 0 /\ p.plen = At(begin, 3 + p.ulen)
        BY <2>1 DEF PassAt, UserAt
    <2>4. <<UserString(p), CString(p.pass)>> \in Accounts
            <=> <<CString(Bytes(begin, 3, At(begin, 2))),
                  CString(Bytes(begin, 4 + At(begin, 2), At(begin, 3 + At(begin, 2))))>> \in Accounts
        BY <1>1, <1>2, <2>1, <2>2, LoginAsked
    <2>5. /\ Login(begin).stop = begin + 3 + At(begin, 2) + At(begin, 3 + At(begin, 2))
          /\ Login(begin).reply =
                IF <<CString(Bytes(begin, 3, At(begin, 2))),
                     CString(Bytes(begin, 4 + At(begin, 2), At(begin, 3 + At(begin, 2))))>> \in Accounts
                THEN 0 ELSE 1
        BY <2>3 DEF Login
    <2> QED
        BY <1>3, <2>1, <2>3, <2>4, <2>5
<1>4. CASE p.state = "error"
    <2>1. \/ at = begin + 1 /\ At(begin, 1) # 1
          \/ at = begin + 2 /\ At(begin, 1) = 1 /\ At(begin, 2) = 0
          \/ /\ at = begin + 3 + p.ulen /\ UserAt(p, begin, p.ulen)
             /\ At(begin, 3 + p.ulen) = 0
        BY <1>1, <1>4 DEF AuthAt
    <2>2. at = Login(begin).stop /\ Login(begin).reply = status
        BY <2>1 DEF Login, UserAt
    <2> QED
        BY <1>4, <2>2
<1> QED
    BY <1>3, <1>4

LEMMA HelloAuthReadKeeps ==
    ASSUME IInv, HelloAuthRead PROVE IInv'
<1>1. PICK n \in Chunks :
         /\ Receives("HELLO_AUTH", n)
         /\ LET read == Consume(pos + n)
                login == <<UserString(read.p), CString(read.p.pass)>>
            IN  /\ parser' = read.p
                /\ parsed' = read.at
                /\ status' = IF read.p.state = "end" /\ login \notin Accounts THEN 1 ELSE status
                /\ IF read.p.state \in {"end", "error"} THEN Answers(status')
                   ELSE UNCHANGED <<reply, writing>>
         /\ UNCHANGED <<stream, memory, begin, st, method, target>>
    BY DEF HelloAuthRead
<1>2. /\ n \in Nat /\ st = "HELLO_AUTH" /\ ~ writing
      /\ pos + n <= Len(stream) /\ pos' = pos + n
    BY <1>1, ChunksAssumption DEF Receives
<1>3. PICK p, at : p = Consume(pos + n).p /\ at = Consume(pos + n).at
    OBVIOUS
<1>4. p \in AuthAt(begin, at) /\ Left(pos + n)
    BY <1>2, <1>3, ReadsOn
<1>5. /\ pos + n \in 0 .. Len(stream) /\ at \in 0 .. pos + n /\ begin \in 0 .. at
      /\ at \in Nat /\ begin \in Nat
    BY <1>2, <1>3, <1>4, IndicesKeep, InOrder DEF IInv
<1>6. ParserOK(p)
    BY <1>4, <1>5, Parsers
<1>7. parser' = p /\ parsed' = at /\ UNCHANGED <<stream, memory, begin, st, method, target>>
    BY <1>1, <1>3
<1>8. (parser \in AuthAt(begin, parsed))'
    BY <1>4, <1>7, AuthStays
<1>9. /\ status' \in {0, 1}
      /\ \/ writing' = TRUE /\ reply' \in {0, 1}
         \/ /\ p.state \notin {"end", "error"}
            /\ UNCHANGED <<reply, writing, status>>
    BY <1>1, <1>2, <1>3 DEF Answers, IInv, TypeOK
<1>10. TypeOK'
    BY <1>2, <1>5, <1>6, <1>7, <1>9 DEF IInv, TypeOK, NOAUTH
<1> QED
    BY <1>2, <1>7, <1>8, <1>9, <1>10 DEF IInv, Awaits

-----------------------------------------------------------------------------
(* The request.                                                            *)

LEMMA Types ==
    /\ IPV4 \in Byte /\ FQDN \in Byte /\ IPV6 \in Byte
    /\ Longest = Values - 1 /\ Values \in Nat /\ Values > 17
BY ValuesAssumption DEF IPV4, FQDN, IPV6, Byte, Longest

(* Where the host of an address type ends                                  *)
LEMMA Sizes ==
    ASSUME NEW b \in Nat, At(b, 4) \in {IPV4, FQDN, IPV6}
    PROVE  /\ At(b, 4) = FQDN => Host(b) = 5 /\ Size(b) = At(b, 5)
           /\ At(b, 4) # FQDN => Host(b) = 4 /\ Size(b) = 4 * At(b, 4) /\ Size(b) \in {4, 16}
BY DEF Host, Size, IPV4, FQDN, IPV6

(* A parser that a read left at a request to be served has read it all     *)
LEMMA ServedEnds ==
    ASSUME NEW b \in Nat, NEW k \in Nat, NEW last \in Nat, k <= last,
           NEW p \in RequestAt(b, k), p.state \in {"end", "error"} \/ k = last,
           Served(b, last)
    PROVE  /\ p.state = "end" /\ PortAt(p, b, 2) /\ k = b + Host(b) + Size(b) + 2
           /\ Size(b) \in Nat
<1>1. /\ last >= b + 5 /\ Header(b) /\ At(b, 4) \in {IPV4, FQDN, IPV6}
      /\ At(b, 1) = 5 /\ At(b, 2) = 1 /\ At(b, 3) = 0
    BY DEF Served, Header
<1>2. Size(b) \in Nat /\ Host(b) \in {4, 5} /\ Size(b) \in 1 .. Longest - 1
    <2>1. CASE At(b, 4) = FQDN
        <3>1. Host(b) = 5 /\ Size(b) = At(b, 5)
            BY <1>1, <2>1, Sizes
        <3>2. At(b, 5) \in 1 .. Longest - 1
            BY <2>1 DEF Served, FQDN, IPV4, IPV6
        <3> QED
            BY <3>1, <3>2, Types
    <2>2. CASE At(b, 4) # FQDN
        <3>1. Host(b) = 4 /\ Size(b) \in {4, 16}
            BY <1>1, <2>2, Sizes
        <3> QED
            BY <3>1, Types
    <2> QED
        BY <2>1, <2>2
<1>3. last >= b + Host(b) + Size(b) + 2
    BY <1>1, Sizes, Types DEF Served, FQDN, IPV4, IPV6
<1>4. PICK host \in Nat, size \in Nat : host = Host(b) /\ size = Size(b)
    BY <1>2
<1>5. last >= b + host + size + 2 /\ host >= 4 /\ size # Longest
    BY <1>2, <1>3, <1>4, Types
<1>6. CASE p.state = "end"
    BY <1>2, <1>6 DEF RequestAt, Early, RequestInit
<1>7. CASE p.state # "end"
    <2>1. SUFFICES ASSUME p.state \notin {"error", "end"}, k = last PROVE FALSE
        <3>1. p.state # "error"
            <4>1. ~ (At(b, 4) = FQDN /\ At(b, 5) = 0)
                BY DEF Served, FQDN, IPV4, IPV6
            <4> QED
                BY <1>1, <4>1 DEF RequestAt, Early, RequestInit
        <3> QED
            BY <1>7, <3>1, <2>1
    <2>2. \/ k \in {b, b + 1, b + 2, b + 3, b + 4}
          \/ \E i \in 0 .. size - 1 : k = b + host + i
          \/ \E i \in 0 .. 1 : k = b + host + size + i
        BY <1>1, <1>4, <1>5, <2>1 DEF RequestAt, Early, RequestInit
    <2>3. k >= b + 5
        BY <1>1, <2>1
    <2> QED
        BY <1>5, <2>1, <2>2, <2>3
<1> QED
    BY <1>6, <1>7

(* The name that the resolver is given                                     *)
LEMMA CellsAre ==
    ASSUME NEW n \in Nat, NEW block \in BlockOf(n)
    PROVE  /\ Cells(block) \in Seq(Byte) /\ Len(Cells(block)) = n
           /\ \A i \in 1 .. n : Cells(block)[i] = block[i - 1]
<1>1. DOMAIN block = 0 .. n - 1
    BY DEF BlockOf
<1>2. Cardinality(DOMAIN block) = n
    <2>1. Cardinality(0 .. n - 1) = IF 0 > n - 1 THEN 0 ELSE n - 1 - 0 + 1
        BY FS_Interval
    <2> QED
        BY <1>1, <2>1
<1>3. Cells(block) = [i \in 1 .. n |-> block[i - 1]]
    BY <1>2 DEF Cells
<1>4. \A i \in 1 .. n : i - 1 \in 0 .. n - 1
    OBVIOUS
<1>5. \A i \in 1 .. n : block[i - 1] \in Byte
    BY <1>4 DEF BlockOf
<1>6. Cells(block) \in [1 .. n -> Byte]
    BY <1>3, <1>5
<1>7. Cells(block) \in Seq(Byte)
    BY <1>6
<1>8. Len(Cells(block)) = n
    BY <1>6, <1>7
<1> QED
    BY <1>3, <1>7, <1>8

(* The host and the port of a whole request are those of the message: the  *)
(* zero behind a name is its end                                           *)
LEMMA TargetIs ==
    ASSUME stream \in Streams, NEW b \in Nat, NEW p, PortAt(p, b, 2), Size(b) \in Nat,
           b + Host(b) + Size(b) + 2 <= Len(stream)
    PROVE  /\ Target(p) = Asked(b).target
           /\ Asked(b).stop = b + Host(b) + Size(b) + 2
<1>1. HostAt(p, b, Size(b)) /\ Size(b) < Longest /\ p.destaddr[Size(b)] = 0
      /\ \A i \in 1 .. 2 : p.port[i] = At(b, Host(b) + Size(b) + i)
    BY DEF PortAt
<1>2. /\ At(b, 4) \in {IPV4, FQDN, IPV6} /\ p.atype = At(b, 4)
      /\ p \in RequestParser(Size(b) + 1) /\ Size(b) \in 1 .. Longest
      /\ HasHost(p.destaddr, b, Size(b))
    BY <1>1 DEF HostAt
<1>3. PICK h \in {4, 5}, n \in Nat \ {0} : h = Host(b) /\ n = Size(b)
    BY <1>1, <1>2, HostRoom
<1>4. n + 1 \in 1 .. Values /\ n < Longest /\ h \in Nat
    <2>1. n < Longest
        BY <1>1, <1>3
    <2> QED
        BY <2>1, Types
<1>5. p.destaddr \in BlockOf(n + 1) /\ p.port \in [1 .. 2 -> Byte \cup {Unset}]
    BY <1>2, <1>3, <1>4 DEF RequestParser
<1>6. PICK block : block = p.destaddr
    OBVIOUS
<1>7. PICK cells \in Seq(Byte) : cells = Cells(block)
    BY <1>4, <1>5, <1>6, CellsAre
<1>8. PICK length \in Nat : length = Len(stream)
    BY StreamsAssumption DEF Byte
<1>9. b + h + n + 2 <= length
    BY <1>3, <1>8
<1>10. PICK host \in Seq(Byte) :
          /\ host = Bytes(b, h + 1, n) /\ Len(host) = n
          /\ \A i \in 1 .. n : host[i] = At(b, h + i)
    <2>1. PICK from \in Nat \ {0} : from = h + 1
        BY <1>4
    <2>2. b + from + n - 1 <= length
        BY <1>4, <1>9, <2>1
    <2>3. b + from + n - 1 <= Len(stream)
        BY <1>8, <2>2
    <2>4. /\ Bytes(b, from, n) \in Seq(Byte) /\ Len(Bytes(b, from, n)) = n
          /\ \A i \in 1 .. n : Bytes(b, from, n)[i] = At(b, from + i - 1)
        BY <2>3, BytesAre
    <2>5. \A i \in 1 .. n : from + i - 1 = h + i
        BY <1>4, <2>1
    <2> QED
        BY <2>1, <2>4, <2>5
<1>11. Len(cells) = n + 1 /\ cells[n + 1] = 0 /\ \A i \in 1 .. n : host[i] = cells[i]
    <2>1. Len(cells) = n + 1 /\ \A i \in 1 .. n + 1 : cells[i] = block[i - 1]
        BY <1>4, <1>5, <1>6, <1>7, CellsAre
    <2>2. \A i \in 0 .. n - 1 : block[i] = At(b, h + 1 + i)
        BY <1>2, <1>3, <1>6 DEF HasHost
    <2>3. \A i \in 1 .. n : i - 1 \in 0 .. n - 1 /\ h + 1 + (i - 1) = h + i /\ i \in 1 .. n + 1
        BY <1>4
    <2>4. \A i \in 1 .. n : cells[i] = At(b, h + i)
        BY <2>1, <2>2, <2>3
    <2>5. n + 1 \in 1 .. n + 1 /\ (n + 1) - 1 = n
        OBVIOUS
    <2>6. cells[n + 1] = block[n]
        BY <2>1, <2>5
    <2> QED
        BY <1>1, <1>3, <1>6, <1>10, <2>1, <2>4, <2>6
<1>12. p.port = Bytes(b, h + 1 + n, 2)
    <2>1. PICK from \in Nat \ {0}, two \in Nat : from = h + 1 + n /\ two = 2
        BY <1>4
    <2>2. b + from + two - 1 <= length
        BY <1>4, <1>9, <2>1
    <2>3. b + from + two - 1 <= Len(stream)
        BY <1>8, <2>2
    <2>4. \A i \in 1 .. two : p.port[i] = At(b, from + i - 1)
        <3>1. \A i \in 1 .. two : p.port[i] = At(b, h + n + i)
            BY <1>1, <1>3, <2>1
        <3>2. \A i \in 1 .. two : h + n + i = from + i - 1
            BY <1>4, <2>1
        <3> QED
            BY <3>1, <3>2
    <2>5. /\ Bytes(b, from, two) \in Seq(Byte) /\ Len(Bytes(b, from, two)) = two
          /\ \A i \in 1 .. two : Bytes(b, from, two)[i] = At(b, from + i - 1)
        BY <2>3, BytesAre
    <2>6. PICK bytes \in Seq(Byte) : bytes = Bytes(b, from, two)
        BY <2>5
    <2>7. bytes = [i \in 1 .. 2 |-> bytes[i]]
        <3>1. Len(bytes) = 2
            BY <2>1, <2>5, <2>6
        <3>2. bytes \in [1 .. 2 -> Byte]
            BY <3>1, LenProperties
        <3> QED
            BY <3>2
    <2>8. p.port = [i \in 1 .. 2 |-> p.port[i]]
        BY <1>5
    <2>9. \A i \in 1 .. 2 : p.port[i] = bytes[i]
        BY <2>1, <2>4, <2>5, <2>6
    <2> QED
        BY <2>1, <2>6, <2>7, <2>8, <2>9
<1>13. Target(p).addr = IF At(b, 4) = FQDN THEN CString(host) ELSE host
    <2>1. CASE At(b, 4) = FQDN
        <3>1. block # None
            BY <1>4, <1>5, <1>6, NoneAssumption
        <3>2. CString(cells) = CString(host) /\ Zeroes(cells) # {}
            BY <1>10, <1>11, CStringEnded
        <3>3. Name(block) = CString(cells)
            BY <1>7, <3>1, <3>2 DEF Name
        <3> QED
            BY <1>2, <1>6, <2>1, <3>2, <3>3 DEF Target
    <2>2. CASE At(b, 4) # FQDN
        <3>1. n = p.atype * 4
            BY <1>2, <1>3, <2>2, Sizes, Types DEF Byte
        <3>2. SubSeq(cells, 1, n) = SubSeq(host, 1, n)
            <4>1. n <= Len(cells) /\ n <= Len(host) /\ \A i \in 1 .. n : cells[i] = host[i]
                BY <1>10, <1>11
            <4> QED
                BY <4>1, SamePrefix
        <3>3. SubSeq(host, 1, n) = host
            BY <1>10
        <3> QED
            BY <1>2, <1>6, <1>7, <2>2, <3>1, <3>2, <3>3 DEF Target
    <2> QED
        BY <2>1, <2>2
<1>14. /\ Asked(b).stop = b + h + n + 2
       /\ Asked(b).target = [atype |-> At(b, 4),
                             addr |-> IF At(b, 4) = FQDN THEN CString(host) ELSE host,
                             port |-> Bytes(b, h + 1 + n, 2)]
    <2>1. CASE At(b, 4) = FQDN
        <3>1. h + 1 = 6 /\ At(b, 5) = n
            BY <1>2, <1>3, <2>1, Sizes
        <3>2. b + 6 + n + 1 = b + h + n + 2
            BY <3>1
        <3> QED
            BY <1>10, <2>1, <3>1, <3>2 DEF Asked
    <2>2. CASE At(b, 4) # FQDN
        <3>1. h + 1 = 5 /\ 4 * At(b, 4) = n
            BY <1>2, <1>3, <2>2, Sizes
        <3>2. b + 5 + n + 1 = b + h + n + 2
            BY <3>1
        <3> QED
            BY <1>10, <2>2, <3>1, <3>2 DEF Asked
    <2> QED
        BY <2>1, <2>2
<1>15. Target(p) = [atype |-> p.atype, addr |-> Target(p).addr, port |-> p.port]
    BY DEF Target
<1> QED
    BY <1>2, <1>3, <1>12, <1>13, <1>14, <1>15

(* One that a read left at a request to be refused goes nowhere            *)
LEMMA RefusedGoesNowhere ==
    ASSUME NEW b \in Nat, NEW k \in Nat, NEW last \in Nat, k <= last,
           NEW p \in RequestAt(b, k), p.state \in {"end", "error"} \/ k = last,
           Refused(b, last)
    PROVE  p.state = "error" \/ p.atype = 0
<1>1. SUFFICES ASSUME p.state # "error", p.atype # 0 PROVE FALSE
    OBVIOUS
<1>2. \/ k = b + 4 /\ k = last /\ Header(b) /\ At(b, 4) = FQDN
      \/ \E n \in Nat : HostAt(p, b, n)
    <2>1. \/ p = Early("destaddr_len", FQDN) /\ k = b + 4 /\ Header(b) /\ At(b, 4) = FQDN
          \/ \E n \in 0 .. Size(b) - 1 : HostAt(p, b, n)
          \/ HostAt(p, b, 0)
          \/ HostAt(p, b, Size(b)) /\ Size(b) \in 1 .. Longest
        BY <1>1 DEF RequestAt, Early, RequestInit, PortAt, HostAt
    <2>2. CASE p = Early("destaddr_len", FQDN) /\ k = b + 4 /\ Header(b) /\ At(b, 4) = FQDN
        BY <2>2 DEF Early
    <2>3. CASE \E n \in 0 .. Size(b) - 1 : HostAt(p, b, n)
        BY <2>3
    <2>4. CASE HostAt(p, b, 0)
        BY <2>4
    <2>5. CASE HostAt(p, b, Size(b)) /\ Size(b) \in 1 .. Longest
        BY <2>5, Types
    <2> QED
        BY <2>1, <2>2, <2>3, <2>4, <2>5
<1>3. Header(b) /\ At(b, 4) \in {IPV4, FQDN, IPV6}
    BY <1>2 DEF HostAt
<1>4. last >= b + 5 /\ At(b, 4) = FQDN /\ At(b, 5) = 0
    BY <1>3 DEF Refused, Header
<1>5. PICK n \in Nat : HostAt(p, b, n)
    BY <1>2, <1>4
<1>6. Size(b) = 0 /\ Size(b) \in 1 .. Longest
    BY <1>3, <1>4, <1>5, Sizes DEF HostAt
<1> QED
    BY <1>6

LEMMA SendFailsKeeps ==
    ASSUME IInv, SendFails PROVE IInv'
BY EndsKeeps DEF SendFails

LEMMA RequestReadKeeps ==
    ASSUME IInv, RequestRead PROVE IInv'
<1>1. PICK n \in Chunks \cup {0} :
         /\ Receives("REQUEST_READING", n)
         /\ LET last == IF n = 0 THEN parsed ELSE pos + n
                read == Consume(last)
            IN  /\ parsed' = read.at
                /\ IF read.p.state # "error" /\ read.p.atype = 0
                   THEN /\ st' = "HELLO_AUTH"
                        /\ parser' = AuthInit
                        /\ begin' = read.at
                   ELSE /\ st' = IF read.p.state # "error" /\ read.p.atype = FQDN
                                 THEN "DNS_QUERY" ELSE "RESPONSE_WRITING"
                        /\ parser' = read.p
                        /\ begin' = begin
                /\ target' = IF read.p.state = "error" \/ read.p.atype = 0 THEN target
                             ELSE Target(read.p)
         /\ UNCHANGED <<stream, memory, writing, method, status, reply>>
    BY DEF RequestRead
<1>2. /\ n \in Nat /\ st = "REQUEST_READING" /\ ~ writing
      /\ pos + n <= Len(stream) /\ pos' = pos + n
    <2>1. n \in Nat
        BY ChunksAssumption
    <2>2. Receives("REQUEST_READING", n)
        BY <1>1
    <2> QED
        BY <2>1, <2>2 DEF Receives
<1>3. PICK length \in Nat : length = Len(stream)
    BY InOrder DEF IInv
<1>4. /\ begin \in Nat /\ parsed \in Nat /\ pos \in Nat /\ begin <= parsed /\ parsed <= pos
      /\ pos + n <= length /\ stream \in Streams
    BY <1>2, <1>3, InOrder DEF IInv
<1>5. PICK last \in Nat : last = IF n = 0 THEN parsed ELSE pos + n
    BY <1>2, <1>4
<1>6. parsed <= last /\ last <= length /\ last <= pos + n
    BY <1>2, <1>4, <1>5
<1>7. PICK p, at : p = Consume(last).p /\ at = Consume(last).at
    OBVIOUS
<1>8. p \in RequestAt(begin, at) /\ Left(last)
    <2>1. parser \in RequestAt(begin, parsed)
        BY <1>2, <1>4, FirstParsers DEF IInv
    <2>2. last <= Len(stream)
        BY <1>3, <1>6
    <2> QED
        BY <1>2, <1>4, <1>6, <1>7, <2>1, <2>2, Consumed
<1>9. at \in parsed .. last
    BY <1>7, <1>8 DEF Left
<1>10. pos + n \in 0 .. length /\ at \in 0 .. pos + n /\ begin \in 0 .. at
       /\ at \in Nat /\ at \in 0 .. at
    BY <1>2, <1>4, <1>6, <1>9
<1>11. ParserOK(p) /\ ParserOK(AuthInit) /\ AuthInit \in AuthAt(at, at)
    BY <1>4, <1>8, <1>10, Parsers, FirstParsers
<1>12. p.atype \in {0, IPV4, FQDN, IPV6}
    BY <1>8 DEF RequestAt, RequestParsers, RequestParser
<1>13. target' = target \/ target'.atype \in {IPV4, FQDN, IPV6}
    BY <1>1, <1>5, <1>7, <1>12 DEF Target
<1>14. /\ parsed' = at /\ UNCHANGED <<stream, memory, writing, method, status, reply>>
       /\ \/ st' = "HELLO_AUTH" /\ parser' = AuthInit /\ begin' = at
          \/ st' \in {"DNS_QUERY", "RESPONSE_WRITING"} /\ parser' = p /\ begin' = begin
    BY <1>1, <1>5, <1>7
<1>15. TypeOK'
    <2>1. (stream \in Streams)' /\ (pos \in 0 .. Len(stream))' /\ (parsed \in 0 .. pos)'
        BY <1>2, <1>3, <1>4, <1>10, <1>14
    <2>2. (begin \in 0 .. parsed)' /\ ParserOK(parser)'
        BY <1>10, <1>11, <1>14
    <2> QED
        BY <1>13, <1>14, <2>1, <2>2 DEF IInv, TypeOK
<1>16. st' = "HELLO_AUTH" => (parser \in AuthAt(begin, parsed))'
    BY <1>11, <1>14, AuthStays
<1> QED
    BY <1>2, <1>14, <1>15, <1>16 DEF IInv, Awaits, AuthInit

LEMMA InvNext == IInv /\ [Next]_vars => IInv'
<1> SUFFICES ASSUME IInv, [Next]_vars PROVE IInv'
    OBVIOUS
<1>1. CASE Next
    BY <1>1, HelloReadKeeps, HelloWriteKeeps, HelloAuthReadKeeps, HelloAuthWriteKeeps,
       SendFailsKeeps, RequestReadKeeps DEF Next
<1>2. CASE UNCHANGED vars
    <2>1. TypeOK'
        BY <1>2 DEF vars, IInv, TypeOK
    <2>2. st' = "HELLO" => (parser \in HelloAt(begin, parsed))'
        BY <1>2, HelloStays DEF vars, IInv
    <2>3. st' = "HELLO_AUTH" => (parser \in AuthAt(begin, parsed))'
        BY <1>2, AuthStays DEF vars, IInv
    <2> QED
        BY <1>2, <2>1, <2>2, <2>3 DEF vars, IInv, Awaits
<1> QED
    BY <1>1, <1>2

LEMMA Invariant == Spec => []IInv
BY InvInit, InvNext, PTL DEF Spec

-----------------------------------------------------------------------------
(* The indices of the three parsers keep the width of a uint8_t and stay   *)
(* within the arrays and blocks they index (hello_parser.c, auth_parser.c, *)
(* request_read_parser.c), and no byte is parsed that recv() has not       *)
(* returned                                                                *)
THEOREM HandshakeTypeCorrect == Spec => []TypeOK
<1>1. IInv => TypeOK
    BY DEF IInv
<1> QED
    BY <1>1, Invariant, PTL

(* hello_read and hello_auth_read answer a message when its last byte has  *)
(* come and not before, and answer what the message asks for: the best of  *)
(* the methods it offers, and success for a name and a password that are   *)
(* an account's, whatever their lengths and however recv() cut the stream  *)
THEOREM HandshakeAnswered == Spec => AnsweredAsAsked
<1>1. ASSUME IInv, [Next]_vars, reply' # None, reply = None
      PROVE  LET message == IF st = "HELLO" THEN HelloMessage(begin) ELSE Login(begin)
             IN  reply' = message.reply /\ parsed' = message.stop
    <2>1. HelloRead \/ HelloAuthRead
        BY <1>1 DEF Next, HelloWrite, HelloAuthWrite, SendFails, RequestRead,
                    Enter, Ends, vars
    <2>2. ASSUME HelloRead
          PROVE  reply' = HelloMessage(begin).reply /\ parsed' = HelloMessage(begin).stop
                 /\ st = "HELLO"
        <3>1. PICK n \in Chunks :
                 /\ Receives("HELLO", n)
                 /\ parsed' = Consume(pos + n).at
                 /\ CASE Consume(pos + n).p.state = "end" ->
                          /\ method' = Selected(Consume(pos + n).p.methods)
                          /\ Answers(method')
                      [] Consume(pos + n).p.state = "error" ->
                          /\ Answers(method % Values)
                          /\ method' = NOMETHOD
                      [] OTHER -> UNCHANGED <<method, reply, writing>>
            BY <2>2 DEF HelloRead
        <3>2. n \in Nat /\ Awaits("HELLO") /\ st = "HELLO" /\ pos + n <= Len(stream)
            BY <3>1, ChunksAssumption DEF Receives, Awaits
        <3>3. PICK p, at : p = Consume(pos + n).p /\ at = Consume(pos + n).at
            OBVIOUS
        <3>4. \/ p.state = "end" /\ reply' = Selected(p.methods)
              \/ p.state = "error" /\ reply' = method % Values
            BY <1>1, <3>1, <3>3 DEF Answers
        <3> QED
            BY <1>1, <3>1, <3>2, <3>3, <3>4, HelloAnswered
    <2>3. ASSUME HelloAuthRead
          PROVE  reply' = Login(begin).reply /\ parsed' = Login(begin).stop
                 /\ st = "HELLO_AUTH"
        <3>1. PICK n \in Chunks :
                 /\ Receives("HELLO_AUTH", n)
                 /\ parsed' = Consume(pos + n).at
                 /\ status' = IF /\ Consume(pos + n).p.state = "end"
                                 /\ <<UserString(Consume(pos + n).p),
                                      CString(Consume(pos + n).p.pass)>> \notin Accounts
                              THEN 1 ELSE status
                 /\ IF Consume(pos + n).p.state \in {"end", "error"} THEN Answers(status')
                    ELSE UNCHANGED <<reply, writing>>
            BY <2>3 DEF HelloAuthRead
        <3>2. n \in Nat /\ Awaits("HELLO_AUTH") /\ st = "HELLO_AUTH" /\ pos + n <= Len(stream)
            BY <3>1, ChunksAssumption DEF Receives, Awaits
        <3>3. PICK p, at : p = Consume(pos + n).p /\ at = Consume(pos + n).at
            OBVIOUS
        <3>4. /\ p.state \in {"end", "error"} /\ parsed' = at
              /\ reply' = IF /\ p.state = "end"
                             /\ <<UserString(p), CString(p.pass)>> \notin Accounts
                          THEN 1 ELSE status
            BY <1>1, <3>1, <3>3 DEF Answers
        <3>5. status = 0
            BY <1>1, <3>2 DEF IInv
        <3> QED
            BY <1>1, <3>2, <3>3, <3>4, <3>5, LoginAnswered
    <2> QED
        BY <2>1, <2>2, <2>3
<1>2. IInv /\ [Next]_vars =>
         [reply' # None /\ reply = None =>
             LET message == IF st = "HELLO" THEN HelloMessage(begin) ELSE Login(begin)
             IN  reply' = message.reply /\ parsed' = message.stop]_vars
    BY <1>1
<1> QED
    BY <1>2, Invariant, PTL DEF Spec, AnsweredAsAsked

(* A request that has come as a whole when request_read stops reading it   *)
(* leads to the host and the port that it names, and is taken out of the   *)
(* buffer to its last byte; one to be refused leads nowhere.  So nothing   *)
(* but a request cut by recv() or a name of 255 bytes goes wrong           *)
THEOREM HandshakeTarget == Spec => TargetAsAsked
<1>1. ASSUME IInv, [Next]_vars, st = "REQUEST_READING", pos' > pos
      PROVE  /\ Served(begin, pos') => /\ target' = Asked(begin).target
                                       /\ parsed' = Asked(begin).stop
             /\ Refused(begin, pos') => target' = target
    <2>1. pos \in Nat /\ begin \in Nat /\ parsed \in Nat /\ begin <= parsed /\ stream \in Streams
        BY <1>1, InOrder DEF IInv
    <2>2. RequestRead
        <3>1. pos' # pos
            BY <1>1, <2>1
        <3> QED
            BY <1>1, <3>1 DEF Next, HelloRead, HelloAuthRead, HelloWrite, HelloAuthWrite,
                              SendFails, Receives, Enter, Ends, vars
    <2>3. PICK n \in Chunks \cup {0} :
             /\ Receives("REQUEST_READING", n)
             /\ LET last == IF n = 0 THEN parsed ELSE pos + n
                    read == Consume(last)
                IN  /\ parsed' = read.at
                    /\ target' = IF read.p.state = "error" \/ read.p.atype = 0 THEN target
                                 ELSE Target(read.p)
        BY <2>2 DEF RequestRead
    <2>4. n \in Nat /\ n # 0 /\ pos + n <= Len(stream) /\ pos' = pos + n
        <3>1. n \in Nat
            BY ChunksAssumption
        <3>2. pos' = pos + n /\ pos + n <= Len(stream)
            <4>1. Receives("REQUEST_READING", n)
                BY <2>3
            <4> QED
                BY <4>1 DEF Receives
        <3> QED
            BY <1>1, <2>1, <3>1, <3>2
    <2>5. PICK p, at, last : /\ p = Consume(last).p /\ at = Consume(last).at
                             /\ last = pos + n
        OBVIOUS
    <2>6. /\ parsed' = at
          /\ target' = IF p.state = "error" \/ p.atype = 0 THEN target ELSE Target(p)
        BY <2>3, <2>4, <2>5
    <2>7. p \in RequestAt(begin, at) /\ Left(last)
        BY <1>1, <2>4, <2>5, ReadsOn
    <2>8. /\ at \in Nat /\ last \in Nat /\ at <= last /\ last = pos'
          /\ p.state \in {"end", "error"} \/ at = last
        <3>1. at \in parsed .. last /\ last \in Nat
            BY <2>1, <2>4, <2>5, <2>7 DEF Left
        <3>2. p.state \in {"end", "error"} \/ at = last
            BY <2>5, <2>7 DEF Left, Stopped
        <3> QED
            BY <2>1, <2>4, <2>5, <3>1, <3>2
    <2>9. ASSUME Refused(begin, pos') PROVE target' = target
        BY <2>1, <2>6, <2>7, <2>8, <2>9, RefusedGoesNowhere
    <2>10. ASSUME Served(begin, pos')
           PROVE  target' = Asked(begin).target /\ parsed' = Asked(begin).stop
        <3>1. /\ p.state = "end" /\ PortAt(p, begin, 2) /\ Size(begin) \in Nat
              /\ at = begin + Host(begin) + Size(begin) + 2
            BY <2>1, <2>7, <2>8, <2>10, ServedEnds
        <3>2. at <= Len(stream)
            <4>1. PICK length \in Nat : length = Len(stream)
                BY <1>1, InOrder DEF IInv
            <4> QED
                BY <2>4, <2>5, <2>8, <4>1
        <3>3. p.atype # 0
            BY <3>1, Types DEF PortAt, HostAt, IPV4, FQDN, IPV6
        <3>4. Target(p) = Asked(begin).target /\ Asked(begin).stop = at
            BY <2>1, <3>1, <3>2, TargetIs
        <3> QED
            BY <2>6, <3>1, <3>3, <3>4
    <2> QED
        BY <2>9, <2>10
<1>2. IInv /\ [Next]_vars =>
         [st = "REQUEST_READING" /\ pos' > pos =>
             /\ Served(begin, pos') => /\ target' = Asked(begin).target
                                       /\ parsed' = Asked(begin).stop
             /\ Refused(begin, pos') => target' = target]_vars
    BY <1>1
<1> QED
    BY <1>2, Invariant, PTL DEF Spec, TargetAsAsked
=============================================================================
