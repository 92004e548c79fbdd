----------------------------- MODULE Handshake -----------------------------
(***************************************************************************)
(* What a client says before its bytes are relayed, byte by byte: the three*)
(* parsers over read_buffer, fed with whatever recv() returns, and the     *)
(* handlers that answer.  Socks5.tla takes the verdicts of the parsers as  *)
(* choices; here they are computed, with the uint8_t indices of the code.  *)
(*                                                                         *)
(* read_buffer is its queue of unread bytes (ByteFifo.tla), which is the   *)
(* part of the stream between `parsed` and `pos`: its 4096 bytes hold all  *)
(* that the parsers ask for.  The replies are sent whole.                  *)
(***************************************************************************)
EXTENDS Integers, Sequences, FiniteSets

CONSTANTS
    Values,     \* values of a uint8_t: 256
    Streams,    \* what clients send, from the first byte to the last
    Chunks,     \* bound: the lengths recv() returns
    Accounts,   \* names and passwords of users.c, as C strings
    None,
    Unset       \* the contents of malloc'ed memory nobody has written

(* The largest value is NOMETHOD and the longest length; the block of an   *)
(* IPv6 address must fit                                                   *)
ASSUME ValuesAssumption == Values \in Nat /\ Values > 4 * 4 + 1
ASSUME StreamsAssumption == Streams \subseteq Seq(0 .. Values - 1)
ASSUME ChunksAssumption == Chunks \subseteq Nat \ {0}

Byte == 0 .. Values - 1
Longest == Values - 1

(* A block of n bytes that calloc() returns; NULL is none                  *)
BlockOf(n) == [0 .. n - 1 -> Byte]
ASSUME NoneAssumption == \A n \in 1 .. Values : None \notin BlockOf(n)

(* add_user takes no name longer than this (users.c:46)                    *)
ASSUME AccountsAssumption ==
    \A account \in Accounts : Len(account[1]) < Longest

NOAUTH == 0
AUTH == 2
NOMETHOD == Longest
IPV4 == 1
FQDN == 3
IPV6 == 4

VARIABLES
    stream,     \* what this client sends
    memory,     \* calloc() will have room for its list of methods
    pos,        \* how much of it recv() has returned
    parsed,     \* how much of that was taken out of read_buffer
    begin,      \* history: parsed when the current state was entered
    st,         \* state of the connection; "OVER" when it is destroyed
    parser,     \* the parser of that state
    writing,    \* the client's interest is OP_WRITE, not OP_READ
    method, status,     \* selected_method, status of hello_auth
    reply,      \* what is in write_buffer: a method, a status, or None
    target      \* what connect_init or the resolver is given, or None

vars == <<stream, memory, pos, parsed, begin, st, parser, writing, method, status, reply,
          target>>

-----------------------------------------------------------------------------
(* The parsers, a byte at a time.                                          *)

(* An index, a uint8_t, has reached the length it is compared with;        *)
(* mutant: it is compared before it is increased                           *)
ReachedLate(stored, length) == Len(stored) - 1 = length
Reached(stored, length) == Len(stored) % Values = length

(* index++ of the request's parser; mutant: an int *)
AdvanceInt(index) == index + 1
Advance(index) == (index + 1) % Values

(* The cell that ends an address; mutant: the one behind its block *)
EndCellBehind(rp) == rp.destaddr_len
EndCell(rp) == rp.destaddr_len - 1

HelloInit == [state |-> "version", methods |-> <<>>, nmethods |-> 0]

(* consume_hello_byte *)
HelloByte(hp, c) ==
    LET go(state) == [hp EXCEPT !.state = state]
    IN  CASE hp.state = "version"  -> go(IF c = 5 THEN "nmethods" ELSE "error")
          [] hp.state = "nmethods" -> IF c = 0 THEN go("error")
                                      ELSE [go(IF memory THEN "methods" ELSE "error")
                                               EXCEPT !.nmethods = c]
          [] hp.state = "methods"  ->
                LET methods == Append(hp.methods, c)
                IN  [hp EXCEPT !.methods = methods,
                               !.state = IF Reached(methods, hp.nmethods) THEN "end" ELSE @]
          [] OTHER -> hp

AuthInit == [state |-> "version", user |-> <<>>, pass |-> <<>>, ulen |-> 0, plen |-> 0]

(* consume_hello_auth_byte; user and pass are what was stored in the arrays*)
AuthByte(hap, c) ==
    LET go(state) == [hap EXCEPT !.state = state]
        user == Append(hap.user, c)
        pass == Append(hap.pass, c)
    IN  CASE hap.state = "version"  -> go(IF c = 1 THEN "ulen" ELSE "error")
          [] hap.state = "ulen"     -> IF c = 0 THEN go("error")
                                       ELSE [go("uname") EXCEPT !.ulen = c]
          [] hap.state = "uname"    ->
                [hap EXCEPT !.user = user,
                            !.state = IF Reached(user, hap.ulen) THEN "plen" ELSE @]
          [] hap.state = "plen"     -> IF c = 0 THEN go("error")
                                       ELSE [go("password") EXCEPT !.plen = c]
          [] hap.state = "password" ->
                [hap EXCEPT !.pass = pass,
                            !.state = IF Reached(pass, hap.plen) THEN "end" ELSE @]
          [] OTHER -> hap

RequestInit == [state |-> "version", atype |-> 0, index |-> 0, destaddr_len |-> 0,
                destaddr |-> None, port |-> <<Unset, Unset>>]

(* calloc() *)
Block(n) == [i \in 0 .. n - 1 |-> 0]

(* consume_request_byte *)
RequestByte(rp, c) ==
    LET go(state) == [rp EXCEPT !.state = state]
        room(n, atype) == [rp EXCEPT !.state = "destaddr", !.atype = atype,
                                     !.destaddr = Block(n), !.destaddr_len = n % Values]
        next == Advance(rp.index)
    IN  CASE rp.state = "version"  -> go(IF c = 5 THEN "command" ELSE "error")
          [] rp.state = "command"  -> go(IF c = 1 THEN "reserved" ELSE "command_error")
          [] rp.state = "reserved" -> go(IF c = 0 THEN "atype" ELSE "error")
          [] rp.state = "atype"    ->
                CASE c = FQDN -> [rp EXCEPT !.state = "destaddr_len", !.atype = c]
                  [] c \in {IPV4, IPV6} -> room(c * 4 + 1, c)
                  [] OTHER -> go("atype_error")
          [] rp.state = "destaddr_len" -> IF c = 0 THEN go("error") ELSE room(c + 1, rp.atype)
          [] rp.state = "destaddr" ->
                LET stored == [rp EXCEPT !.destaddr[rp.index] = c, !.index = next]
                IN  IF next = EndCell(rp)
                    THEN [stored EXCEPT !.destaddr[next] = 0, !.state = "port", !.index = 0]
                    ELSE stored
          [] rp.state = "port" ->
                [rp EXCEPT !.port[rp.index + 1] = c, !.index = next,
                           !.state = IF next = 2 THEN "end" ELSE @]
          [] OTHER -> rp

(* What the parser of the current state makes of a byte *)
ConsumeByte(p, c) ==
    CASE st = "HELLO" -> HelloByte(p, c)
      [] st = "HELLO_AUTH" -> AuthByte(p, c)
      [] OTHER -> RequestByte(p, c)

(* consume_hello, consume_hello_auth, consume_request: bytes are taken out *)
(* of read_buffer, the last of them at `last`, until the message has ended *)
Stopped(read) == read.p.state \in {"end", "error"}
Consume(last) ==
    LET after[k \in parsed .. last] ==
            IF k = parsed THEN [p |-> parser, at |-> parsed]
            ELSE LET before == after[k - 1]
                 IN  IF Stopped(before) THEN before
                     ELSE [p |-> ConsumeByte(before.p, stream[k]), at |-> k]
    IN  after[last]

(* The bytes of a C string up to its end, if it has one *)
Zeroes(bytes) == {i \in DOMAIN bytes : bytes[i] = 0}
CString(bytes) ==
    IF Zeroes(bytes) = {} THEN bytes
    ELSE SubSeq(bytes, 1, (CHOOSE i \in Zeroes(bytes) : \A j \in Zeroes(bytes) : i <= j) - 1)

-----------------------------------------------------------------------------
Init ==
    /\ stream \in Streams /\ memory \in BOOLEAN
    /\ pos = 0 /\ parsed = 0 /\ begin = 0
    /\ st = "HELLO"
    /\ parser = HelloInit
    /\ writing = FALSE
    /\ method = -1 /\ status = 0
    /\ reply = None
    /\ target = None

(* recv() of n bytes by the handler of a state that is to be read *)
Receives(state, n) ==
    /\ st = state /\ ~ writing
    /\ pos + n <= Len(stream)
    /\ pos' = pos + n

Answers(value) == reply' = value /\ writing' = TRUE

(* hello_read: the last of AUTH and NOAUTH wins, AUTH over NOAUTH *)
Selected(methods) ==
    LET upto[i \in 0 .. Len(methods)] ==
            IF i = 0 THEN method
            ELSE CASE methods[i] = AUTH -> AUTH
                   [] methods[i] = NOAUTH -> IF upto[i - 1] # AUTH THEN NOAUTH ELSE AUTH
                   [] OTHER -> IF upto[i - 1] \notin {AUTH, NOAUTH} THEN NOMETHOD
                               ELSE upto[i - 1]
    IN  upto[Len(methods)]

HelloRead ==
    \E n \in Chunks :
        /\ Receives("HELLO", n)
        /\ LET read == Consume(pos + n)
           IN  /\ parser' = read.p
               /\ parsed' = read.at
               /\ CASE read.p.state = "end" ->
                        /\ method' = Selected(read.p.methods)
                        /\ Answers(method')
                    [] read.p.state = "error" ->
                        /\ Answers(method % Values)
                        /\ method' = NOMETHOD
                    [] OTHER -> UNCHANGED <<method, reply, writing>>
        /\ UNCHANGED <<stream, memory, begin, st, status, target>>

(* The reply is sent and the next state is entered, with a new parser *)
Enter(state, p) ==
    /\ st' = state /\ parser' = p /\ begin' = parsed
    /\ writing' = FALSE /\ reply' = None
    /\ UNCHANGED <<stream, memory, pos, parsed, method, status, target>>

Ends ==
    /\ st' = "OVER"
    /\ reply' = None
    /\ UNCHANGED <<stream, memory, pos, parsed, begin, parser, writing, method, status, target>>

HelloWrite ==
    /\ st = "HELLO" /\ writing
    /\ \/ method = AUTH /\ Enter("HELLO_AUTH", AuthInit)
       \/ method = NOAUTH /\ Enter("REQUEST_READING", RequestInit)
       \/ method = NOMETHOD /\ Ends

(* The arrays user[255] and pass[255] lie side by side: the end of a name  *)
(* of 255 bytes is stored at pass[0], where the password then replaces it, *)
(* so the name reads on; the end of such a password falls on user_index    *)
UserString(hap) ==
    CString(IF Len(hap.user) = Longest THEN hap.user \o hap.pass ELSE hap.user)

(* hello_auth_read: a login that is no account's changes the status, which *)
(* is what the block was set to when it was made; anything else keeps it   *)
HelloAuthRead ==
    \E n \in Chunks :
        /\ Receives("HELLO_AUTH", n)
        /\ LET read == Consume(pos + n)
               login == <<UserString(read.p), CString(read.p.pass)>>
           IN  /\ parser' = read.p
               /\ parsed' = read.at
               /\ status' = IF read.p.state = "end" /\ login \notin Accounts THEN 1 ELSE status
               /\ IF read.p.state \in {"end", "error"} THEN Answers(status')
                  ELSE UNCHANGED <<reply, writing>>
        /\ UNCHANGED <<stream, memory, begin, st, method, target>>

HelloAuthWrite ==
    /\ st = "HELLO_AUTH" /\ writing
    /\ IF status = 0 THEN Enter("REQUEST_READING", RequestInit) ELSE Ends

(* send() fails in hello_write or hello_auth_write *)
SendFails ==
    /\ st \in {"HELLO", "HELLO_AUTH"} /\ writing
    /\ Ends

(* What the resolver is given as a name: no name when it was not reached,  *)
(* and what lies behind the block when nothing in it ends the string       *)
Cells(block) == [i \in 1 .. Cardinality(DOMAIN block) |-> block[i - 1]]
Name(block) ==
    IF block = None THEN None
    ELSE IF Zeroes(Cells(block)) = {} THEN Append(Cells(block), Unset)
    ELSE CString(Cells(block))

(* What connect_init or resolve_blocking takes from the parser *)
Target(rp) ==
    [atype |-> rp.atype,
     addr |-> IF rp.atype = FQDN THEN Name(rp.destaddr)
              ELSE SubSeq(Cells(rp.destaddr), 1, rp.atype * 4),
     port |-> rp.port]

(* request_read: a request goes on as far as it got, also when recv() has  *)
(* nothing or an error (n = 0); an address type that is not known yet is   *)
(* GENERAL_SOCKS_SERVER_FAILURE, the number of HELLO_AUTH.  consume_request*)
(* goes on to swallow what follows an unsupported command or address type. *)
RequestRead ==
    \E n \in Chunks \cup {0} :
        /\ Receives("REQUEST_READING", n)
        /\ LET last == IF n = 0 THEN parsed ELSE pos + n
               read == Consume(last)
           IN  /\ parsed' = read.at
               /\ IF read.p.state # "error" /\ read.p.atype = 0
                  THEN /\ st' = "HELLO_AUTH"
                       /\ parser' = AuthInit
                       /\ begin' = read.at
                  ELSE /\ st' = IF read.p.state # "error" /\ read.p.atype = FQDN
                                THEN "DNS_QUERY" ELSE "RESPONSE_WRITING"
                       /\ parser' = read.p
                       /\ begin' = begin
               /\ target' = IF read.p.state = "error" \/ read.p.atype = 0 THEN target
                            ELSE Target(read.p)
        /\ UNCHANGED <<stream, memory, writing, method, status, reply>>

Next ==
    \/ HelloRead \/ HelloWrite
    \/ HelloAuthRead \/ HelloAuthWrite
    \/ SendFails
    \/ RequestRead

Spec == Init /\ [][Next]_vars

-----------------------------------------------------------------------------
(* Types: the indices keep the width of a uint8_t and stay within the      *)
(* blocks they index, and nothing is parsed that was not received          *)
HelloParser ==
    [state : {"version", "nmethods", "methods", "end", "error"},
     methods : Seq(Byte), nmethods : Byte]
AuthParser ==
    [state : {"version", "ulen", "uname", "plen", "password", "end", "error"},
     user : Seq(Byte), pass : Seq(Byte), ulen : Byte, plen : Byte]
RequestParser(room) ==
    [state : {"version", "command", "reserved", "atype", "destaddr_len", "destaddr",
              "port", "end", "command_error", "atype_error", "error"},
     atype : {0, IPV4, FQDN, IPV6}, index : Byte, destaddr_len : {room % Values},
     destaddr : IF room = 0 THEN {None} ELSE BlockOf(room),
     port : [1 .. 2 -> Byte \cup {Unset}]]

ParserOK(p) ==
    \/ p \in HelloParser /\ Len(p.methods) <= p.nmethods
    \/ p \in AuthParser /\ Len(p.user) <= p.ulen /\ Len(p.pass) <= p.plen
    \/ \E room \in 0 .. Values :
          /\ p \in RequestParser(room)
          /\ p.state = "destaddr" => p.index \in DOMAIN p.destaddr

TypeOK ==
    /\ stream \in Streams /\ memory \in BOOLEAN
    /\ pos \in 0 .. Len(stream) /\ parsed \in 0 .. pos /\ begin \in 0 .. parsed
    /\ st \in {"HELLO", "HELLO_AUTH", "REQUEST_READING", "DNS_QUERY",
               "RESPONSE_WRITING", "OVER"}
    /\ ParserOK(parser)
    /\ writing \in BOOLEAN
    /\ method \in {-1, AUTH, NOAUTH, NOMETHOD} /\ status \in {0, 1}
    /\ reply \in {None, AUTH, NOAUTH, NOMETHOD, 1}
    /\ target = None \/ target.atype \in {IPV4, FQDN, IPV6}

(* The grammar of the messages, on the whole stream: where a message that  *)
(* begins behind b ends, or the first byte that makes it malformed is, and *)
(* what is to be answered.                                                 *)
At(b, i) == stream[b + i]
Bytes(b, first, n) == SubSeq(stream, b + first, b + first + n - 1)

Best(offered) ==
    IF AUTH \in offered THEN AUTH ELSE IF NOAUTH \in offered THEN NOAUTH ELSE NOMETHOD

HelloMessage(b) ==
    CASE At(b, 1) # 5 -> [stop |-> b + 1, reply |-> NOMETHOD]
      [] At(b, 1) = 5 /\ (At(b, 2) = 0 \/ ~ memory) -> [stop |-> b + 2, reply |-> NOMETHOD]
      [] OTHER -> [stop |-> b + 2 + At(b, 2),
                   reply |-> Best({At(b, 2 + i) : i \in 1 .. At(b, 2)})]

Login(b) ==
    LET ulen == At(b, 2)
        plen == At(b, 3 + ulen)
        name == CString(Bytes(b, 3, ulen))
    IN  CASE At(b, 1) # 1 -> [stop |-> b + 1, reply |-> status]
          [] At(b, 1) = 1 /\ ulen = 0 -> [stop |-> b + 2, reply |-> status]
          [] At(b, 1) = 1 /\ ulen # 0 /\ plen = 0 -> [stop |-> b + 3 + ulen, reply |-> status]
          [] OTHER -> [stop |-> b + 3 + ulen + plen,
                       reply |-> IF <<name, CString(Bytes(b, 4 + ulen, plen))>> \in Accounts
                                 THEN 0 ELSE 1]

(* However recv() cuts the stream, a client is answered what its message   *)
(* asks for, when the message is complete and not before, and the next     *)
(* message begins at the byte behind it: the method is the best of those   *)
(* offered, or none when there is no memory to list them, the login that   *)
(* of an account with this name and password, also at the lengths where the*)
(* indices wrap and the arrays overlap                                     *)
AnsweredAsAsked ==
    [][reply' # None /\ reply = None =>
          LET message == IF st = "HELLO" THEN HelloMessage(begin) ELSE Login(begin)
          IN  reply' = message.reply /\ parsed' = message.stop]_vars

(* The request behind b is received up to `last` and is one to be served;  *)
(* a name has not the greatest length                                      *)
Served(b, last) ==
    /\ last >= b + 5
    /\ At(b, 1) = 5 /\ At(b, 2) = 1 /\ At(b, 3) = 0
    /\ \/ At(b, 4) \in {IPV4, IPV6} /\ last >= b + 4 + 4 * At(b, 4) + 2
       \/ At(b, 4) = FQDN /\ At(b, 5) \in 1 .. Longest - 1 /\ last >= b + 5 + At(b, 5) + 2

Asked(b) ==
    LET first == IF At(b, 4) = FQDN THEN 6 ELSE 5
        n == IF At(b, 4) = FQDN THEN At(b, 5) ELSE 4 * At(b, 4)
        host == Bytes(b, first, n)
    IN  [stop |-> b + first + n + 1,
         target |-> [atype |-> At(b, 4),
                     addr |-> IF At(b, 4) = FQDN THEN CString(host) ELSE host,
                     port |-> Bytes(b, first + n, 2)]]

(* One of the bytes received up to `last` makes the request one to refuse  *)
Refused(b, last) ==
    \/ At(b, 1) # 5
    \/ last >= b + 2 /\ At(b, 2) # 1
    \/ last >= b + 3 /\ At(b, 3) # 0
    \/ last >= b + 4 /\ At(b, 4) \notin {IPV4, FQDN, IPV6}
    \/ last >= b + 5 /\ At(b, 4) = FQDN /\ At(b, 5) = 0

(* A request that is complete when request_read stops reading it leads to  *)
(* the address and port it names, and not a byte further; so a wrong target*)
(* has one of two causes, a request cut by recv() or a name of 255 bytes.  *)
(* One that is to be refused leads nowhere.                                *)
TargetAsAsked ==
    [][st = "REQUEST_READING" /\ pos' > pos =>
          /\ Served(begin, pos') => /\ target' = Asked(begin).target
                                    /\ parsed' = Asked(begin).stop
          /\ Refused(begin, pos') => target' = target]_vars
=============================================================================
