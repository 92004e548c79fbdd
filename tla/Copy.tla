-------------------------------- MODULE Copy --------------------------------
(***************************************************************************)
(* The COPY state of one SOCKS connection (copy_st.c): bytes read from one *)
(* descriptor go through a buffer to the other, and the two descriptors'   *)
(* interests, kept by the selector, throttle each direction.               *)
(*                                                                         *)
(* A direction is named after its source: buf["client"] is read_buffer     *)
(* (client --> origin) and buf["origin"] is write_buffer (origin -->       *)
(* client).  One action is one call of copy_read or copy_write; the peers' *)
(* sends, closes and resets interleave with them.                          *)
(***************************************************************************)
EXTENDS Buffer

CONSTANTS Payload,      \* the stream each end would send, a sequence per side
          Blank,        \* what the buffers' cells hold before COPY
          MaxEarly      \* bound: bytes sent behind the request, before COPY

Side == {"client", "origin"}
Other(s) == IF s = "client" THEN "origin" ELSE "client"

ASSUME PayloadAssumption == Payload \in [Side -> Seq(Byte)]
ASSUME BlankAssumption == Blank \in Byte
ASSUME MaxEarlyAssumption == MaxEarly \in Nat

VARIABLES
    sent,       \* bytes of its payload a peer has sent
    got,        \* of those, bytes the proxy has received
    fin,        \* "open", "eof", "reset", or "failed" (any other error)
    buf,        \* the buffer a side's bytes go through
    interest,   \* what the selector watches a side's descriptor for
    closing,    \* sock->closing
    delivered,  \* the bytes a side has been sent by the proxy
    whole,      \* history: every send() so far took all there was
    state       \* what the handlers returned last

vars == <<sent, got, fin, buf, interest, closing, delivered, whole, state>>

OP_READ == "OP_READ"
OP_WRITE == "OP_WRITE"
Chunk(s, from, n) == SubSeq(Payload[s], from + 1, from + n)

-----------------------------------------------------------------------------
(* Bytes the client sent behind its request stay in read_buffer, at the    *)
(* offset the request parser stopped at; response_write has drained        *)
(* write_buffer and left the client, like connect_origin the origin, with  *)
(* OP_READ alone.                                                          *)
Empty == BufferInit([a \in Cell |-> Blank])
Leftover(offset, n) ==
    Fill([Empty EXCEPT !.read = offset, !.write = offset], Chunk("client", 0, n))

Init ==
    /\ \E early \in 0 .. MaxEarly :
          /\ early <= Len(Payload["client"])
          /\ sent = [s \in Side |-> IF s = "client" THEN early ELSE 0]
          /\ \E offset \in IF early = 0 THEN {0} ELSE 1 .. BufferSize - early :
                buf = [s \in Side |-> IF s = "client" THEN Leftover(offset, early) ELSE Empty]
    /\ got = sent
    /\ fin = [s \in Side |-> "open"]
    /\ interest = [s \in Side |-> {OP_READ}]
    /\ closing = FALSE
    /\ delivered = [s \in Side |-> <<>>]
    /\ whole = TRUE
    /\ state = "COPY"

(* The peers, which the proxy does not control *)
PeerSends(s) ==
    /\ fin[s] = "open"
    /\ sent[s] < Len(Payload[s])
    /\ sent' = [sent EXCEPT ![s] = @ + 1]
    /\ UNCHANGED <<got, fin, buf, interest, closing, delivered, whole, state>>

PeerCloses(s) ==
    /\ fin[s] = "open"
    /\ fin' = [fin EXCEPT ![s] = "eof"]
    /\ UNCHANGED <<sent, got, buf, interest, closing, delivered, whole, state>>

PeerBreaks(s) ==
    /\ fin[s] \in {"open", "eof"}
    /\ \E error \in {"reset", "failed"} : fin' = [fin EXCEPT ![s] = error]
    /\ UNCHANGED <<sent, got, buf, interest, closing, delivered, whole, state>>

(* is_socket_closed: an error is pending on the descriptor *)
Broken(s) == fin[s] \in {"reset", "failed"}

-----------------------------------------------------------------------------
(* Mutants: the other descriptor is not asked for OP_WRITE; the source is  *)
(* not asked for OP_READ again; OP_WRITE stays after the last byte.        *)
ReadInterestForgetsSink(s, full) ==
    [interest EXCEPT ![s] = IF full THEN @ \ {OP_READ} ELSE @]
WriteInterestForgetsSource(s, drained) ==
    [interest EXCEPT ![s] = IF drained THEN @ \ {OP_WRITE} ELSE @]
WriteInterestKeepsWrite(s, drained) ==
    [interest EXCEPT ![Other(s)] = @ \cup {OP_READ}]

(* copy_read: a full buffer stops its source, and what was read is to be   *)
(* written                                                                 *)
InterestAfterRead(s, full) ==
    [interest EXCEPT ![s] = IF full THEN @ \ {OP_READ} ELSE @,
                     ![Other(s)] = @ \cup {OP_WRITE}]

(* copy_write: nothing left to write, and the source may go on unless the  *)
(* connection is closing                                                   *)
InterestAfterWrite(s, drained) ==
    [interest EXCEPT ![s] = IF drained THEN @ \ {OP_WRITE} ELSE @,
                     ![Other(s)] = IF closing THEN @ ELSE @ \cup {OP_READ}]

(* copy_read, recv() > 0 *)
ReadData(s) ==
    /\ state = "COPY"
    /\ OP_READ \in interest[s]
    /\ \E n \in 1 .. Room(buf[s]) :
          /\ n <= sent[s] - got[s]
          /\ buf' = [buf EXCEPT ![s] = Fill(@, Chunk(s, got[s], n))]
          /\ got' = [got EXCEPT ![s] = @ + n]
          /\ interest' = InterestAfterRead(s, n = Room(buf[s]))
    /\ state' = IF Broken(s) THEN "ERROR" ELSE "COPY"
    /\ UNCHANGED <<sent, fin, closing, delivered, whole>>

(* What makes recv() return 0, or fail with ECONNRESET: the peer is done   *)
(* and all it sent was received, or recv() was given no room at all.       *)
AtEnd(s) ==
    \/ got[s] = sent[s] /\ fin[s] \in {"eof", "reset"}
    \/ got[s] < sent[s] /\ ~ CanWrite(buf[s])

(* Mutant: the end of a stream ends the connection, whatever is buffered *)
EndsAtOnceAlways(s) == TRUE

(* Nothing of the ended stream waits; the other direction is not looked at *)
EndsAtOnce(s) == ~ CanRead(buf[s])

(* copy_read, recv() = 0 or ECONNRESET; recv() clears the pending error it *)
(* reports, so SO_ERROR shows one only if recv() did not meet it           *)
ReadEnd(s) ==
    /\ state = "COPY"
    /\ OP_READ \in interest[s]
    /\ AtEnd(s)
    /\ interest' = [interest EXCEPT ![s] = @ \ {OP_READ}]
    /\ IF EndsAtOnce(s)
       THEN /\ closing' = closing
            /\ state' = "CLOSE_CONNECTION"
       ELSE /\ closing' = TRUE
            /\ state' = IF Broken(s) /\ got[s] < sent[s] THEN "ERROR" ELSE "COPY"
    /\ UNCHANGED <<sent, got, fin, buf, delivered, whole>>

(* copy_read, recv() = -1 with any other error *)
ReadFails(s) ==
    /\ state = "COPY"
    /\ OP_READ \in interest[s]
    /\ got[s] = sent[s] /\ fin[s] = "failed"
    /\ state' = "ERROR"
    /\ UNCHANGED <<sent, got, fin, buf, interest, closing, delivered, whole>>

(* Mutant: a closing connection that has drained its buffer stays in COPY *)
AfterWriteNeverCloses(drained) == "COPY"

(* copy_write: a closing connection ends after any successful send, even   *)
(* one that left bytes in the buffer                                       *)
AfterWrite(drained) == IF closing THEN "CLOSE_CONNECTION" ELSE "COPY"

(* Mutant: copy_write picks the buffer of its own descriptor *)
SourceIsItself(s) == s

(* copy_write takes the bytes that came from the opposite descriptor *)
Source(s) == Other(s)

(* copy_write, send() > 0 *)
WriteData(s) ==
    /\ state = "COPY"
    /\ OP_WRITE \in interest[s]
    /\ ~ Broken(s)
    /\ LET src == Source(s)
       IN  \E n \in 1 .. Pending(buf[src]) :
              /\ delivered' = [delivered EXCEPT ![s] = @ \o SubSeq(Unread(buf[src]), 1, n)]
              /\ buf' = [buf EXCEPT ![src] = Drain(@, n)]
              /\ interest' = InterestAfterWrite(s, n = Pending(buf[src]))
              /\ state' = AfterWrite(n = Pending(buf[src]))
              /\ whole' = (whole /\ n = Pending(buf[src]))
    /\ UNCHANGED <<sent, got, fin, closing>>

(* copy_write, send() <= 0: an error, or a send of no bytes *)
WriteFails(s) ==
    /\ state = "COPY"
    /\ OP_WRITE \in interest[s]
    /\ Broken(s) \/ ~ CanRead(buf[Source(s)])
    /\ state' = "ERROR"
    /\ UNCHANGED <<sent, got, fin, buf, interest, closing, delivered, whole>>

(* handle_read or handle_write has destroyed the connection *)
Over ==
    /\ state # "COPY"
    /\ UNCHANGED vars

copy_read(s) == ReadData(s) \/ ReadEnd(s) \/ ReadFails(s)
copy_write(s) == WriteData(s) \/ WriteFails(s)

Next ==
    \/ \E s \in Side : PeerSends(s) \/ PeerCloses(s) \/ PeerBreaks(s)
    \/ \E s \in Side : ReadData(s) \/ ReadEnd(s) \/ ReadFails(s)
    \/ \E s \in Side : WriteData(s) \/ WriteFails(s)
    \/ Over

Spec == Init /\ [][Next]_vars

(* Every iteration of the selector visits every ready descriptor.  That a  *)
(* descriptor with data for it gets ready for writing is the peer's doing: *)
(* it goes on reading, or breaks.                                          *)
Fairness == \A s \in Side : WF_vars(copy_read(s)) /\ WF_vars(copy_write(s))
FairSpec == Spec /\ Fairness

-----------------------------------------------------------------------------
TypeOK ==
    /\ sent \in [Side -> Nat] /\ \A s \in Side : sent[s] <= Len(Payload[s])
    /\ got \in [Side -> Nat] /\ \A s \in Side : got[s] <= sent[s]
    /\ fin \in [Side -> {"open", "eof", "reset", "failed"}]
    /\ buf \in [Side -> BufferRecord] /\ \A s \in Side : Ordered(buf[s])
    /\ interest \in [Side -> SUBSET {OP_READ, OP_WRITE}]
    /\ closing \in BOOLEAN
    /\ delivered \in [Side -> Seq(Byte)]
    /\ whole \in BOOLEAN
    /\ state \in {"COPY", "CLOSE_CONNECTION", "ERROR"}

(* What a side was sent and what waits for it in the buffer are, in order  *)
(* and without a gap, the bytes received from the other side: partial      *)
(* sends and compactions lose, repeat and swap nothing.                    *)
NothingLostInside ==
    \A s \in Side :
        delivered[Other(s)] \o Unread(buf[s]) = SubSeq(Payload[s], 1, got[s])

(* The selector only reports a descriptor writable when there is something *)
(* to write: otherwise send() of 0 bytes returns 0 and copy_write would    *)
(* tear a healthy connection down.                                         *)
WriteInterestMeansData ==
    \A s \in Side : OP_WRITE \in interest[s] => CanRead(buf[Other(s)])

(* Bytes in a buffer that nobody is asked to write *)
Parked(s) == CanRead(buf[s]) /\ OP_WRITE \notin interest[Other(s)]

(* Bytes are only left like that when they came behind the request, before *)
(* COPY, and nothing was received in COPY yet: no handler asks for OP_WRITE*)
(* on entering COPY.                                                       *)
OnlyEarlyBytesParked ==
    \A s \in Side : state = "COPY" /\ Parked(s) =>
        /\ s = "client"
        /\ delivered["origin"] = <<>>
        /\ got["client"] <= MaxEarly

(* Backpressure never stops a direction for good: a source that is not     *)
(* read any more has a sink that is being written, whose next send turns   *)
(* the source on again or closes the connection.                           *)
NoSilentStop ==
    state = "COPY" => \A s \in Side :
        \/ OP_READ \in interest[s]
        \/ OP_WRITE \in interest[Other(s)]
        \/ closing /\ Parked(s)

(* copy_read never takes a buffer without room for an empty one: an empty  *)
(* read is either followed by draining what is buffered, or it really was  *)
(* the end of the stream.                                                  *)
CloseAtOnceMeansEnd ==
    [][\A s \in Side : ReadEnd(s) /\ state' = "CLOSE_CONNECTION" => got[s] = sent[s]]_vars

(* The two ends see a relay: prefixes, in order, nothing after the end. *)
RelayView == INSTANCE Relay WITH up <- (state = "COPY")
RelaySpec == RelayView!Spec

(* The other side keeps quiet and open, and every send() takes all there is. *)
Undisturbed(s) == fin[Other(s)] = "open" /\ sent[Other(s)] = 0 /\ whole

(* The ends at which the code drops bytes: an error; copy_read at the end  *)
(* of one stream while bytes of the other are on their way                 *)
(* (copy_st.c:180); copy_write of a closing connection after a send that   *)
(* was partial or of the other direction (copy_st.c:221).                  *)
MayDrop(s) == state = "ERROR" \/ (state = "CLOSE_CONNECTION" /\ ~ Undisturbed(s))

(* The half of that which is safety: an orderly end drops nothing of a     *)
(* side that sent and closed while the other only listened.                *)
QuietCloseDeliversAll ==
    \A s \in Side : state = "CLOSE_CONNECTION" /\ Undisturbed(s)
                       => Len(delivered[Other(s)]) = sent[s]

(* A byte that was sent is delivered, also when its sender closes behind   *)
(* it, unless the connection ends in one of the ways that drop bytes, or   *)
(* it waits behind early bytes nobody was asked to write.                  *)
EveryByteDelivered ==
    \A s \in Side : \A n \in 1 .. Len(Payload[s]) :
        sent[s] >= n ~> \/ Len(delivered[Other(s)]) >= n
                        \/ MayDrop(s)
                        \/ Parked(s)

(* closing is not left pending: the bytes that kept copy_read from ending  *)
(* at once have a send() to come, and the first send(), of either          *)
(* direction, destroys the connection.  Nothing is said of the bytes it    *)
(* leaves behind: MayDrop has them.                                        *)
ClosingEnds == closing ~> (state # "COPY" \/ \E s \in Side : Parked(s))

-----------------------------------------------------------------------------
(* What comments of the repository say of COPY and the code does not do.   *)

(* copy_st.c:177, on the branch that turns OP_READ off: "YA LEI TODO", all *)
(* was read.                                                               *)
StopsReadingWhenAllRead ==
    [][\A s \in Side : ReadEnd(s) => got[s] = sent[s]]_vars
=============================================================================
