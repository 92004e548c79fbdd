----------------------------- MODULE CopyProofs -----------------------------
(***************************************************************************)
(* Proofs about the COPY state for every buffer size, every payload and    *)
(* every number of early bytes: its safety invariants, and that it         *)
(* implements the relay the two ends see.                                  *)
(***************************************************************************)
EXTENDS Copy, BufferLemmas

-----------------------------------------------------------------------------
(* The inductive invariant.  That a full buffer is told from an empty one  *)
(* and that send() has something to send both need the buffers to be Sound *)
(* (an empty one has its whole block to offer), which no run states.       *)
BuffersSound == \A s \in Side : Sound(buf[s])

IInv == TypeOK /\ BuffersSound /\ NothingLostInside /\ WriteInterestMeansData

LEMMA Sides ==
    /\ \A s \in Side : Other(s) \in Side /\ Other(s) # s /\ Other(Other(s)) = s
    /\ \A s, t \in Side : t = s \/ t = Other(s)
BY DEF Side, Other

LEMMA OpsDiffer == OP_READ # OP_WRITE
BY DEF OP_READ, OP_WRITE

(* Both pointers of a buffer set to the same cell. *)
LEMMA PointersMoved ==
    ASSUME NEW bf \in BufferRecord, NEW r \in 0 .. BufferSize
    PROVE  LET m == [bf EXCEPT !.read = r, !.write = r]
           IN  /\ m \in BufferRecord /\ Ordered(m) /\ Room(m) = BufferSize - r
               /\ m.read = r /\ m.write = r
<1> DEFINE m == [bf EXCEPT !.read = r, !.write = r]
<1>1. m \in BufferRecord
    BY DEF BufferRecord
<1>2. m.read = r /\ m.write = r
    BY DEF BufferRecord
<1>3. BufferSize \in Nat /\ r \in Nat /\ r <= BufferSize
    BY BufferSizeAssumption
<1> HIDE DEF m
<1>4. Ordered(m) /\ Room(m) = BufferSize - r
    BY <1>2, <1>3 DEF Ordered, Room
<1> QED
    BY <1>1, <1>2, <1>4 DEF m

(* The bytes that came behind the request, wherever in the block they lie. *)
LEMMA LeftoverIsSound ==
    ASSUME NEW early \in 0 .. MaxEarly, early <= Len(Payload["client"]),
           NEW offset \in IF early = 0 THEN {0} ELSE 1 .. BufferSize - early
    PROVE  /\ Sound(Leftover(offset, early))
           /\ Unread(Leftover(offset, early)) = SubSeq(Payload["client"], 1, early)
           /\ Sound(Empty) /\ Unread(Empty) = <<>>
<1> DEFINE moved == [Empty EXCEPT !.read = offset, !.write = offset]
           p     == Payload["client"]
<1>1. Empty \in BufferRecord /\ Empty.read = 0 /\ Empty.write = 0
    BY BlankAssumption, BufferSizeAssumption DEF Empty, BufferInit, BufferRecord
<1>2. Sound(Empty)
    BY <1>1, BufferSizeAssumption DEF Sound, Ordered, CanRead, Pending, Room
<1>3. Unread(Empty) = <<>>
    <2>1. Unread(Empty) \in Seq(Byte) /\ Len(Unread(Empty)) = 0
        BY <1>1, <1>2, UnreadIsSeq DEF Sound, Pending
    <2> QED
        BY <2>1, EmptySeq
<1>4. p \in Seq(Byte) /\ early \in Nat
    BY PayloadAssumption, MaxEarlyAssumption DEF Side
<1>5. offset \in 0 .. BufferSize /\ offset + early <= BufferSize
    BY <1>4, BufferSizeAssumption
<1>6. /\ moved \in BufferRecord /\ Ordered(moved) /\ Room(moved) = BufferSize - offset
      /\ moved.read = offset /\ moved.write = offset
    BY <1>1, <1>5, PointersMoved
<1>7. Unread(moved) = <<>>
    <2> HIDE DEF moved
    <2>1. Pending(moved) = 0
        BY <1>5, <1>6 DEF Pending
    <2>2. Unread(moved) \in Seq(Byte) /\ Len(Unread(moved)) = 0
        BY <1>6, <2>1, UnreadIsSeq
    <2> QED
        BY <2>2, EmptySeq
<1>8. Sound(moved) \/ early > 0
    <2>1. CASE early = 0
        <3>1. offset = 0
            BY <2>1
        <3> QED
            BY <1>6, <3>1, BufferSizeAssumption DEF Sound
    <2> QED
        BY <1>4, <2>1
<1>9. /\ Chunk("client", 0, early) \in Seq(Byte) /\ Len(Chunk("client", 0, early)) = early
      /\ Chunk("client", 0, early) = SubSeq(p, 1, early)
    <2>1. Chunk("client", 0, early) = SubSeq(p, 1, early)
        BY <1>4 DEF Chunk
    <2>2. 0 \in Nat /\ 0 + early <= Len(p) /\ SubSeq(p, 0 + 1, 0 + early) = SubSeq(p, 1, early)
        BY <1>4
    <2>3. SubSeq(p, 0 + 1, 0 + early) \in Seq(Byte) /\ Len(SubSeq(p, 0 + 1, 0 + early)) = early
        BY <1>4, <2>2, PrefixExtends
    <2> QED
        BY <2>1, <2>2, <2>3
<1>10. Len(Chunk("client", 0, early)) <= Room(moved)
    BY <1>4, <1>5, <1>6, <1>9, BufferSizeAssumption
<1> HIDE DEF moved
<1>11. /\ Sound(Fill(moved, Chunk("client", 0, early)))
       /\ Unread(Fill(moved, Chunk("client", 0, early))) = <<>> \o Chunk("client", 0, early)
    BY <1>6, <1>7, <1>8, <1>9, <1>10, FillAppends
<1>12. <<>> \o Chunk("client", 0, early) = Chunk("client", 0, early)
    BY <1>9, ConcatEmptySeq
<1> QED
    BY <1>2, <1>3, <1>9, <1>11, <1>12 DEF Leftover, moved

LEMMA InitIInv == Init => IInv
<1> SUFFICES ASSUME Init PROVE IInv
    OBVIOUS
<1>1. PICK early \in 0 .. MaxEarly :
          /\ early <= Len(Payload["client"])
          /\ sent = [s \in Side |-> IF s = "client" THEN early ELSE 0]
          /\ \E offset \in IF early = 0 THEN {0} ELSE 1 .. BufferSize - early :
                buf = [s \in Side |-> IF s = "client" THEN Leftover(offset, early) ELSE Empty]
    BY DEF Init
<1>2. PICK offset \in IF early = 0 THEN {0} ELSE 1 .. BufferSize - early :
          buf = [s \in Side |-> IF s = "client" THEN Leftover(offset, early) ELSE Empty]
    BY <1>1
<1>3. /\ Sound(Leftover(offset, early))
      /\ Unread(Leftover(offset, early)) = SubSeq(Payload["client"], 1, early)
      /\ Sound(Empty) /\ Unread(Empty) = <<>>
    BY <1>1, LeftoverIsSound
<1>4. Payload \in [Side -> Seq(Byte)] /\ early \in Nat
    BY PayloadAssumption, MaxEarlyAssumption
<1>5. BuffersSound
    BY <1>2, <1>3 DEF BuffersSound
<1>6. \A s \in Side : buf[s] \in BufferRecord /\ Ordered(buf[s])
    BY <1>5 DEF BuffersSound, Sound
<1>7. sent \in [Side -> Nat] /\ \A s \in Side : sent[s] <= Len(Payload[s])
    <2>1. \A s \in Side : Len(Payload[s]) \in Nat
        BY <1>4, LenProperties
    <2> QED
        BY <1>1, <1>4, <2>1 DEF Side
<1>8. got = sent /\ delivered = [s \in Side |-> <<>>] /\ interest = [s \in Side |-> {OP_READ}]
      /\ fin = [s \in Side |-> "open"] /\ closing = FALSE /\ whole = TRUE /\ state = "COPY"
    BY DEF Init
<1>9. TypeOK
    <2>1. got \in [Side -> Nat] /\ \A s \in Side : got[s] <= sent[s]
        BY <1>7, <1>8
    <2>2. buf \in [Side -> BufferRecord]
        BY <1>2, <1>6
    <2>3. delivered \in [Side -> Seq(Byte)]
        BY <1>8
    <2>4. interest \in [Side -> SUBSET {OP_READ, OP_WRITE}]
        BY <1>8
    <2>5. fin \in [Side -> {"open", "eof", "reset", "failed"}]
        BY <1>8
    <2> QED
        BY <1>6, <1>7, <1>8, <2>1, <2>2, <2>3, <2>4, <2>5 DEF TypeOK
<1>10. NothingLostInside
    <2> SUFFICES ASSUME NEW s \in Side
                 PROVE  delivered[Other(s)] \o Unread(buf[s]) = SubSeq(Payload[s], 1, got[s])
        BY DEF NothingLostInside
    <2>1. delivered[Other(s)] = <<>>
        BY <1>8, Sides
    <2>2. Unread(buf[s]) = SubSeq(Payload[s], 1, got[s])
        <3>1. CASE s = "client"
            BY <1>1, <1>2, <1>3, <1>8, <3>1
        <3>2. CASE s # "client"
            <4>1. Unread(buf[s]) = <<>> /\ got[s] = 0
                BY <1>1, <1>2, <1>3, <1>8, <3>2
            <4> QED
                BY <4>1, SubSeqEmpty
        <3> QED
            BY <3>1, <3>2
    <2>3. Unread(buf[s]) \in Seq(Byte)
        BY <1>6, UnreadIsSeq
    <2> QED
        BY <2>1, <2>2, <2>3, ConcatEmptySeq
<1>11. WriteInterestMeansData
    BY <1>8, OpsDiffer DEF WriteInterestMeansData
<1> QED
    BY <1>5, <1>9, <1>10, <1>11 DEF IInv

-----------------------------------------------------------------------------
(* What the invariant says of one direction, in the form the steps use. *)
LEMMA Direction ==
    ASSUME IInv, NEW s \in Side
    PROVE  /\ Payload[s] \in Seq(Byte) /\ Len(Payload[s]) \in Nat
           /\ sent[s] \in Nat /\ got[s] \in Nat /\ got[s] <= sent[s] /\ sent[s] <= Len(Payload[s])
           /\ buf[s] \in BufferRecord /\ Ordered(buf[s]) /\ Sound(buf[s])
           /\ Room(buf[s]) \in 0 .. BufferSize /\ Pending(buf[s]) \in 0 .. BufferSize
           /\ Unread(buf[s]) \in Seq(Byte) /\ Len(Unread(buf[s])) = Pending(buf[s])
           /\ delivered[s] \in Seq(Byte)
           /\ interest[s] \subseteq {OP_READ, OP_WRITE}
<1>1. Payload[s] \in Seq(Byte) /\ Len(Payload[s]) \in Nat
    BY PayloadAssumption, LenProperties
<1>2. buf[s] \in BufferRecord /\ Ordered(buf[s]) /\ Sound(buf[s])
    BY DEF IInv, TypeOK, BuffersSound
<1>3. /\ Room(buf[s]) \in 0 .. BufferSize /\ Pending(buf[s]) \in 0 .. BufferSize
      /\ Unread(buf[s]) \in Seq(Byte) /\ Len(Unread(buf[s])) = Pending(buf[s])
    BY <1>2, UnreadIsSeq
<1> QED
    BY <1>1, <1>2, <1>3 DEF IInv, TypeOK

(* Asking for OP_WRITE on the other descriptor is right once there is data *)
(* for it; copy_read disturbs no other descriptor's OP_WRITE.              *)
LEMMA ReadInterest ==
    ASSUME IInv, NEW s \in Side, NEW full \in BOOLEAN,
           interest' = InterestAfterRead(s, full)
    PROVE  /\ interest' \in [Side -> SUBSET {OP_READ, OP_WRITE}]
           /\ interest'[s] = IF full THEN interest[s] \ {OP_READ} ELSE interest[s]
           /\ interest'[Other(s)] = interest[Other(s)] \cup {OP_WRITE}
BY Sides DEF IInv, TypeOK, InterestAfterRead

LEMMA WriteInterest ==
    ASSUME IInv, NEW s \in Side, NEW drained \in BOOLEAN,
           interest' = InterestAfterWrite(s, drained)
    PROVE  /\ interest' \in [Side -> SUBSET {OP_READ, OP_WRITE}]
           /\ interest'[s] = IF drained THEN interest[s] \ {OP_WRITE} ELSE interest[s]
           /\ interest'[Other(s)] = IF closing THEN interest[Other(s)]
                                    ELSE interest[Other(s)] \cup {OP_READ}
BY Sides DEF IInv, TypeOK, InterestAfterWrite

(* copy_read appends what it received to the direction's bytes. *)
LEMMA ReadDataKeeps == ASSUME IInv, NEW s \in Side, ReadData(s) PROVE IInv'
<1>1. PICK n \in 1 .. Room(buf[s]) :
          /\ n <= sent[s] - got[s]
          /\ buf' = [buf EXCEPT ![s] = Fill(@, Chunk(s, got[s], n))]
          /\ got' = [got EXCEPT ![s] = @ + n]
          /\ interest' = InterestAfterRead(s, n = Room(buf[s]))
    BY DEF ReadData
<1>2. /\ sent' = sent /\ fin' = fin /\ closing' = closing /\ delivered' = delivered
      /\ whole' = whole /\ state' \in {"COPY", "ERROR"}
    BY DEF ReadData
<1> DEFINE t == Other(s)
           c == Chunk(s, got[s], n)
           f == Fill(buf[s], c)
<1>3. t \in Side /\ t # s /\ Other(t) = s /\ \A x \in Side : x = s \/ x = t
    BY Sides
<1>4. /\ n \in Nat /\ n <= Room(buf[s]) /\ n > 0 /\ got[s] + n <= sent[s]
      /\ got[s] + n <= Len(Payload[s]) /\ got[s] \in Nat /\ Payload[s] \in Seq(Byte)
    <2>1. /\ sent[s] \in Nat /\ got[s] \in Nat /\ sent[s] <= Len(Payload[s])
          /\ Len(Payload[s]) \in Nat /\ Room(buf[s]) \in Nat /\ Payload[s] \in Seq(Byte)
        BY Direction, BufferSizeAssumption
    <2>2. n <= sent[s] - got[s]
        BY <1>1
    <2> QED
        BY <2>1, <2>2
<1>5. /\ c \in Seq(Byte) /\ Len(c) = n
      /\ SubSeq(Payload[s], 1, got[s]) \o c = SubSeq(Payload[s], 1, got[s] + n)
    <2> DEFINE p == Payload[s]
               g == got[s]
    <2>1. p \in Seq(Byte) /\ g \in Nat /\ n \in Nat /\ g + n <= Len(p)
        BY <1>4
    <2> HIDE DEF p, g
    <2>2. /\ SubSeq(p, g + 1, g + n) \in Seq(Byte) /\ Len(SubSeq(p, g + 1, g + n)) = n
          /\ SubSeq(p, 1, g) \o SubSeq(p, g + 1, g + n) = SubSeq(p, 1, g + n)
        BY <2>1, PrefixExtends
    <2> QED
        BY <2>2 DEF p, g, Chunk
<1> HIDE DEF c
<1>6. Sound(f) /\ Unread(f) = Unread(buf[s]) \o c
    BY <1>4, <1>5, Direction, FillAppends
<1> HIDE DEF f, t
<1>7. buf' \in [Side -> BufferRecord] /\ buf'[s] = f /\ buf'[t] = buf[t]
    BY <1>1, <1>3, <1>6, Sides DEF IInv, TypeOK, Sound, f, c
<1>8. got' \in [Side -> Nat] /\ got'[s] = got[s] + n /\ got'[t] = got[t]
    BY <1>1, <1>3, <1>4 DEF IInv, TypeOK
<1>9. /\ interest' \in [Side -> SUBSET {OP_READ, OP_WRITE}]
      /\ interest'[s] \subseteq interest[s]
    BY <1>1, ReadInterest
<1>10. BuffersSound'
    BY <1>3, <1>6, <1>7 DEF BuffersSound, Sound, Ordered, CanRead, Pending, Room, IInv
<1>11. TypeOK'
    <2>1. \A x \in Side : Ordered(buf[x])'
        BY <1>10 DEF BuffersSound, Sound, Ordered, CanRead, Pending, Room
    <2>2. \A x \in Side : got'[x] <= sent'[x]
        BY <1>2, <1>3, <1>4, <1>8 DEF IInv, TypeOK
    <2> QED
        BY <1>2, <1>7, <1>8, <1>9, <2>1, <2>2 DEF IInv, TypeOK
<1>12. NothingLostInside'
    <2>1. delivered'[t] \o Unread(f) = SubSeq(Payload[s], 1, got'[s])
        <3>1. delivered[t] \o Unread(buf[s]) = SubSeq(Payload[s], 1, got[s])
            BY DEF IInv, NothingLostInside, t
        <3>2. delivered[t] \o (Unread(buf[s]) \o c) = (delivered[t] \o Unread(buf[s])) \o c
            <4>1. delivered[t] \in Seq(Byte) /\ Unread(buf[s]) \in Seq(Byte)
                BY <1>3, Direction
            <4>2. c \in Seq(Byte)
                BY <1>5
            <4> QED
                BY <4>1, <4>2, ThreeParts
        <3> QED
            BY <1>2, <1>5, <1>6, <1>8, <3>1, <3>2
    <2>2. delivered'[s] \o Unread(buf[t]) = SubSeq(Payload[t], 1, got'[t])
        BY <1>2, <1>3, <1>8 DEF IInv, NothingLostInside
    <2> QED
        BY <1>3, <1>7, <2>1, <2>2 DEF NothingLostInside, Unread, Pending, t
<1>13. WriteInterestMeansData'
    <2>1. CanRead(f)
        <3>1. Len(Unread(f)) = Pending(f) /\ Pending(f) \in Int
            BY <1>6, UnreadIsSeq DEF Sound
        <3>2. Len(Unread(f)) = Pending(buf[s]) + n
            BY <1>5, <1>6, Direction, ConcatProperties
        <3> QED
            BY <1>4, <3>1, <3>2, Direction DEF CanRead
    <2>2. OP_WRITE \in interest'[s] => CanRead(buf[t])
        BY <1>9 DEF IInv, WriteInterestMeansData, t
    <2> QED
        BY <1>3, <1>7, <2>1, <2>2 DEF WriteInterestMeansData, CanRead, Pending, t
<1> QED
    BY <1>10, <1>11, <1>12, <1>13 DEF IInv

(* copy_write moves a prefix of the unread bytes to the descriptor. *)
LEMMA WriteDataKeeps == ASSUME IInv, NEW s \in Side, WriteData(s) PROVE IInv'
<1> DEFINE t == Other(s)
<1>1. PICK n \in 1 .. Pending(buf[t]) :
          /\ delivered' = [delivered EXCEPT ![s] = @ \o SubSeq(Unread(buf[t]), 1, n)]
          /\ buf' = [buf EXCEPT ![t] = Drain(@, n)]
          /\ interest' = InterestAfterWrite(s, n = Pending(buf[t]))
          /\ state' = AfterWrite(n = Pending(buf[t]))
    BY DEF WriteData, Source
<1>2. sent' = sent /\ got' = got /\ fin' = fin /\ closing' = closing
    BY DEF WriteData
<1>3. t \in Side /\ t # s /\ Other(t) = s /\ \A x \in Side : x = s \/ x = t
    BY Sides
<1> DEFINE h == SubSeq(Unread(buf[t]), 1, n)
           d == Drain(buf[t], n)
<1>4. n \in 0 .. Pending(buf[t]) /\ n \in Nat /\ Pending(buf[t]) \in Nat
    BY <1>3, Direction
<1>5. /\ Sound(d) /\ h \in Seq(Byte) /\ Len(h) = n
      /\ Unread(buf[t]) = h \o Unread(d)
    BY <1>3, <1>4, Direction, DrainDrops
<1> HIDE DEF t, h, d
<1>6. d \in BufferRecord /\ Unread(d) \in Seq(Byte) /\ Len(Unread(d)) = Pending(d)
    BY <1>5, UnreadIsSeq DEF Sound
<1>7. buf' \in [Side -> BufferRecord] /\ buf'[t] = d /\ buf'[s] = buf[s]
    BY <1>1, <1>3, <1>6 DEF IInv, TypeOK, d
<1>8. delivered[s] \o h \in Seq(Byte)
    BY <1>5, Direction, ConcatProperties
<1>9. /\ delivered' \in [Side -> Seq(Byte)] /\ delivered'[s] = delivered[s] \o h
      /\ delivered'[t] = delivered[t]
    BY <1>1, <1>3, <1>8 DEF IInv, TypeOK, h
<1>10. /\ interest' \in [Side -> SUBSET {OP_READ, OP_WRITE}]
       /\ interest'[s] = IF n = Pending(buf[t]) THEN interest[s] \ {OP_WRITE} ELSE interest[s]
       /\ OP_WRITE \in interest'[t] => OP_WRITE \in interest[t]
    <2>1. /\ interest' \in [Side -> SUBSET {OP_READ, OP_WRITE}]
          /\ interest'[s] = IF n = Pending(buf[t]) THEN interest[s] \ {OP_WRITE} ELSE interest[s]
          /\ interest'[Other(s)] = IF closing THEN interest[Other(s)]
                                   ELSE interest[Other(s)] \cup {OP_READ}
        BY <1>1, WriteInterest
    <2> QED
        BY <2>1, OpsDiffer DEF t
<1>11. BuffersSound'
    BY <1>3, <1>5, <1>7 DEF BuffersSound, Sound, Ordered, CanRead, Pending, Room, IInv
<1>12. TypeOK'
    <2>1. \A x \in Side : Ordered(buf[x])'
        BY <1>11 DEF BuffersSound, Sound, Ordered, CanRead, Pending, Room
    <2>2. state' \in {"COPY", "CLOSE_CONNECTION", "ERROR"}
        BY <1>1 DEF AfterWrite
    <2>3. whole' \in BOOLEAN
        BY DEF WriteData
    <2> QED
        BY <1>2, <1>7, <1>9, <1>10, <2>1, <2>2, <2>3 DEF IInv, TypeOK
<1>13. NothingLostInside'
    <2>1. delivered'[s] \o Unread(d) = SubSeq(Payload[t], 1, got'[t])
        <3>1. delivered[s] \o Unread(buf[t]) = SubSeq(Payload[t], 1, got[t])
            BY <1>3 DEF IInv, NothingLostInside
        <3>2. delivered[s] \o (h \o Unread(d)) = (delivered[s] \o h) \o Unread(d)
            <4>1. delivered[s] \in Seq(Byte)
                BY Direction
            <4>2. h \in Seq(Byte) /\ Unread(d) \in Seq(Byte)
                BY <1>5, <1>6
            <4> QED
                BY <4>1, <4>2, ThreeParts
        <3> QED
            BY <1>2, <1>5, <1>9, <3>1, <3>2
    <2>2. delivered'[t] \o Unread(buf[s]) = SubSeq(Payload[s], 1, got'[s])
        BY <1>2, <1>9 DEF IInv, NothingLostInside, t
    <2> QED
        BY <1>3, <1>7, <2>1, <2>2 DEF NothingLostInside, Unread, Pending, t
<1>14. WriteInterestMeansData'
    <2>1. OP_WRITE \in interest'[s] => CanRead(d)
        <3>1. Len(Unread(buf[t])) = n + Pending(d) /\ Len(Unread(buf[t])) = Pending(buf[t])
            <4>1. Len(Unread(buf[t])) = Pending(buf[t])
                BY <1>3, Direction
            <4>2. Len(h \o Unread(d)) = Len(h) + Len(Unread(d))
                BY <1>5, <1>6, ConcatProperties
            <4> QED
                BY <1>5, <1>6, <4>1, <4>2
        <3>2. Pending(d) \in Int
            BY <1>5, <1>6, UnreadIsSeq DEF Sound
        <3> QED
            BY <1>4, <1>10, <3>1, <3>2 DEF CanRead
    <2>2. OP_WRITE \in interest'[t] => CanRead(buf[s])
        BY <1>3, <1>10 DEF IInv, WriteInterestMeansData
    <2> QED
        BY <1>3, <1>7, <2>1, <2>2 DEF WriteInterestMeansData, CanRead, Pending, t
<1> QED
    BY <1>11, <1>12, <1>13, <1>14 DEF IInv

(* The steps that move no bytes keep the buffers and the histories; at     *)
(* most they turn OP_READ off or take a peer's side forward.               *)
LEMMA NoBytesKeeps ==
    ASSUME IInv, UNCHANGED <<got, buf, delivered>>,
           sent' \in [Side -> Nat],
           \A s \in Side : sent[s] <= sent'[s] /\ sent'[s] <= Len(Payload[s]),
           fin' \in [Side -> {"open", "eof", "reset", "failed"}],
           interest' \in [Side -> SUBSET {OP_READ, OP_WRITE}],
           \A s \in Side : interest'[s] \subseteq interest[s],
           closing' \in BOOLEAN, whole' \in BOOLEAN,
           state' \in {"COPY", "CLOSE_CONNECTION", "ERROR"}
    PROVE  IInv'
<1>1. \A s \in Side : got[s] \in Nat /\ sent[s] \in Nat /\ sent'[s] \in Nat /\ got[s] <= sent[s]
    BY DEF IInv, TypeOK
<1>2. \A s \in Side : got'[s] <= sent'[s]
    <2> SUFFICES ASSUME NEW s \in Side PROVE got[s] <= sent'[s]
        OBVIOUS
    <2> QED
        BY <1>1
<1>3. TypeOK'
    BY <1>2 DEF IInv, TypeOK, Ordered
<1>4. BuffersSound' /\ NothingLostInside'
    BY DEF IInv, BuffersSound, NothingLostInside, Sound, Ordered, CanRead, Pending, Room, Unread
<1>5. WriteInterestMeansData'
    BY DEF IInv, WriteInterestMeansData, CanRead, Pending
<1> QED
    BY <1>3, <1>4, <1>5 DEF IInv

LEMMA NextIInv == IInv /\ [Next]_vars => IInv'
<1> SUFFICES ASSUME IInv, [Next]_vars PROVE IInv'
    OBVIOUS
<1>1. /\ sent \in [Side -> Nat] /\ \A s \in Side : sent[s] <= Len(Payload[s])
      /\ got \in [Side -> Nat] /\ closing \in BOOLEAN /\ whole \in BOOLEAN
      /\ fin \in [Side -> {"open", "eof", "reset", "failed"}]
      /\ interest \in [Side -> SUBSET {OP_READ, OP_WRITE}]
      /\ state \in {"COPY", "CLOSE_CONNECTION", "ERROR"}
    BY DEF IInv, TypeOK
<1>2. \A s \in Side : Len(Payload[s]) \in Nat
    BY Direction
<1>3. ASSUME NEW s \in Side, PeerSends(s) PROVE IInv'
    <2>1. sent' \in [Side -> Nat]
        BY <1>1, <1>3 DEF PeerSends
    <2>2. \A x \in Side : sent[x] <= sent'[x] /\ sent'[x] <= Len(Payload[x])
        BY <1>1, <1>2, <1>3 DEF PeerSends
    <2> QED
        BY <1>1, <1>3, <2>1, <2>2, NoBytesKeeps DEF PeerSends
<1>4. ASSUME UNCHANGED <<sent, got, buf, delivered>>,
             fin' \in [Side -> {"open", "eof", "reset", "failed"}],
             interest' \in [Side -> SUBSET {OP_READ, OP_WRITE}],
             \A s \in Side : interest'[s] \subseteq interest[s],
             closing' \in BOOLEAN, whole' \in BOOLEAN,
             state' \in {"COPY", "CLOSE_CONNECTION", "ERROR"}
      PROVE  IInv'
    <2>1. \A s \in Side : sent[s] <= sent'[s] /\ sent'[s] <= Len(Payload[s])
        BY <1>1, <1>2, <1>4
    <2>2. sent' \in [Side -> Nat]
        BY <1>1, <1>4
    <2> QED
        BY <1>4, <2>1, <2>2, NoBytesKeeps
<1>5. ASSUME NEW s \in Side, PeerCloses(s) PROVE IInv'
    <2>1. fin' \in [Side -> {"open", "eof", "reset", "failed"}]
        BY <1>1, <1>5 DEF PeerCloses
    <2> QED
        BY <1>1, <1>4, <1>5, <2>1 DEF PeerCloses
<1>6. ASSUME NEW s \in Side, PeerBreaks(s) PROVE IInv'
    <2>1. fin' \in [Side -> {"open", "eof", "reset", "failed"}]
        BY <1>1, <1>6 DEF PeerBreaks
    <2> QED
        BY <1>1, <1>4, <1>6, <2>1 DEF PeerBreaks
<1>7. ASSUME NEW s \in Side, ReadEnd(s) PROVE IInv'
    <2>1. /\ interest' \in [Side -> SUBSET {OP_READ, OP_WRITE}]
          /\ \A x \in Side : interest'[x] \subseteq interest[x]
        BY <1>1, <1>7 DEF ReadEnd
    <2>2. closing' \in BOOLEAN /\ state' \in {"COPY", "CLOSE_CONNECTION", "ERROR"}
        BY <1>1, <1>7 DEF ReadEnd
    <2> QED
        BY <1>1, <1>4, <1>7, <2>1, <2>2 DEF ReadEnd
<1>8. ASSUME NEW s \in Side, ReadFails(s) PROVE IInv'
    BY <1>1, <1>4, <1>8 DEF ReadFails
<1>9. ASSUME NEW s \in Side, WriteFails(s) PROVE IInv'
    BY <1>1, <1>4, <1>9 DEF WriteFails
<1>10. CASE UNCHANGED vars
    BY <1>1, <1>4, <1>10 DEF vars
<1>11. CASE Over
    BY <1>10, <1>11 DEF Over
<1> QED
    BY <1>3, <1>5, <1>6, <1>7, <1>8, <1>9, <1>10, <1>11, ReadDataKeeps, WriteDataKeeps DEF Next

-----------------------------------------------------------------------------
(* The connection's state keeps its types, whatever the peers do. *)
THEOREM CopyTypeCorrect == Spec => []TypeOK
<1>1. IInv => TypeOK
    BY DEF IInv
<1> QED
    BY <1>1, InitIInv, NextIInv, PTL DEF Spec

(* Partial sends, full buffers and compactions lose, repeat and swap       *)
(* nothing between the two descriptors.                                    *)
THEOREM CopyLosesNothing == Spec => []NothingLostInside
<1>1. IInv => NothingLostInside
    BY DEF IInv
<1> QED
    BY <1>1, InitIInv, NextIInv, PTL DEF Spec

(* copy_write is never called for a descriptor with nothing to send, which *)
(* it would take for an error.                                             *)
THEOREM CopyNeverSendsNothing == Spec => []WriteInterestMeansData
<1>1. IInv => WriteInterestMeansData
    BY DEF IInv
<1> QED
    BY <1>1, InitIInv, NextIInv, PTL DEF Spec

(* copy_read never takes a full buffer for the end of the stream: recv()   *)
(* with no room returns 0 too, but then the buffer is not empty.           *)
THEOREM CopyClosesAtTheEnd == Spec => CloseAtOnceMeansEnd
<1>1. IInv => \A s \in Side : ReadEnd(s) /\ state' = "CLOSE_CONNECTION" => got[s] = sent[s]
    <2> SUFFICES ASSUME IInv, NEW s \in Side, ReadEnd(s), state' = "CLOSE_CONNECTION"
                 PROVE  got[s] = sent[s]
        OBVIOUS
    <2>1. ~ CanRead(buf[s])
        BY DEF ReadEnd, EndsAtOnce
    <2>2. CanWrite(buf[s])
        BY <2>1, BufferSizeAssumption DEF IInv, BuffersSound, Sound, CanWrite
    <2> QED
        BY <2>2 DEF ReadEnd, AtEnd
<1> QED
    BY <1>1, InitIInv, NextIInv, PTL DEF Spec, CloseAtOnceMeansEnd

-----------------------------------------------------------------------------
(* A buffer is empty after all of it was sent. *)
LEMMA DrainedIsEmpty ==
    ASSUME NEW bf \in BufferRecord
    PROVE  ~ CanRead(Drain(bf, Pending(bf)))
<1> DEFINE c == [bf EXCEPT !.read = bf.read + Pending(bf)]
<1>1. bf.read \in Int /\ bf.write \in Int
    BY BufferSizeAssumption DEF BufferRecord
<1>2. c.read = c.write
    BY <1>1 DEF BufferRecord, Pending
<1>3. Drain(bf, Pending(bf)) = Compact(c)
    BY <1>2 DEF Drain
<1>4. Pending(c) = 0
    <2>1. c.write = bf.write
        BY DEF BufferRecord
    <2> HIDE DEF c
    <2> QED
        BY <1>1, <1>2, <2>1 DEF Pending
<1> HIDE DEF c
<1>5. Compact(c).read = 0 /\ Compact(c).write = 0
    BY <1>4 DEF Compact
<1> QED
    BY <1>3, <1>5 DEF CanRead, Pending

(* Backpressure.  Both facts are inductive over IInv: an interest is only  *)
(* turned off when the buffer is full, drained, or the source at its end.  *)
LEMMA InitBackpressure == Init => NoSilentStop /\ OnlyEarlyBytesParked
<1> SUFFICES ASSUME Init PROVE NoSilentStop /\ OnlyEarlyBytesParked
    OBVIOUS
<1>1. /\ interest = [s \in Side |-> {OP_READ}] /\ delivered = [s \in Side |-> <<>>]
      /\ got = sent
    BY DEF Init
<1>2. NoSilentStop
    BY <1>1 DEF NoSilentStop
<1>3. PICK early \in 0 .. MaxEarly :
          /\ sent = [s \in Side |-> IF s = "client" THEN early ELSE 0]
          /\ \E offset \in IF early = 0 THEN {0} ELSE 1 .. BufferSize - early :
                buf = [s \in Side |-> IF s = "client" THEN Leftover(offset, early) ELSE Empty]
    BY DEF Init
<1>4. got["client"] <= MaxEarly
    BY <1>1, <1>3, MaxEarlyAssumption DEF Side
<1>5. ~ CanRead(buf["origin"])
    <2>1. buf["origin"] = Empty
        BY <1>3 DEF Side
    <2>2. Empty.read = 0 /\ Empty.write = 0
        BY DEF Empty, BufferInit
    <2> QED
        BY <2>1, <2>2 DEF CanRead, Pending
<1>6. OnlyEarlyBytesParked
    BY <1>1, <1>4, <1>5 DEF OnlyEarlyBytesParked, Parked, Side
<1> QED
    BY <1>2, <1>6

LEMMA NextNoSilentStop == IInv /\ NoSilentStop /\ [Next]_vars => NoSilentStop'
<1> SUFFICES ASSUME IInv, NoSilentStop, [Next]_vars, state' = "COPY", NEW r \in Side
             PROVE  \/ OP_READ \in interest'[r]
                    \/ OP_WRITE \in interest'[Other(r)]
                    \/ (closing' /\ Parked(r)')
    BY DEF NoSilentStop
<1>1. interest \in [Side -> SUBSET {OP_READ, OP_WRITE}]
    BY DEF IInv, TypeOK
<1>2. /\ Other(r) \in Side /\ Other(r) # r /\ Other(Other(r)) = r
      /\ \A s \in Side : s = r \/ s = Other(r)
    BY Sides
<1>3. state = "COPY" =>
          OP_READ \in interest[r] \/ OP_WRITE \in interest[Other(r)] \/ (closing /\ Parked(r))
    BY DEF NoSilentStop
<1>4. ASSUME NEW s \in Side, ReadData(s)
      PROVE  OP_READ \in interest'[r] \/ OP_WRITE \in interest'[Other(r)]
                \/ (closing' /\ Parked(r)')
    <2>1. PICK n \in 1 .. Room(buf[s]) :
              /\ buf' = [buf EXCEPT ![s] = Fill(@, Chunk(s, got[s], n))]
              /\ interest' = InterestAfterRead(s, n = Room(buf[s]))
        BY <1>4 DEF ReadData
    <2>2. /\ interest'[s] = IF n = Room(buf[s]) THEN interest[s] \ {OP_READ} ELSE interest[s]
          /\ interest'[Other(s)] = interest[Other(s)] \cup {OP_WRITE}
        BY <2>1, ReadInterest
    <2>3. CASE s = r
        BY <2>2, <2>3
    <2>4. CASE s = Other(r)
        <3>1. interest'[r] = interest[r] \cup {OP_WRITE}
            BY <1>2, <2>2, <2>4
        <3>2. OP_WRITE \in interest[Other(r)] => OP_WRITE \in interest'[Other(r)]
            BY <2>2, <2>4, OpsDiffer
        <3>3. buf'[r] = buf[r] /\ closing' = closing /\ state = "COPY"
            BY <1>2, <1>4, <2>1, <2>4 DEF IInv, TypeOK, ReadData
        <3>4. Parked(r) => Parked(r)' \/ OP_WRITE \in interest'[Other(r)]
            BY <3>3 DEF Parked, CanRead, Pending
        <3> QED
            BY <1>3, <3>1, <3>2, <3>3, <3>4
    <2> QED
        BY <1>2, <2>3, <2>4
<1>5. ASSUME NEW s \in Side, WriteData(s)
      PROVE  OP_READ \in interest'[r] \/ OP_WRITE \in interest'[Other(r)]
                \/ (closing' /\ Parked(r)')
    <2> DEFINE t == Other(s)
    <2>1. PICK n \in 1 .. Pending(buf[t]) :
              /\ interest' = InterestAfterWrite(s, n = Pending(buf[t]))
              /\ state' = AfterWrite(n = Pending(buf[t]))
        BY <1>5 DEF WriteData, Source
    <2>2. ~ closing
        BY <2>1 DEF AfterWrite
    <2>3. /\ interest'[s] = IF n = Pending(buf[t]) THEN interest[s] \ {OP_WRITE} ELSE interest[s]
          /\ interest'[Other(s)] = IF closing THEN interest[Other(s)]
                                   ELSE interest[Other(s)] \cup {OP_READ}
        BY <2>1, WriteInterest
    <2>4. CASE s = r
        <3>1. OP_READ \in interest[r] => OP_READ \in interest'[r]
            BY <2>3, <2>4, OpsDiffer
        <3>2. OP_WRITE \in interest[Other(r)] => OP_WRITE \in interest'[Other(r)]
            BY <2>2, <2>3, <2>4
        <3> QED
            BY <1>3, <1>5, <2>2, <3>1, <3>2 DEF WriteData
    <2>5. CASE s = Other(r)
        BY <1>2, <2>2, <2>3, <2>5
    <2> QED
        BY <1>2, <2>4, <2>5
<1>6. ASSUME NEW s \in Side, ReadEnd(s)
      PROVE  OP_READ \in interest'[r] \/ OP_WRITE \in interest'[Other(r)]
                \/ (closing' /\ Parked(r)')
    <2>1. /\ interest' = [interest EXCEPT ![s] = @ \ {OP_READ}]
          /\ CanRead(buf[s]) /\ closing' = TRUE /\ buf' = buf /\ state = "COPY"
        BY <1>6 DEF ReadEnd, EndsAtOnce
    <2>2. /\ \A x \in Side : OP_WRITE \in interest[x] => OP_WRITE \in interest'[x]
          /\ \A x \in Side : x # s => interest'[x] = interest[x]
        BY <1>1, <2>1, OpsDiffer
    <2>3. CASE s = r
        <3>1. CanRead(buf[r])'
            BY <2>1, <2>3 DEF CanRead, Pending
        <3> QED
            BY <2>1, <3>1 DEF Parked
    <2>4. CASE s # r
        <3>1. interest'[r] = interest[r]
            BY <2>2, <2>4
        <3>2. OP_WRITE \in interest[Other(r)] => OP_WRITE \in interest'[Other(r)]
            BY <1>2, <2>2
        <3>3. Parked(r) => Parked(r)' \/ OP_WRITE \in interest'[Other(r)]
            BY <2>1 DEF Parked, CanRead, Pending
        <3> QED
            BY <1>3, <2>1, <3>1, <3>2, <3>3
    <2> QED
        BY <2>3, <2>4
<1>7. ASSUME UNCHANGED <<buf, interest, closing>>, state = "COPY"
      PROVE  OP_READ \in interest'[r] \/ OP_WRITE \in interest'[Other(r)]
                \/ (closing' /\ Parked(r)')
    BY <1>3, <1>7 DEF Parked, CanRead, Pending
<1> QED
    BY <1>4, <1>5, <1>6, <1>7
    DEF Next, PeerSends, PeerCloses, PeerBreaks, ReadFails, WriteFails, Over, vars

LEMMA NextOnlyEarly ==
    IInv /\ OnlyEarlyBytesParked /\ [Next]_vars => OnlyEarlyBytesParked'
<1> SUFFICES ASSUME IInv, OnlyEarlyBytesParked, [Next]_vars,
                    state' = "COPY", NEW r \in Side, Parked(r)'
             PROVE  r = "client" /\ delivered'["origin"] = <<>> /\ got'["client"] <= MaxEarly
    BY DEF OnlyEarlyBytesParked
<1> DEFINE Goal == r = "client" /\ delivered'["origin"] = <<>> /\ got'["client"] <= MaxEarly
<1>1. /\ interest \in [Side -> SUBSET {OP_READ, OP_WRITE}]
      /\ buf \in [Side -> BufferRecord]
    BY DEF IInv, TypeOK
<1>2. /\ Other(r) \in Side /\ Other(r) # r /\ Other(Other(r)) = r
      /\ \A s \in Side : s = r \/ s = Other(r)
    BY Sides
<1>3. state = "COPY" /\ Parked(r) =>
          r = "client" /\ delivered["origin"] = <<>> /\ got["client"] <= MaxEarly
    BY DEF OnlyEarlyBytesParked
<1>4. ASSUME NEW s \in Side, ReadData(s) PROVE Goal
    <2>1. PICK n \in 1 .. Room(buf[s]) :
              /\ buf' = [buf EXCEPT ![s] = Fill(@, Chunk(s, got[s], n))]
              /\ got' = [got EXCEPT ![s] = @ + n]
              /\ interest' = InterestAfterRead(s, n = Room(buf[s]))
        BY <1>4 DEF ReadData
    <2>2. /\ interest'[s] = IF n = Room(buf[s]) THEN interest[s] \ {OP_READ} ELSE interest[s]
          /\ interest'[Other(s)] = interest[Other(s)] \cup {OP_WRITE}
        BY <2>1, ReadInterest
    <2>3. s # r
        BY <2>2 DEF Parked
    <2>4. /\ buf'[r] = buf[r] /\ got'[r] = got[r] /\ delivered' = delivered /\ state = "COPY"
        BY <1>1, <1>4, <2>1, <2>3 DEF ReadData, IInv, TypeOK
    <2>5. OP_WRITE \notin interest[Other(r)]
        BY <1>2, <2>2, <2>3, OpsDiffer DEF Parked
    <2>6. Parked(r)
        BY <2>4, <2>5 DEF Parked, CanRead, Pending
    <2> QED
        BY <1>3, <2>4, <2>6
<1>5. ASSUME NEW s \in Side, WriteData(s) PROVE Goal
    <2> DEFINE t == Other(s)
    <2>1. PICK n \in 1 .. Pending(buf[t]) :
              /\ delivered' = [delivered EXCEPT ![s] = @ \o SubSeq(Unread(buf[t]), 1, n)]
              /\ buf' = [buf EXCEPT ![t] = Drain(@, n)]
              /\ interest' = InterestAfterWrite(s, n = Pending(buf[t]))
              /\ state' = AfterWrite(n = Pending(buf[t]))
        BY <1>5 DEF WriteData, Source
    <2>2. /\ interest'[s] = IF n = Pending(buf[t]) THEN interest[s] \ {OP_WRITE} ELSE interest[s]
          /\ interest'[Other(s)] = IF closing THEN interest[Other(s)]
                                   ELSE interest[Other(s)] \cup {OP_READ}
        BY <2>1, WriteInterest
    <2>3. WriteInterestMeansData'
        BY WriteDataKeeps, <1>5 DEF IInv
    <2>4. OP_WRITE \in interest[s]
        BY <1>5 DEF WriteData
    <2>5. CASE s = Other(r)
        <3>1. t = r /\ t \in Side
            BY <1>2, <2>5
        <3>2. n = Pending(buf[r])
            BY <2>2, <2>4, <2>5, <3>1 DEF Parked
        <3>3. ~ CanRead(Drain(buf[r], n))
            BY <3>2, DrainedIsEmpty, Direction
        <3>4. buf'[r] = Drain(buf[r], n)
            BY <1>1, <2>1, <3>1
        <3> QED
            BY <3>3, <3>4 DEF Parked, CanRead, Pending
    <2>6. CASE s = r
        <3>2. buf'[r] = buf[r]
            BY <1>1, <1>2, <2>1, <2>6
        <3>3. OP_WRITE \notin interest[Other(r)]
            BY <2>2, <2>6, OpsDiffer DEF Parked
        <3>4. Parked(r)
            BY <3>2, <3>3 DEF Parked, CanRead, Pending
        <3>5. r = "client" /\ delivered["origin"] = <<>> /\ got["client"] <= MaxEarly
            BY <1>3, <1>5, <3>4 DEF WriteData
        <3>6. delivered'["origin"] = delivered["origin"] /\ got' = got
            BY <1>5, <2>1, <2>6, <3>5 DEF WriteData, IInv, TypeOK, Side
        <3> QED
            BY <3>5, <3>6
    <2> QED
        BY <1>2, <2>5, <2>6
<1>6. ASSUME NEW s \in Side, ReadEnd(s) PROVE Goal
    <2>1. /\ interest' = [interest EXCEPT ![s] = @ \ {OP_READ}]
          /\ UNCHANGED <<buf, got, delivered>> /\ state = "COPY"
        BY <1>6 DEF ReadEnd
    <2>2. OP_WRITE \notin interest[Other(r)]
        BY <1>1, <1>2, <2>1, OpsDiffer DEF Parked
    <2> QED
        BY <1>3, <2>1, <2>2 DEF Parked, CanRead, Pending
<1>7. ASSUME UNCHANGED <<buf, interest, got, delivered>>, state = "COPY" PROVE Goal
    BY <1>3, <1>7 DEF Parked, CanRead, Pending
<1> QED
    BY <1>4, <1>5, <1>6, <1>7
    DEF Next, PeerSends, PeerCloses, PeerBreaks, ReadFails, WriteFails, Over, vars

(* A throttled direction is either being written or closing: it never      *)
(* stops for good with nobody to start it again.                           *)
THEOREM CopyNeverStopsSilently == Spec => []NoSilentStop
BY InitIInv, InitBackpressure, NextIInv, NextNoSilentStop, PTL DEF Spec

(* Bytes wait with nobody asked to write them only when they came behind   *)
(* the request.                                                            *)
THEOREM CopyParksOnlyEarlyBytes == Spec => []OnlyEarlyBytesParked
BY InitIInv, InitBackpressure, NextIInv, NextOnlyEarly, PTL DEF Spec

-----------------------------------------------------------------------------
(* An orderly end of a connection whose other side only listened.          *)

LEMMA FillTakesRoom ==
    ASSUME NEW bf \in BufferRecord, NEW c, Len(c) \in Nat
    PROVE  Room(Fill(bf, c)) = Room(bf) - Len(c)
<1>1. bf.write \in Int /\ Fill(bf, c).write = bf.write + Len(c)
    BY BufferSizeAssumption DEF BufferRecord, Fill
<1> QED
    BY <1>1, BufferSizeAssumption DEF Room

(* With nothing left to send, the other side has all that was received. *)
LEMMA EmptyMeansDelivered ==
    ASSUME IInv, NEW s \in Side, ~ CanRead(buf[s])
    PROVE  Len(delivered[Other(s)]) = got[s]
<1> DEFINE p == Payload[s]
           g == got[s]
<1>1. Unread(buf[s]) \in Seq(Byte) /\ Len(Unread(buf[s])) = 0
    BY Direction DEF CanRead
<1>2. delivered[Other(s)] \in Seq(Byte)
    BY Sides, Direction
<1>3. delivered[Other(s)] \o Unread(buf[s]) = delivered[Other(s)]
    BY <1>1, <1>2, EmptySeq, ConcatEmptySeq
<1>4. p \in Seq(Byte) /\ g \in Nat /\ g + 0 <= Len(p)
    <2>1. sent[s] \in Nat /\ Len(p) \in Nat /\ g <= sent[s] /\ sent[s] <= Len(p) /\ g \in Nat
        BY Direction
    <2> QED
        BY <2>1, Direction
<1> HIDE DEF p, g
<1>5. Len(SubSeq(p, 1, g)) = g
    BY <1>4, PrefixExtends
<1> QED
    BY <1>3, <1>5 DEF IInv, NothingLostInside, p, g

(* A quiet connection still in COPY either has its sender's end ahead, or  *)
(* was told of it with all of the stream received; or it waits behind      *)
(* early bytes.                                                            *)
Quiet(s) ==
    state = "COPY" /\ Undisturbed(s) =>
        /\ OP_READ \in interest[s] => CanWrite(buf[s]) \/ Parked(s)
        /\ closing => /\ OP_READ \notin interest[s]
                      /\ CanRead(buf[s])
                      /\ Parked(s) \/ (got[s] = sent[s] /\ fin[s] # "open")

QuietlyOver(s) ==
    state = "CLOSE_CONNECTION" /\ Undisturbed(s) =>
        fin[s] # "open" /\ Len(delivered[Other(s)]) = sent[s]

QuietInv == \A s \in Side : Quiet(s) /\ QuietlyOver(s)

LEMMA InitQuiet == Init => QuietInv
<1> SUFFICES ASSUME Init, NEW s \in Side PROVE Quiet(s) /\ QuietlyOver(s)
    BY DEF QuietInv
<1>1. /\ IInv /\ state = "COPY" /\ closing = FALSE
      /\ interest[Other(s)] = {OP_READ}
    BY InitIInv, Sides DEF Init
<1>2. ~ CanRead(buf[s]) => CanWrite(buf[s])
    BY <1>1, BufferSizeAssumption DEF IInv, BuffersSound, Sound, CanWrite
<1> QED
    BY <1>1, <1>2, OpsDiffer DEF Quiet, QuietlyOver, Parked

(* What a silent side has not sent is neither buffered nor written. *)
LEMMA SilentSide ==
    ASSUME IInv, NEW s \in Side, Undisturbed(s)
    PROVE  LET t == Other(s)
           IN  /\ fin[t] = "open" /\ sent[t] = 0 /\ got[t] = 0 /\ whole
               /\ OP_WRITE \notin interest[s]
               /\ CanWrite(buf[t])
<1> DEFINE t == Other(s)
<1>1. t \in Side /\ Other(t) = s
    BY Sides
<1>2. fin[t] = "open" /\ sent[t] = 0 /\ got[t] = 0 /\ whole
    BY <1>1, Direction DEF Undisturbed
<1>3. ~ CanRead(buf[t])
    <2>1. delivered[s] \o Unread(buf[t]) = SubSeq(Payload[t], 1, 0)
        BY <1>1, <1>2 DEF IInv, NothingLostInside
    <2>2. delivered[s] \in Seq(Byte) /\ Unread(buf[t]) \in Seq(Byte)
        BY <1>1, Direction
    <2>3. Len(delivered[s] \o Unread(buf[t])) = Len(delivered[s]) + Len(Unread(buf[t]))
        BY <2>2, ConcatProperties
    <2>4. Len(SubSeq(Payload[t], 1, 0)) = 0
        BY SubSeqEmpty, EmptySeq
    <2>5. Len(delivered[s]) \in Nat /\ Len(Unread(buf[t])) \in Nat
        BY <2>2, LenProperties
    <2>6. Len(Unread(buf[t])) = 0
        <3> DEFINE a == Len(delivered[s])
                   u == Len(Unread(buf[t]))
        <3>1. a + u = 0
            BY <2>1, <2>3, <2>4
        <3>2. a \in Nat /\ u \in Nat
            BY <2>5
        <3> HIDE DEF a, u
        <3>3. u = 0
            BY <3>1, <3>2
        <3> QED
            BY <3>3 DEF u
    <2> QED
        BY <1>1, <2>6, Direction DEF CanRead
<1>4. OP_WRITE \notin interest[s]
    BY <1>3 DEF IInv, WriteInterestMeansData
<1>5. CanWrite(buf[t])
    BY <1>1, <1>3, BufferSizeAssumption DEF IInv, BuffersSound, Sound, CanWrite
<1> QED
    BY <1>2, <1>4, <1>5

(* A side is never made quiet by a step. *)
LEMMA UndisturbedBefore ==
    ASSUME IInv, [Next]_vars, NEW s \in Side, Undisturbed(s)'
    PROVE  Undisturbed(s)
<1> DEFINE t == Other(s)
<1>1. t \in Side /\ fin'[t] = "open" /\ sent'[t] = 0 /\ whole'
    BY Sides DEF Undisturbed
<1>2. /\ sent \in [Side -> Nat] /\ fin \in [Side -> {"open", "eof", "reset", "failed"}]
      /\ whole \in BOOLEAN
    BY DEF IInv, TypeOK
<1>3. ASSUME NEW x \in Side, PeerSends(x) PROVE Undisturbed(s)
    BY <1>1, <1>2, <1>3 DEF PeerSends, Undisturbed
<1>4. ASSUME NEW x \in Side, PeerCloses(x) \/ PeerBreaks(x) PROVE Undisturbed(s)
    <2>1. fin[t] = "open"
        BY <1>1, <1>2, <1>4 DEF PeerCloses, PeerBreaks
    <2> QED
        BY <1>1, <1>4, <2>1 DEF PeerCloses, PeerBreaks, Undisturbed
<1>5. ASSUME UNCHANGED <<sent, fin>>, whole' => whole PROVE Undisturbed(s)
    BY <1>1, <1>5 DEF Undisturbed
<1>6. ASSUME NEW x \in Side, WriteData(x) PROVE Undisturbed(s)
    <2>1. whole' => whole
        BY <1>6 DEF WriteData
    <2> QED
        BY <1>5, <1>6, <2>1 DEF WriteData
<1>7. ASSUME NEW x \in Side, ReadData(x) \/ ReadEnd(x) \/ ReadFails(x) \/ WriteFails(x)
      PROVE  Undisturbed(s)
    BY <1>5, <1>7 DEF ReadData, ReadEnd, ReadFails, WriteFails
<1>8. CASE UNCHANGED vars
    BY <1>5, <1>8 DEF vars
<1> QED
    BY <1>3, <1>4, <1>6, <1>7, <1>8 DEF Next, Over

LEMMA NextQuiet == IInv /\ QuietInv /\ [Next]_vars => QuietInv'
<1> SUFFICES ASSUME IInv, QuietInv, [Next]_vars, NEW s \in Side, Undisturbed(s)'
             PROVE  Quiet(s)' /\ QuietlyOver(s)'
    BY DEF QuietInv, Quiet, QuietlyOver
<1> DEFINE t == Other(s)
<1>1. t \in Side /\ t # s /\ Other(t) = s /\ \A x \in Side : x = s \/ x = t
    BY Sides
<1>2. Quiet(s) /\ QuietlyOver(s) /\ Undisturbed(s) /\ IInv'
    BY UndisturbedBefore, NextIInv DEF QuietInv
<1>3. /\ fin[t] = "open" /\ sent[t] = 0 /\ got[t] = 0
      /\ OP_WRITE \notin interest[s] /\ CanWrite(buf[t])
      /\ fin'[t] = "open" /\ sent'[t] = 0 /\ whole'
    BY <1>2, SilentSide DEF Undisturbed
<1>4. /\ sent \in [Side -> Nat] /\ fin \in [Side -> {"open", "eof", "reset", "failed"}]
      /\ interest \in [Side -> SUBSET {OP_READ, OP_WRITE}] /\ closing \in BOOLEAN
      /\ buf \in [Side -> BufferRecord] /\ got \in [Side -> Nat]
    BY DEF IInv, TypeOK
<1>5. ASSUME UNCHANGED <<sent, got, buf, interest, closing, delivered, state>>,
             fin[s] # "open" => fin'[s] # "open"
      PROVE  Quiet(s)' /\ QuietlyOver(s)'
    BY <1>2, <1>5 DEF Quiet, QuietlyOver, Parked, CanRead, CanWrite, Pending, Room
<1>6. ASSUME NEW x \in Side, PeerSends(x) PROVE Quiet(s)' /\ QuietlyOver(s)'
    <2>1. x = s
        BY <1>1, <1>3, <1>4, <1>6 DEF PeerSends
    <2>2. /\ fin[s] = "open" /\ UNCHANGED <<got, buf, interest, closing, state>>
        BY <1>6, <2>1 DEF PeerSends
    <2> QED
        BY <1>2, <2>2 DEF Quiet, QuietlyOver, Parked, CanRead, CanWrite, Pending, Room
<1>7. ASSUME NEW x \in Side, PeerCloses(x) \/ PeerBreaks(x) PROVE Quiet(s)' /\ QuietlyOver(s)'
    <2>1. fin'[x] # "open"
        BY <1>4, <1>7 DEF PeerCloses, PeerBreaks
    <2>2. x = s
        BY <1>1, <1>3, <2>1
    <2> QED
        BY <1>5, <1>7, <2>1, <2>2 DEF PeerCloses, PeerBreaks
<1>8. ASSUME NEW x \in Side, ReadData(x) PROVE Quiet(s)' /\ QuietlyOver(s)'
    <2>1. PICK n \in 1 .. Room(buf[x]) :
              /\ n <= sent[x] - got[x]
              /\ buf' = [buf EXCEPT ![x] = Fill(@, Chunk(x, got[x], n))]
              /\ interest' = InterestAfterRead(x, n = Room(buf[x]))
        BY <1>8 DEF ReadData
    <2>2. x = s
        BY <1>1, <1>3, <2>1
    <2>3. /\ closing' = closing /\ state = "COPY" /\ state' \in {"COPY", "ERROR"}
          /\ OP_READ \in interest[s]
        BY <1>8, <2>2 DEF ReadData
    <2>4. ~ closing
        BY <1>2, <2>3 DEF Quiet
    <2>5. OP_READ \in interest'[s] => n # Room(buf[s])
        BY <2>1, <2>2, ReadInterest
    <2>6. Room(buf'[s]) = Room(buf[s]) - n
        <3> DEFINE p == Payload[s]
                   g == got[s]
        <3>1. p \in Seq(Byte) /\ g \in Nat /\ n \in Nat /\ g + n <= Len(p)
            <4>1. /\ sent[s] \in Nat /\ g \in Nat /\ sent[s] <= Len(p) /\ Len(p) \in Nat
                  /\ Room(buf[s]) \in Nat /\ p \in Seq(Byte)
                BY Direction, BufferSizeAssumption
            <4>2. n <= sent[s] - g
                BY <2>1, <2>2
            <4> QED
                BY <4>1, <4>2
        <3> HIDE DEF p, g
        <3>2. Len(SubSeq(p, g + 1, g + n)) = n
            BY <3>1, PrefixExtends
        <3>3. Len(Chunk(s, got[s], n)) = n
            BY <3>2 DEF Chunk, p, g
        <3>4. buf'[s] = Fill(buf[s], Chunk(s, got[s], n)) /\ buf[s] \in BufferRecord
            BY <1>4, <2>1, <2>2
        <3> QED
            BY <3>1, <3>3, <3>4, FillTakesRoom
    <2>7. OP_READ \in interest'[s] => CanWrite(buf'[s])
        <3>1. Room(buf[s]) \in Nat /\ n \in 1 .. Room(buf[s])
            BY <2>1, <2>2, Direction, BufferSizeAssumption
        <3> QED
            BY <2>5, <2>6, <3>1 DEF CanWrite
    <2> QED
        BY <2>3, <2>4, <2>7 DEF Quiet, QuietlyOver, CanWrite, Room
<1>9. ASSUME NEW x \in Side, ReadEnd(x) PROVE Quiet(s)' /\ QuietlyOver(s)'
    <2>1. x = s
        BY <1>1, <1>3, <1>9 DEF ReadEnd, AtEnd
    <2>2. /\ interest' = [interest EXCEPT ![s] = @ \ {OP_READ}]
          /\ UNCHANGED <<sent, got, fin, buf, delivered>>
          /\ AtEnd(s) /\ state = "COPY" /\ OP_READ \in interest[s]
        BY <1>9, <2>1 DEF ReadEnd
    <2>3. OP_READ \notin interest'[s] /\ interest'[t] = interest[t]
        BY <1>1, <1>4, <2>2
    <2>4. CASE CanRead(buf[s])
        <3>1. closing' = TRUE /\ state' \in {"COPY", "ERROR"}
            BY <1>9, <2>1, <2>4 DEF ReadEnd, EndsAtOnce
        <3>2. Parked(s) \/ (got[s] = sent[s] /\ fin[s] # "open")
            BY <1>2, <2>2 DEF Quiet, AtEnd
        <3>3. Parked(s)' \/ (got'[s] = sent'[s] /\ fin'[s] # "open")
            BY <2>2, <2>3, <3>2 DEF Parked, CanRead, Pending
        <3>4. CanRead(buf[s])'
            BY <2>2, <2>4 DEF CanRead, Pending
        <3> QED
            BY <2>3, <3>1, <3>3, <3>4 DEF Quiet, QuietlyOver
    <2>5. CASE ~ CanRead(buf[s])
        <3>1. closing' = closing /\ state' = "CLOSE_CONNECTION"
            BY <1>9, <2>1, <2>5 DEF ReadEnd, EndsAtOnce
        <3>2. CanWrite(buf[s])
            BY <2>5, BufferSizeAssumption DEF IInv, BuffersSound, Sound, CanWrite
        <3>3. got[s] = sent[s] /\ fin[s] # "open"
            BY <2>2, <3>2 DEF AtEnd
        <3>4. Len(delivered[t]) = got[s]
            BY <2>5, EmptyMeansDelivered
        <3> QED
            BY <2>2, <3>1, <3>3, <3>4 DEF Quiet, QuietlyOver
    <2> QED
        BY <2>4, <2>5
<1>10. ASSUME NEW x \in Side, ReadFails(x) \/ WriteFails(x) PROVE Quiet(s)' /\ QuietlyOver(s)'
    BY <1>10 DEF ReadFails, WriteFails, Quiet, QuietlyOver
<1>11. ASSUME NEW x \in Side, WriteData(x) PROVE Quiet(s)' /\ QuietlyOver(s)'
    <2>1. x = t
        BY <1>1, <1>3, <1>11 DEF WriteData
    <2>2. PICK n \in 1 .. Pending(buf[s]) :
              /\ buf' = [buf EXCEPT ![s] = Drain(@, n)]
              /\ interest' = InterestAfterWrite(t, n = Pending(buf[s]))
              /\ state' = AfterWrite(n = Pending(buf[s]))
              /\ whole' = (whole /\ n = Pending(buf[s]))
        BY <1>1, <1>11, <2>1 DEF WriteData, Source
    <2>3. /\ UNCHANGED <<sent, got, fin, closing>> /\ state = "COPY"
          /\ OP_WRITE \in interest[t]
        BY <1>11, <2>1 DEF WriteData
    <2>4. n = Pending(buf[s])
        BY <1>3, <2>2
    <2>5. buf'[s] = Drain(buf[s], Pending(buf[s])) /\ buf[s] \in BufferRecord
        BY <1>4, <2>2, <2>4
    <2>6. ~ CanRead(buf'[s])
        BY <2>5, DrainedIsEmpty
    <2>7. CanWrite(buf'[s])
        BY <1>2, <2>6, BufferSizeAssumption
        DEF IInv, BuffersSound, Sound, CanWrite, CanRead, Pending, Room
    <2>8. ~ Parked(s)
        BY <2>3 DEF Parked
    <2>9. CASE closing
        <3>1. got[s] = sent[s] /\ fin[s] # "open"
            BY <1>2, <2>3, <2>8, <2>9 DEF Quiet
        <3>2. state' = "CLOSE_CONNECTION"
            BY <2>2, <2>9 DEF AfterWrite
        <3>3. Len(delivered'[t]) = got'[s]
            <4>1. (~ CanRead(buf[s]))'
                BY <2>6 DEF CanRead, Pending
            <4>2. (IInv /\ ~ CanRead(buf[s]) => Len(delivered[t]) = got[s])'
                BY EmptyMeansDelivered, PTL
            <4> QED
                BY <1>2, <4>1, <4>2
        <3> QED
            BY <2>3, <3>1, <3>2, <3>3 DEF Quiet, QuietlyOver
    <2>10. CASE ~ closing
        <3>1. state' = "COPY"
            BY <2>2, <2>10 DEF AfterWrite
        <3> QED
            BY <2>3, <2>7, <2>10, <3>1 DEF Quiet, QuietlyOver, CanWrite, Room
    <2> QED
        BY <2>9, <2>10
<1>12. CASE UNCHANGED vars
    BY <1>5, <1>12 DEF vars
<1> QED
    BY <1>6, <1>7, <1>8, <1>9, <1>10, <1>11, <1>12 DEF Next, Over

(* An orderly end of a connection whose other side only listened, with     *)
(* every send() whole, drops no byte: what MayDrop names as the causes of  *)
(* a loss are all there are.                                               *)
THEOREM CopyQuietCloseDelivers == Spec => []QuietCloseDeliversAll
<1>1. QuietInv => QuietCloseDeliversAll
    BY DEF QuietInv, QuietlyOver, QuietCloseDeliversAll
<1> QED
    BY <1>1, InitIInv, InitQuiet, NextIInv, NextQuiet, PTL DEF Spec

-----------------------------------------------------------------------------
(* The relay the two ends see. *)
LEMMA PrefixOfPrefix ==
    ASSUME NEW p \in Seq(Byte), NEW g \in Nat, g <= Len(p), NEW n \in Nat, n <= g
    PROVE  SubSeq(SubSeq(p, 1, g), 1, n) = SubSeq(p, 1, n)
<1>1. CASE n = 0
    BY <1>1, SubSeqEmpty
<1>2. CASE n # 0
    <2>1. /\ 1 \in 1 .. Len(p) /\ g \in 1 .. Len(p) /\ 1 \in 1 .. g - 1 + 1 /\ n \in 1 .. g - 1 + 1
          /\ 1 + 1 - 1 = 1 /\ 1 + n - 1 = n
        BY <1>2, LenProperties
    <2>2. SubSeq(SubSeq(p, 1, g), 1, n) = SubSeq(p, 1 + 1 - 1, 1 + n - 1)
        BY <2>1, SubSeqOfSubSeq
    <2> QED
        BY <2>1, <2>2
<1> QED
    BY <1>1, <1>2

(* What an end was given is a prefix of what the other end sent. *)
DeliveredInOrder ==
    \A s \in Side :
        /\ Len(delivered[s]) \in Nat /\ Len(delivered[s]) <= got[Other(s)]
        /\ delivered[s] = SubSeq(Payload[Other(s)], 1, Len(delivered[s]))

LEMMA DeliveredIsPrefix == IInv => DeliveredInOrder
<1> SUFFICES ASSUME IInv, NEW s \in Side
             PROVE  /\ Len(delivered[s]) \in Nat /\ Len(delivered[s]) <= got[Other(s)]
                    /\ delivered[s] = SubSeq(Payload[Other(s)], 1, Len(delivered[s]))
    BY DEF DeliveredInOrder
<1> DEFINE t == Other(s)
           p == Payload[t]
           g == got[t]
           d == delivered[s]
           u == Unread(buf[t])
<1>1. t \in Side /\ Other(t) = s
    BY Sides
<1>2. p \in Seq(Byte) /\ g \in Nat /\ d \in Seq(Byte) /\ u \in Seq(Byte)
    BY <1>1, Direction
<1>3. g <= Len(p)
    <2>1. sent[t] \in Nat /\ Len(p) \in Nat /\ g <= sent[t] /\ sent[t] <= Len(p)
        BY <1>1, Direction
    <2> QED
        BY <1>2, <2>1
<1>4. d \o u = SubSeq(p, 1, g)
    BY <1>1 DEF IInv, NothingLostInside
<1> HIDE DEF p, g, d, u
<1>5. Len(SubSeq(p, 1, g)) = g
    <2>1. 0 \in Nat /\ g + 0 = g
        BY <1>2
    <2> QED
        BY <1>2, <1>3, <2>1, PrefixExtends
<1>6. Len(d \o u) = Len(d) + Len(u)
    BY <1>2, ConcatProperties
<1>7. Len(d) \in Nat /\ Len(u) \in Nat
    BY <1>2, LenProperties
<1>8. Len(d) <= g
    BY <1>2, <1>4, <1>5, <1>6, <1>7
<1>9. SubSeq(d \o u, 1, Len(d)) = d
    BY <1>2, PrefixOfConcat
<1>10. SubSeq(SubSeq(p, 1, g), 1, Len(d)) = SubSeq(p, 1, Len(d))
    BY <1>2, <1>3, <1>7, <1>8, PrefixOfPrefix
<1> QED
    BY <1>4, <1>7, <1>8, <1>9, <1>10 DEF p, g, d

(* A send() of n > 0 bytes is a Deliver of the relay. *)
LEMMA WriteDataDelivers ==
    ASSUME IInv, IInv', DeliveredInOrder', NEW s \in Side, WriteData(s)
    PROVE  RelayView!Deliver(s)
<1> DEFINE t == Other(s)
           h(n) == SubSeq(Unread(buf[t]), 1, n)
<1>1. t \in Side
    BY Sides
<1>2. PICK n \in 1 .. Pending(buf[t]) :
          delivered' = [delivered EXCEPT ![s] = delivered[s] \o h(n)]
    BY DEF WriteData, Source
<1>3. sent' = sent /\ got' = got /\ state = "COPY"
    BY DEF WriteData
<1>4. n \in 0 .. Pending(buf[t]) /\ n > 0 /\ n \in Nat
    BY <1>1, Direction
<1>5. h(n) \in Seq(Byte) /\ Len(h(n)) = n
    <2>1. buf[t] \in BufferRecord /\ Sound(buf[t])
        BY <1>1, Direction
    <2> QED
        BY <1>4, <2>1, DrainDrops
<1>6. delivered[s] \in Seq(Byte) /\ delivered \in [Side -> Seq(Byte)]
    BY Direction DEF IInv, TypeOK
<1> HIDE DEF h, t
<1>7. Len(delivered'[s]) = Len(delivered[s]) + n
    <2>1. delivered'[s] = delivered[s] \o h(n)
        BY <1>2, <1>6
    <2>2. Len(delivered[s] \o h(n)) = Len(delivered[s]) + Len(h(n))
        BY <1>5, <1>6, ConcatProperties
    <2> QED
        BY <1>5, <2>1, <2>2
<1> DEFINE m == Len(delivered'[s])
<1>8. /\ m \in Nat /\ m <= got[t]
      /\ delivered'[s] = SubSeq(Payload[t], 1, m)
    BY <1>3 DEF DeliveredInOrder, t
<1>9. got[t] <= sent[t] /\ got[t] \in Nat /\ sent[t] \in Nat /\ Len(delivered[s]) \in Nat
    BY <1>1, <1>6, Direction, LenProperties
<1> HIDE DEF m
<1>10. m \in Len(delivered[s]) + 1 .. sent[t]
    BY <1>4, <1>7, <1>8, <1>9 DEF m
<1>11. delivered' = [delivered EXCEPT ![s] = SubSeq(Payload[t], 1, m)]
    BY <1>2, <1>6, <1>8
<1> QED
    BY <1>3, <1>10, <1>11 DEF RelayView!Deliver, t

(* Every other step is a Send, a Finish, or invisible to the ends. *)
LEMMA NextRelay ==
    IInv /\ IInv' /\ DeliveredInOrder' /\ [Next]_vars
        => [RelayView!Next]_<<sent, delivered, state = "COPY">>
<1> SUFFICES ASSUME IInv, IInv', DeliveredInOrder', [Next]_vars
             PROVE  \/ RelayView!Finish
                    \/ \E s \in Side : RelayView!Send(s) \/ RelayView!Deliver(s)
                    \/ UNCHANGED <<sent, delivered, state = "COPY">>
    BY DEF RelayView!Next
<1>1. ASSUME NEW s \in Side, PeerSends(s) PROVE RelayView!Send(s)
    <2>1. sent \in [Side -> Nat] /\ sent' \in [Side -> Nat] /\ \A t \in Side : sent'[t] <= Len(Payload[t])
        BY DEF IInv, TypeOK
    <2>2. sent' = [sent EXCEPT ![s] = sent[s] + 1] /\ delivered' = delivered /\ state' = state
        BY <1>1 DEF PeerSends
    <2>3. sent'[s] > sent[s] /\ \A t \in Side \ {s} : sent'[t] = sent[t]
        BY <2>1, <2>2
    <2> QED
        BY <2>1, <2>2, <2>3 DEF RelayView!Send
<1>2. ASSUME UNCHANGED <<sent, delivered>>, state = "COPY"
      PROVE  RelayView!Finish \/ UNCHANGED <<sent, delivered, state = "COPY">>
    <2>1. CASE state' = "COPY"
        BY <1>2, <2>1
    <2>2. CASE state' # "COPY"
        BY <1>2, <2>2 DEF RelayView!Finish
    <2> QED
        BY <2>1, <2>2
<1>3. ASSUME UNCHANGED <<sent, delivered, state>>
      PROVE  UNCHANGED <<sent, delivered, state = "COPY">>
    BY <1>3
<1> QED
    BY <1>1, <1>2, <1>3, WriteDataDelivers
    DEF Next, PeerCloses, PeerBreaks, ReadData, ReadEnd, ReadFails, WriteFails, Over, vars

(* The COPY state implements the relay: each end sees a growing prefix of  *)
(* what the other sent, and nothing once the connection is down.           *)
THEOREM CopyIsRelay == Spec => RelaySpec
<1>1. Init => RelayView!Init
    <2> SUFFICES ASSUME Init PROVE RelayView!Init
        OBVIOUS
    <2>1. TypeOK
        BY InitIInv DEF IInv
    <2> QED
        BY <2>1 DEF TypeOK, Init, RelayView!Init
<1> QED
    BY <1>1, InitIInv, NextIInv, DeliveredIsPrefix, NextRelay, PTL
    DEF Spec, RelaySpec, RelayView!Spec
=============================================================================
