---------------------------- MODULE BufferProofs ----------------------------
(***************************************************************************)
(* Proofs about buffer.c for every block size and every set of bytes: the  *)
(* pointer invariant of buffer.h, and that the buffer is a FIFO queue.     *)
(***************************************************************************)
EXTENDS BufferIO, BufferLemmas

-----------------------------------------------------------------------------
(* The inductive invariant: the four invariants of the run, together.  The *)
(* queue content alone is not inductive, since memmove is only right while *)
(* the pointers are in order.                                              *)
IInv == TypeOK /\ PointersOrdered /\ EmptyHasAllRoom /\ CellsHoldTheQueue

LEMMA InitIInv == Init => IInv
<1> SUFFICES ASSUME Init PROVE IInv
    OBVIOUS
<1>1. PICK blank \in Byte : b = BufferInit([a \in Cell |-> blank])
    BY DEF Init
<1>2. b \in BufferRecord /\ b.read = 0 /\ b.write = 0
    BY <1>1, BufferSizeAssumption DEF BufferInit, BufferRecord
<1>3. TypeOK /\ PointersOrdered /\ EmptyHasAllRoom
    BY <1>2, BufferSizeAssumption, MaxBytesAssumption
    DEF Init, TypeOK, PointersOrdered, Ordered, EmptyHasAllRoom, CanRead, Pending, Room
<1>4. Unread(b) = <<>>
    <2>1. Pending(b) = 0
        BY <1>2 DEF Pending
    <2> QED
        BY <1>2, <1>3, <2>1, UnreadIsSeq, EmptySeq DEF TypeOK, PointersOrdered
<1> QED
    BY <1>3, <1>4 DEF IInv, CellsHoldTheQueue, Init

(* A step that stores s (recv(), buffer_write) keeps the invariant. *)
LEMMA FillKeepsIInv ==
    ASSUME IInv, NEW s \in Seq(Byte), Len(s) <= Room(b),
           Len(accepted) + Len(s) <= MaxBytes,
           b' = Fill(b, s), accepted' = accepted \o s, taken' = taken
    PROVE  IInv'
<1>1. b \in BufferRecord /\ Sound(b) /\ accepted \in Seq(Byte) /\ taken \in Seq(Byte)
    BY DEF IInv, TypeOK, PointersOrdered, EmptyHasAllRoom, Sound
<1>2. Sound(b') /\ Unread(b') = Unread(b) \o s
    BY <1>1, FillAppends DEF Sound
<1>3. accepted' \in Seq(Byte) /\ Len(accepted') = Len(accepted) + Len(s)
    BY <1>1, ConcatProperties
<1>4. Unread(b) \in Seq(Byte)
    BY <1>1, UnreadIsSeq DEF Sound
<1>5. accepted' = taken' \o Unread(b')
    BY <1>1, <1>2, <1>4, ConcatAssociative DEF IInv, CellsHoldTheQueue
<1> QED
    BY <1>1, <1>2, <1>3, <1>5
    DEF IInv, TypeOK, PointersOrdered, EmptyHasAllRoom, CellsHoldTheQueue, Sound,
        Ordered, CanRead, Pending, Room, Unread

(* A step that hands on the first n unread bytes (send(), buffer_read). *)
LEMMA DrainKeepsIInv ==
    ASSUME IInv, NEW n \in 0 .. Pending(b),
           b' = Drain(b, n), taken' = taken \o SubSeq(Unread(b), 1, n), accepted' = accepted
    PROVE  IInv'
<1>1. b \in BufferRecord /\ Sound(b) /\ accepted \in Seq(Byte) /\ taken \in Seq(Byte)
    BY DEF IInv, TypeOK, PointersOrdered, EmptyHasAllRoom, Sound
<1>2. /\ Sound(b') /\ SubSeq(Unread(b), 1, n) \in Seq(Byte)
      /\ Unread(b) = SubSeq(Unread(b), 1, n) \o Unread(b')
    BY <1>1, DrainDrops
<1>3. Unread(b') \in Seq(Byte)
    BY <1>2, UnreadIsSeq DEF Sound
<1> DEFINE h == SubSeq(Unread(b), 1, n)
<1>4. taken' \in Seq(Byte)
    BY <1>1, <1>2, ConcatProperties
<1>5. accepted' = taken' \o Unread(b')
    <2>1. accepted' = taken \o (h \o Unread(b'))
        BY <1>2 DEF IInv, CellsHoldTheQueue
    <2>2. h \in Seq(Byte)
        BY <1>2
    <2> HIDE DEF h
    <2>3. taken \o (h \o Unread(b')) = (taken \o h) \o Unread(b')
        BY <1>1, <1>3, <2>2, ConcatAssociative
    <2> QED
        BY <2>1, <2>3 DEF h
<1> QED
    BY <1>1, <1>2, <1>4, <1>5
    DEF IInv, TypeOK, PointersOrdered, EmptyHasAllRoom, CellsHoldTheQueue, Sound,
        Ordered, CanRead, Pending, Room, Unread

LEMMA NextIInv == IInv /\ [Next]_vars => IInv'
<1> SUFFICES ASSUME IInv, [Next]_vars PROVE IInv'
    OBVIOUS
<1>1. b \in BufferRecord /\ Sound(b) /\ accepted \in Seq(Byte) /\ taken \in Seq(Byte)
    BY DEF IInv, TypeOK, PointersOrdered, EmptyHasAllRoom, Sound
<1>2. Room(b) \in 0 .. BufferSize /\ Pending(b) \in 0 .. BufferSize
    BY <1>1, UnreadIsSeq DEF Sound
<1>3. CASE Receive
    <2>1. PICK n \in 1 .. Room(b) : \E s \in [1 .. n -> Byte] :
              /\ Len(accepted) + n <= MaxBytes
              /\ b' = Fill(b, s) /\ accepted' = accepted \o s /\ taken' = taken
        BY <1>3 DEF Receive
    <2>2. PICK s \in [1 .. n -> Byte] :
              /\ Len(accepted) + n <= MaxBytes
              /\ b' = Fill(b, s) /\ accepted' = accepted \o s /\ taken' = taken
        BY <2>1
    <2>3. n \in Nat /\ n <= Room(b)
        BY <1>2
    <2>4. s \in Seq(Byte) /\ Len(s) = n
        BY <2>3
    <2> QED
        BY <2>2, <2>3, <2>4, FillKeepsIInv
<1>4. CASE \E c \in Byte : WriteByte(c)
    <2>1. PICK c \in Byte : WriteByte(c)
        BY <1>4
    <2>2. <<c>> \in Seq(Byte) /\ Len(<<c>>) = 1
        OBVIOUS
    <2>3. accepted' = accepted \o <<c>>
        BY <1>1, <2>1 DEF WriteByte
    <2>4. Len(<<c>>) <= Room(b) /\ Len(accepted) + Len(<<c>>) <= MaxBytes
        BY <1>1, <1>2, <2>1, <2>2, MaxBytesAssumption DEF WriteByte, CanWrite
    <2> QED
        BY <2>1, <2>2, <2>3, <2>4, FillKeepsIInv DEF WriteByte
<1>5. CASE Transmit
    <2>1. PICK n \in 1 .. Pending(b) :
              /\ taken' = taken \o SubSeq(Unread(b), 1, n)
              /\ b' = Drain(b, n) /\ accepted' = accepted
        BY <1>5 DEF Transmit
    <2> QED
        BY <1>2, <2>1, DrainKeepsIInv
<1>6. CASE ReadByte
    <2>1. 1 \in 0 .. Pending(b) /\ 1 \in 1 .. Pending(b)
        BY <1>2, <1>6 DEF ReadByte, CanRead
    <2>2. Unread(b)[1] = b.data[b.read]
        <3>1. Unread(b)[1] = b.data[b.read + 1 - 1] /\ b.read + 1 - 1 = b.read
            BY <1>1, <2>1, UnreadIsSeq DEF Sound, BufferRecord
        <3> QED
            BY <3>1
    <2>3. Unread(b) \in Seq(Byte) /\ Len(Unread(b)) = Pending(b)
        BY <1>1, UnreadIsSeq DEF Sound
    <2>4. b.data[b.read] \in Byte
        BY <2>1, <2>2, <2>3, ElementOfSeq
    <2>5. SubSeq(Unread(b), 1, 1) = <<b.data[b.read]>>
        <3>1. /\ SubSeq(Unread(b), 1, 1) \in Seq(Byte)
              /\ Len(SubSeq(Unread(b), 1, 1)) = 1
              /\ SubSeq(Unread(b), 1, 1)[1] = Unread(b)[1]
            <4>1. \A i \in 1 .. 1 : Unread(b)[i] \in Byte
                BY <2>2, <2>4
            <4>2. /\ SubSeq(Unread(b), 1, 1) \in Seq(Byte)
                  /\ Len(SubSeq(Unread(b), 1, 1)) = IF 1 <= 1 THEN 1 - 1 + 1 ELSE 0
                  /\ \A i \in 1 .. 1 - 1 + 1 : SubSeq(Unread(b), 1, 1)[i] = Unread(b)[1 + i - 1]
                BY <4>1, SubSeqProperties
            <4> QED
                BY <4>2
        <3>2. <<b.data[b.read]>> \in Seq(Byte) /\ Len(<<b.data[b.read]>>) = 1
            BY <2>4
        <3>3. \A i \in 1 .. 1 : SubSeq(Unread(b), 1, 1)[i] = <<b.data[b.read]>>[i]
            BY <2>2, <3>1
        <3> QED
            BY <3>1, <3>2, <3>3, SeqEqual
    <2>6. taken' = taken \o <<b.data[b.read]>>
        BY <1>1, <1>6, <2>4 DEF ReadByte
    <2>7. taken' = taken \o SubSeq(Unread(b), 1, 1)
        BY <2>5, <2>6
    <2> QED
        BY <1>6, <2>1, <2>7, DrainKeepsIInv DEF ReadByte
<1>7. CASE CompactOnDemand
    <2>1. Sound(b') /\ Unread(b') = Unread(b)
        BY <1>1, <1>7, CompactKeepsUnread DEF CompactOnDemand, Sound
    <2>2. accepted' = accepted /\ taken' = taken
        BY <1>7 DEF CompactOnDemand
    <2> QED
        BY <2>1, <2>2
        DEF IInv, TypeOK, PointersOrdered, EmptyHasAllRoom, CellsHoldTheQueue, Sound,
            Ordered, CanRead, Pending, Room, Unread
<1>8. CASE UNCHANGED vars
    BY <1>8
    DEF vars, IInv, TypeOK, PointersOrdered, EmptyHasAllRoom, CellsHoldTheQueue,
        Ordered, CanRead, Pending, Room, Unread
<1> QED
    BY <1>3, <1>4, <1>5, <1>6, <1>7, <1>8 DEF Next

(* Types are kept for every block size and byte set. *)
THEOREM TypeCorrect == Spec => []TypeOK
<1>1. IInv => TypeOK
    BY DEF IInv
<1> QED
    BY <1>1, InitIInv, NextIInv, PTL DEF Spec

(* buffer.h's "R <= W <= limit" (buffer.h:26): no assert of buffer.c fails. *)
THEOREM PointersStayOrdered == Spec => []PointersOrdered
<1>1. IInv => PointersOrdered
    BY DEF IInv
<1> QED
    BY <1>1, InitIInv, NextIInv, PTL DEF Spec

(* An empty buffer has its whole block to offer to recv(). *)
THEOREM EmptyBufferHasAllRoom == Spec => []EmptyHasAllRoom
<1>1. IInv => EmptyHasAllRoom
    BY DEF IInv
<1> QED
    BY <1>1, InitIInv, NextIInv, PTL DEF Spec

(* The cells between the pointers are what was stored and not yet taken. *)
THEOREM NothingLostInside == Spec => []CellsHoldTheQueue
<1>1. IInv => CellsHoldTheQueue
    BY DEF IInv
<1> QED
    BY <1>1, InitIInv, NextIInv, PTL DEF Spec

-----------------------------------------------------------------------------
(* Storing bytes is an Accept of the queue. *)
LEMMA FillIsAccept ==
    ASSUME IInv, IInv', NEW s \in Seq(Byte), Len(s) > 0,
           accepted' = accepted \o s, taken' = taken
    PROVE  Fifo!Accept
<1>1. accepted \in Seq(Byte) /\ taken \in Seq(Byte) /\ b' \in BufferRecord /\ Ordered(b')
    BY DEF IInv, TypeOK, PointersOrdered, Ordered
<1>2. Unread(b') \in Seq(Byte) /\ Len(Unread(b')) \in 0 .. BufferSize
    BY <1>1, UnreadIsSeq
<1>3. accepted' = taken \o Unread(b')
    BY DEF IInv, CellsHoldTheQueue, Unread, Pending
<1>4. Len(accepted') = Len(taken) + Len(Unread(b'))
    BY <1>1, <1>2, <1>3, ConcatProperties
<1>5. Len(accepted') = Len(accepted) + Len(s)
    BY <1>1, ConcatProperties
<1>6. SubSeq(accepted', 1, Len(accepted)) = accepted
    BY <1>1, PrefixOfConcat
<1>7. Len(accepted) \in Nat /\ Len(s) \in Nat /\ Len(taken) \in Nat
    BY <1>1, LenProperties
<1> QED
    BY <1>2, <1>4, <1>5, <1>6, <1>7, BufferSizeAssumption DEF Fifo!Accept

(* Handing on n unread bytes is a Take of the queue. *)
LEMMA DrainIsTake ==
    ASSUME IInv, IInv', NEW h \in Seq(Byte), Len(h) > 0,
           taken' = taken \o h, accepted' = accepted
    PROVE  Fifo!Take
<1>1. /\ accepted \in Seq(Byte) /\ taken \in Seq(Byte) /\ taken' \in Seq(Byte)
      /\ b' \in BufferRecord /\ Ordered(b')
    BY DEF IInv, TypeOK, PointersOrdered, Ordered
<1>2. Unread(b') \in Seq(Byte)
    BY <1>1, UnreadIsSeq
<1>3. accepted = taken' \o Unread(b')
    BY DEF IInv, CellsHoldTheQueue, Unread, Pending
<1>4. Len(accepted) = Len(taken') + Len(Unread(b'))
    BY <1>1, <1>2, <1>3, ConcatProperties
<1>5. Len(taken') = Len(taken) + Len(h)
    BY <1>1, ConcatProperties
<1>6. SubSeq(taken' \o Unread(b'), 1, Len(taken')) = taken'
    BY <1>1, <1>2, PrefixOfConcat
<1>7. Len(taken) \in Nat /\ Len(h) \in Nat /\ Len(Unread(b')) \in Nat
    BY <1>1, <1>2, LenProperties
<1> QED
    BY <1>3, <1>4, <1>5, <1>6, <1>7 DEF Fifo!Take

LEMMA NextFifo == IInv /\ IInv' /\ [Next]_vars => [Fifo!Next]_<<accepted, taken>>
<1> SUFFICES ASSUME IInv, IInv', [Next]_vars
             PROVE  Fifo!Accept \/ Fifo!Take \/ UNCHANGED <<accepted, taken>>
    BY DEF Fifo!Next
<1>1. b \in BufferRecord /\ Sound(b) /\ accepted \in Seq(Byte) /\ taken \in Seq(Byte)
    BY DEF IInv, TypeOK, PointersOrdered, EmptyHasAllRoom, Sound
<1>2. Room(b) \in 0 .. BufferSize /\ Pending(b) \in 0 .. BufferSize
    BY <1>1, UnreadIsSeq DEF Sound
<1>3. CASE Receive
    <2>1. PICK n \in 1 .. Room(b) : \E s \in [1 .. n -> Byte] :
              accepted' = accepted \o s /\ taken' = taken
        BY <1>3 DEF Receive
    <2>2. PICK s \in [1 .. n -> Byte] : accepted' = accepted \o s /\ taken' = taken
        BY <2>1
    <2>3. n \in Nat /\ n > 0
        BY <1>2
    <2>4. s \in Seq(Byte) /\ Len(s) = n
        BY <2>3
    <2> QED
        BY <2>2, <2>3, <2>4, FillIsAccept
<1>4. CASE \E c \in Byte : WriteByte(c)
    <2>1. PICK c \in Byte : WriteByte(c)
        BY <1>4
    <2>2. <<c>> \in Seq(Byte) /\ Len(<<c>>) > 0
        OBVIOUS
    <2>3. accepted' = accepted \o <<c>> /\ taken' = taken
        BY <1>1, <2>1 DEF WriteByte
    <2> QED
        BY <2>2, <2>3, FillIsAccept
<1>5. CASE Transmit
    <2>1. PICK n \in 1 .. Pending(b) :
              taken' = taken \o SubSeq(Unread(b), 1, n) /\ accepted' = accepted
        BY <1>5 DEF Transmit
    <2>2. n \in 0 .. Pending(b) /\ n > 0
        BY <1>2
    <2>3. SubSeq(Unread(b), 1, n) \in Seq(Byte) /\ Len(SubSeq(Unread(b), 1, n)) = n
        BY <1>1, <2>2, DrainDrops
    <2> QED
        BY <2>1, <2>2, <2>3, DrainIsTake
<1>6. CASE ReadByte
    <2>1. 1 \in 1 .. Pending(b)
        BY <1>2, <1>6 DEF ReadByte, CanRead
    <2>2. b.data[b.read] \in Byte
        <3>1. Unread(b) \in Seq(Byte) /\ Len(Unread(b)) = Pending(b)
              /\ Unread(b)[1] = b.data[b.read + 1 - 1] /\ b.read + 1 - 1 = b.read
            BY <1>1, <2>1, UnreadIsSeq DEF Sound, BufferRecord
        <3> QED
            BY <2>1, <3>1, ElementOfSeq
    <2>3. taken' = taken \o <<b.data[b.read]>> /\ accepted' = accepted
        BY <1>1, <1>6, <2>2 DEF ReadByte
    <2>4. <<b.data[b.read]>> \in Seq(Byte) /\ Len(<<b.data[b.read]>>) > 0
        BY <2>2
    <2> QED
        BY <2>3, <2>4, DrainIsTake
<1>7. CASE CompactOnDemand
    BY <1>7 DEF CompactOnDemand
<1>8. CASE UNCHANGED vars
    BY <1>8 DEF vars
<1> QED
    BY <1>3, <1>4, <1>5, <1>6, <1>7, <1>8 DEF Next

(* buffer.c implements the bounded FIFO queue its callers take it for. *)
THEOREM BufferIsFifo == Spec => FifoSpec
<1>1. Init => Fifo!Init
    BY DEF Init, Fifo!Init
<1> QED
    BY <1>1, InitIInv, NextIInv, NextFifo, PTL DEF Spec, FifoSpec, Fifo!Spec
=============================================================================
