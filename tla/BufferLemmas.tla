---------------------------- MODULE BufferLemmas ----------------------------
(***************************************************************************)
(* What each operator of Buffer.tla does to the unread bytes, for every    *)
(* block size and every set of bytes.  BufferProofs and CopyProofs rest on *)
(* these lemmas.                                                           *)
(***************************************************************************)
EXTENDS Buffer, SequenceTheorems, TLAPS

(* A buffer whose pointers are in order, and empty only at the start of    *)
(* its block: what every caller leaves behind.                             *)
Sound(bf) == bf \in BufferRecord /\ Ordered(bf) /\ (~ CanRead(bf) => Room(bf) = BufferSize)

(* The counts buffer_read_ptr and buffer_write_ptr return are within the   *)
(* block, and the unread bytes are a sequence of that length.              *)
LEMMA UnreadIsSeq ==
    ASSUME NEW bf \in BufferRecord, Ordered(bf)
    PROVE  /\ Pending(bf) \in 0 .. BufferSize
           /\ Room(bf) \in 0 .. BufferSize
           /\ Unread(bf) \in Seq(Byte)
           /\ Len(Unread(bf)) = Pending(bf)
           /\ \A i \in 1 .. Pending(bf) : Unread(bf)[i] = bf.data[bf.read + i - 1]
<1>1. /\ bf.read \in 0 .. BufferSize /\ bf.write \in 0 .. BufferSize
      /\ bf.data \in [Cell -> Byte]
    BY DEF BufferRecord
<1>2. Pending(bf) \in 0 .. BufferSize /\ Room(bf) \in 0 .. BufferSize
    BY <1>1, BufferSizeAssumption DEF Pending, Room, Ordered
<1>3. \A i \in 1 .. Pending(bf) : bf.read + i - 1 \in Cell
    BY <1>1, BufferSizeAssumption DEF Pending, Ordered, Cell
<1>4. Unread(bf) \in [1 .. Pending(bf) -> Byte]
    BY <1>1, <1>3 DEF Unread
<1>5. Unread(bf) \in Seq(Byte) /\ Len(Unread(bf)) = Pending(bf)
    BY <1>2, <1>4
<1> QED
    BY <1>2, <1>5 DEF Unread

(* buffer_compact keeps the unread bytes and gives all other room back. *)
LEMMA CompactKeepsUnread ==
    ASSUME NEW bf \in BufferRecord, Ordered(bf)
    PROVE  Sound(Compact(bf)) /\ Unread(Compact(bf)) = Unread(bf)
<1> DEFINE c == Compact(bf)
<1>1. /\ bf.read \in 0 .. BufferSize /\ bf.write \in 0 .. BufferSize
      /\ bf.data \in [Cell -> Byte]
    BY DEF BufferRecord
<1>2. Pending(bf) \in 0 .. BufferSize
    BY UnreadIsSeq
<1>3. \A a \in Cell : a < Pending(bf) => bf.read + a \in Cell
    BY <1>1, BufferSizeAssumption DEF Pending, Ordered, Cell
<1>4. c.data \in [Cell -> Byte]
    BY <1>1, <1>3 DEF Compact
<1>5. c \in BufferRecord
    BY <1>2, <1>4, BufferSizeAssumption DEF Compact, BufferRecord
<1>6. c.read = 0 /\ c.write = Pending(bf) /\ Pending(c) = Pending(bf)
    BY <1>2 DEF Compact, Pending
<1>7. Sound(c)
    BY <1>2, <1>5, <1>6, BufferSizeAssumption DEF Sound, Ordered, CanRead, Room
<1>8. \A i \in 1 .. Pending(bf) : c.data[i - 1] = bf.data[bf.read + i - 1]
    <2> SUFFICES ASSUME NEW i \in 1 .. Pending(bf)
                 PROVE  c.data[i - 1] = bf.data[bf.read + (i - 1)]
        BY <1>1
    <2>1. i - 1 \in Cell /\ i - 1 < Pending(bf)
        BY <1>2, BufferSizeAssumption DEF Cell
    <2> QED
        BY <2>1 DEF Compact
<1>9. Unread(c) = Unread(bf)
    BY <1>6, <1>8 DEF Unread
<1> QED
    BY <1>7, <1>9

(* Storing s at the write pointer appends s to the unread bytes. *)
LEMMA FillAppends ==
    ASSUME NEW bf \in BufferRecord, Ordered(bf),
           NEW s \in Seq(Byte), Len(s) <= Room(bf), Sound(bf) \/ Len(s) > 0
    PROVE  Sound(Fill(bf, s)) /\ Unread(Fill(bf, s)) = Unread(bf) \o s
<1> DEFINE f == Fill(bf, s)
<1>1. /\ bf.read \in 0 .. BufferSize /\ bf.write \in 0 .. BufferSize
      /\ bf.data \in [Cell -> Byte] /\ Len(s) \in Nat /\ bf.read <= bf.write
    BY DEF BufferRecord, Ordered
<1>2. /\ f.read = bf.read /\ f.write = bf.write + Len(s)
      /\ f.data = [a \in Cell |-> IF bf.write <= a /\ a < bf.write + Len(s)
                                  THEN s[a - bf.write + 1] ELSE bf.data[a]]
    BY DEF Fill, BufferRecord
<1>3. \A a \in Cell : bf.write <= a /\ a < bf.write + Len(s) => s[a - bf.write + 1] \in Byte
    <2> SUFFICES ASSUME NEW a \in Cell, bf.write <= a, a < bf.write + Len(s)
                 PROVE  s[a - bf.write + 1] \in Byte
        OBVIOUS
    <2>1. a - bf.write + 1 \in 1 .. Len(s)
        BY <1>1, BufferSizeAssumption DEF Cell
    <2> QED
        BY <2>1, ElementOfSeq
<1>4. f.data \in [Cell -> Byte]
    BY <1>1, <1>2, <1>3
<1>5. f.write \in 0 .. BufferSize
    BY <1>1, <1>2, BufferSizeAssumption DEF Room
<1>6. f \in BufferRecord
    BY <1>1, <1>2, <1>4, <1>5 DEF BufferRecord, Fill
<1>7. Sound(f)
    BY <1>1, <1>2, <1>5, <1>6, BufferSizeAssumption DEF Sound, Ordered, CanRead, Pending, Room
<1>8. /\ Unread(bf) \in Seq(Byte) /\ Len(Unread(bf)) = Pending(bf)
      /\ Unread(f) \in Seq(Byte) /\ Len(Unread(f)) = Pending(f)
      /\ \A i \in 1 .. Pending(bf) : Unread(bf)[i] = bf.data[bf.read + i - 1]
      /\ \A i \in 1 .. Pending(f) : Unread(f)[i] = f.data[f.read + i - 1]
    BY <1>6, <1>7, UnreadIsSeq DEF Sound
<1>9. Pending(f) = Pending(bf) + Len(s) /\ Pending(bf) \in Nat
    BY <1>1, <1>2 DEF Pending
<1>10. ASSUME NEW i \in 1 .. Pending(f)
       PROVE  Unread(f)[i] = IF i <= Pending(bf) THEN Unread(bf)[i] ELSE s[i - Pending(bf)]
    <2>1. bf.read + i - 1 \in Cell
        <3>1. i \in Nat /\ 1 <= i /\ i <= bf.write - bf.read + Len(s)
            BY <1>1, <1>9 DEF Pending
        <3>2. bf.write + Len(s) <= BufferSize
            BY <1>2, <1>5
        <3> QED
            BY <1>1, <3>1, <3>2, BufferSizeAssumption DEF Cell
    <2>2. Unread(f)[i] = f.data[bf.read + i - 1]
        BY <1>2, <1>8
    <2>3. CASE i <= Pending(bf)
        <3>1. ~ (bf.write <= bf.read + i - 1)
            BY <1>1, <1>9, <2>3 DEF Pending
        <3>2. f.data[bf.read + i - 1] = bf.data[bf.read + i - 1]
            BY <1>2, <2>1, <3>1
        <3>3. i \in 1 .. Pending(bf)
            BY <1>9, <2>3
        <3> QED
            BY <1>8, <2>2, <2>3, <3>2, <3>3
    <2>4. CASE ~ (i <= Pending(bf))
        <3>1. /\ bf.write <= bf.read + i - 1 /\ bf.read + i - 1 < bf.write + Len(s)
              /\ bf.read + i - 1 - bf.write + 1 = i - Pending(bf)
            BY <1>1, <1>9, <2>4 DEF Pending
        <3>2. f.data[bf.read + i - 1] = s[bf.read + i - 1 - bf.write + 1]
            BY <1>1, <1>2, <2>1, <3>1
        <3> QED
            BY <2>2, <2>4, <3>1, <3>2
    <2> QED
        BY <2>3, <2>4
<1>11. Unread(f) = Unread(bf) \o s
    <2>1. /\ Unread(bf) \o s \in Seq(Byte)
          /\ Len(Unread(bf) \o s) = Pending(bf) + Len(s)
          /\ \A i \in 1 .. Pending(bf) + Len(s) :
                 (Unread(bf) \o s)[i] = IF i <= Pending(bf) THEN Unread(bf)[i]
                                        ELSE s[i - Pending(bf)]
        <3>1. /\ Unread(bf) \o s \in Seq(Byte)
              /\ Len(Unread(bf) \o s) = Len(Unread(bf)) + Len(s)
              /\ \A i \in 1 .. Len(Unread(bf)) + Len(s) :
                     (Unread(bf) \o s)[i] = IF i <= Len(Unread(bf)) THEN Unread(bf)[i]
                                            ELSE s[i - Len(Unread(bf))]
            BY <1>8, ConcatProperties
        <3> QED
            BY <1>8, <3>1
    <2> QED
        BY <1>8, <1>9, <1>10, <2>1, SeqEqual
<1> QED
    BY <1>7, <1>11

(* What was appended to is a prefix of the result. *)
LEMMA PrefixOfConcat ==
    ASSUME NEW s \in Seq(Byte), NEW t \in Seq(Byte)
    PROVE  SubSeq(s \o t, 1, Len(s)) = s
<1>1. CASE Len(s) = 0
    BY <1>1, SubSeqEmpty, EmptySeq
<1>2. CASE Len(s) # 0
    <2>1. 1 \in 1 .. Len(s) /\ Len(s) \in 1 .. Len(s)
        BY <1>2, LenProperties
    <2>2. SubSeq(s \o t, 1, Len(s)) = SubSeq(s, 1, Len(s))
        BY <2>1, SubSeqOfConcat1
    <2> QED
        BY <2>2, SubSeqFull
<1> QED
    BY <1>1, <1>2

(* Concatenation of bytes associates. *)
LEMMA ThreeParts ==
    \A r, s, t \in Seq(Byte) : r \o (s \o t) = (r \o s) \o t
BY ConcatAssociative

(* A prefix followed by the next n elements is the longer prefix. *)
LEMMA PrefixExtends ==
    ASSUME NEW p \in Seq(Byte), NEW g \in Nat, NEW n \in Nat, g + n <= Len(p)
    PROVE  /\ SubSeq(p, 1, g) \in Seq(Byte) /\ Len(SubSeq(p, 1, g)) = g
           /\ SubSeq(p, g + 1, g + n) \in Seq(Byte) /\ Len(SubSeq(p, g + 1, g + n)) = n
           /\ SubSeq(p, 1, g) \o SubSeq(p, g + 1, g + n) = SubSeq(p, 1, g + n)
<1>1. \A i \in 1 .. g + n : p[i] \in Byte
    BY ElementOfSeq, LenProperties
<1>2. /\ SubSeq(p, 1, g) \in Seq(Byte)
      /\ Len(SubSeq(p, 1, g)) = IF 1 <= g THEN g - 1 + 1 ELSE 0
    BY <1>1, SubSeqProperties
<1>3. /\ SubSeq(p, g + 1, g + n) \in Seq(Byte)
      /\ Len(SubSeq(p, g + 1, g + n)) = IF g + 1 <= g + n THEN g + n - (g + 1) + 1 ELSE 0
    BY <1>1, SubSeqProperties
<1>4. SubSeq(p, 1, g) \o SubSeq(p, g + 1, g + n) = SubSeq(p, 1, g + n)
    <2>1. /\ 1 \in 1 .. Len(p) + 1 /\ g \in 1 - 1 .. Len(p) /\ g + n \in g .. Len(p)
        BY LenProperties
    <2> QED
        BY <2>1, ConcatAdjacentSubSeq
<1> QED
    BY <1>2, <1>3, <1>4

(* buffer_read_adv(n) drops exactly the first n unread bytes. *)
LEMMA DrainDrops ==
    ASSUME NEW bf \in BufferRecord, Sound(bf), NEW n \in 0 .. Pending(bf)
    PROVE  /\ Sound(Drain(bf, n))
           /\ SubSeq(Unread(bf), 1, n) \in Seq(Byte)
           /\ Len(SubSeq(Unread(bf), 1, n)) = n
           /\ Unread(bf) = SubSeq(Unread(bf), 1, n) \o Unread(Drain(bf, n))
<1> DEFINE c == [bf EXCEPT !.read = bf.read + n]
           u == Unread(bf)
           h == SubSeq(u, 1, n)
<1>1. /\ bf.read \in 0 .. BufferSize /\ bf.write \in 0 .. BufferSize
      /\ bf.data \in [Cell -> Byte] /\ bf.read <= bf.write
    BY DEF BufferRecord, Sound, Ordered
<1>2. n \in Nat /\ n <= bf.write - bf.read
    BY <1>1 DEF Pending
<1>3. /\ c.read = bf.read + n /\ c.write = bf.write /\ c.data = bf.data
      /\ c \in BufferRecord /\ Ordered(c)
    BY <1>1, <1>2, BufferSizeAssumption DEF BufferRecord, Ordered
<1>4. Sound(Drain(bf, n)) /\ Unread(Drain(bf, n)) = Unread(c)
    <2>1. CASE c.read = c.write
        BY <1>3, <2>1, CompactKeepsUnread DEF Drain
    <2>2. CASE c.read # c.write
        <3>1. CanRead(c)
            BY <1>1, <1>2, <1>3, <2>2 DEF CanRead, Pending
        <3> QED
            BY <1>3, <2>2, <3>1 DEF Drain, Sound
    <2> QED
        BY <2>1, <2>2
<1> HIDE DEF c
<1>5. /\ u \in Seq(Byte) /\ Len(u) = Pending(bf) /\ Pending(bf) \in Nat
      /\ Unread(c) \in Seq(Byte) /\ Len(Unread(c)) = Pending(c)
      /\ \A i \in 1 .. Pending(bf) : u[i] = bf.data[bf.read + i - 1]
      /\ \A i \in 1 .. Pending(c) : Unread(c)[i] = c.data[c.read + i - 1]
    BY <1>3, UnreadIsSeq DEF Sound
<1> HIDE DEF u
<1>6. Pending(c) = Pending(bf) - n /\ Pending(c) \in Nat
    BY <1>1, <1>2, <1>3 DEF Pending
<1>7. \A i \in 1 .. Pending(c) : Unread(c)[i] = u[n + i]
    <2> SUFFICES ASSUME NEW i \in 1 .. Pending(c)
                 PROVE  Unread(c)[i] = u[n + i]
        OBVIOUS
    <2>1. n + i \in 1 .. Pending(bf)
        BY <1>2, <1>5, <1>6
    <2>2. bf.read + n + i - 1 = bf.read + (n + i) - 1
        BY <1>1, <1>2, <1>6
    <2> QED
        BY <1>3, <1>5, <2>1, <2>2
<1>8. /\ h \in Seq(Byte) /\ Len(h) = n /\ \A i \in 1 .. n : h[i] = u[i]
    <2>1. \A i \in 1 .. n : u[i] \in Byte
        BY <1>2, <1>5, <1>6, ElementOfSeq
    <2>2. /\ h \in Seq(Byte)
          /\ Len(h) = IF 1 <= n THEN n - 1 + 1 ELSE 0
          /\ \A i \in 1 .. n - 1 + 1 : h[i] = u[1 + i - 1]
        BY <1>2, <2>1, SubSeqProperties
    <2> QED
        BY <1>2, <2>2
<1> HIDE DEF h
<1>9. u = h \o Unread(c)
    <2>1. /\ h \o Unread(c) \in Seq(Byte)
          /\ Len(h \o Unread(c)) = Len(h) + Len(Unread(c))
          /\ \A i \in 1 .. Len(h) + Len(Unread(c)) :
                 (h \o Unread(c))[i] = IF i <= Len(h) THEN h[i] ELSE Unread(c)[i - Len(h)]
        BY <1>5, <1>8, ConcatProperties
    <2>2. Len(h \o Unread(c)) = Len(u)
        BY <1>2, <1>5, <1>6, <1>8, <2>1
    <2>3. ASSUME NEW i \in 1 .. Len(u)
          PROVE  u[i] = (h \o Unread(c))[i]
        <3>1. CASE i <= n
            <4>1. i \in 1 .. n /\ i \in 1 .. Len(h) + Len(Unread(c))
                BY <1>2, <1>5, <1>6, <1>8, <3>1
            <4> QED
                BY <1>8, <2>1, <3>1, <4>1
        <3>2. CASE ~ (i <= n)
            <4>1. i - n \in 1 .. Pending(c) /\ n + (i - n) = i
                BY <1>2, <1>5, <1>6, <3>2
            <4>2. i \in 1 .. Len(h) + Len(Unread(c))
                BY <1>2, <1>5, <1>6, <1>8
            <4> QED
                BY <1>7, <1>8, <2>1, <3>2, <4>1, <4>2
        <3> QED
            BY <3>1, <3>2
    <2> QED
        BY <1>5, <2>1, <2>2, <2>3, SeqEqual
<1> QED
    BY <1>4, <1>8, <1>9 DEF h, u, c
=============================================================================
