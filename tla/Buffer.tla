------------------------------- MODULE Buffer -------------------------------
(***************************************************************************)
(* The byte buffer of buffer.c: a block of BufferSize cells with a read    *)
(* and a write pointer, handed to recv() and send() without copying.  A    *)
(* buffer is a record of its cells and of the two pointers, kept here as   *)
(* offsets from `data'; `limit' is data + BufferSize and never moves.      *)
(***************************************************************************)
EXTENDS Integers, Sequences

CONSTANTS BufferSize,   \* BUFFER_SIZE of socks5.h (4096), or the test's 6
          Byte          \* the values a cell can hold

ASSUME BufferSizeAssumption == BufferSize \in Nat \ {0}

Cell == 0 .. BufferSize - 1
BufferRecord == [data : [Cell -> Byte], read : 0 .. BufferSize, write : 0 .. BufferSize]

(* The "Invariantes" of buffer.h, R <= W <= limit: what the assertions of  *)
(* buffer_write_ptr, buffer_read_ptr and the two adv functions test.       *)
Ordered(b) == b.read <= b.write /\ b.write <= BufferSize

BufferInit(cells) == [data |-> cells, read |-> 0, write |-> 0]

(* Mutant of Room: the limit taken as the last cell plus one too many *)
RoomOffByOne(b) == BufferSize - b.write + 1

(* nbyte of buffer_write_ptr, and buffer_can_write *)
Room(b) == BufferSize - b.write
CanWrite(b) == Room(b) > 0

(* nbyte of buffer_read_ptr, and buffer_can_read *)
Pending(b) == b.write - b.read
CanRead(b) == Pending(b) > 0

(* The bytes buffer_read_ptr gives access to, in order *)
Unread(b) == [i \in 1 .. Pending(b) |-> b.data[b.read + i - 1]]

(* Mutants of Compact: the pointers move and the bytes do not; the memmove *)
(* is one byte short                                                       *)
CompactNoMove(b) == [b EXCEPT !.read = 0, !.write = Pending(b)]
CompactShort(b) ==
    [data  |-> [a \in Cell |-> IF a < Pending(b) - 1 THEN b.data[b.read + a] ELSE b.data[a]],
     read  |-> 0,
     write |-> Pending(b)]

(* buffer_compact: memmove of the unread bytes to the start of the block.  *)
(* Its two shortcuts (nothing read, nothing unread) are the same move.     *)
Compact(b) ==
    [data  |-> [a \in Cell |-> IF a < Pending(b) THEN b.data[b.read + a] ELSE b.data[a]],
     read  |-> 0,
     write |-> Pending(b)]

(* n bytes stored at the write pointer by recv() or by the reply writers,  *)
(* then buffer_write_adv(n)                                                *)
Fill(b, s) ==
    [b EXCEPT !.data  = [a \in Cell |-> IF b.write <= a /\ a < b.write + Len(s)
                                        THEN s[a - b.write + 1] ELSE b.data[a]],
              !.write = b.write + Len(s)]

(* Mutants of Drain: advanced by all that was offered to send(), not by    *)
(* what it took; nobody compacts                                           *)
DrainEverything(b, n) == Compact([b EXCEPT !.read = b.write])
DrainNoCompact(b, n) == [b EXCEPT !.read = b.read + n]

(* buffer_read_adv(n): compacts, but only when nothing is left unread *)
Drain(b, n) ==
    LET c == [b EXCEPT !.read = b.read + n]
    IN  IF c.read = c.write THEN Compact(c) ELSE c
=============================================================================
