------------------------------ MODULE BufferIO ------------------------------
(***************************************************************************)
(* One buffer under every use the program makes of it: recv() into the     *)
(* write pointer, send() from the read pointer with a partial count, the   *)
(* parsers' byte at a time, buffer_write, and a compaction on demand as in *)
(* the example of buffer.h and in buffer_test.c.  `accepted' and `taken'   *)
(* are history: all that was stored, all that was read back from the cells.*)
(***************************************************************************)
EXTENDS Buffer

CONSTANTS MaxBytes      \* bound: how many bytes a behaviour stores

ASSUME MaxBytesAssumption == MaxBytes \in Nat

VARIABLES b, accepted, taken

vars == <<b, accepted, taken>>

(* The block a socks5 or admin struct embeds starts with any contents *)
Init ==
    /\ \E blank \in Byte : b = BufferInit([a \in Cell |-> blank])
    /\ accepted = <<>>
    /\ taken = <<>>

(* buffer_write_ptr, recv() of 1 .. nbyte bytes, buffer_write_adv *)
Receive ==
    \E n \in 1 .. Room(b) : \E s \in [1 .. n -> Byte] :
        /\ Len(accepted) + n <= MaxBytes
        /\ b' = Fill(b, s)
        /\ accepted' = accepted \o s
        /\ taken' = taken

(* buffer_write: one byte, dropped without a word when there is no place *)
WriteByte(c) ==
    /\ CanWrite(b)
    /\ Len(accepted) < MaxBytes
    /\ b' = Fill(b, <<c>>)
    /\ accepted' = Append(accepted, c)
    /\ taken' = taken

(* buffer_read_ptr, send() that took 1 .. nbyte bytes, buffer_read_adv *)
Transmit ==
    \E n \in 1 .. Pending(b) :
        /\ taken' = taken \o SubSeq(Unread(b), 1, n)
        /\ b' = Drain(b, n)
        /\ accepted' = accepted

(* buffer_read: one byte to a parser *)
ReadByte ==
    /\ CanRead(b)
    /\ taken' = Append(taken, b.data[b.read])
    /\ b' = Drain(b, 1)
    /\ accepted' = accepted

(* buffer_compact called by itself *)
CompactOnDemand ==
    /\ b' = Compact(b)
    /\ UNCHANGED <<accepted, taken>>

Next ==
    \/ Receive
    \/ \E c \in Byte : WriteByte(c)
    \/ Transmit
    \/ ReadByte
    \/ CompactOnDemand

Spec == Init /\ [][Next]_vars

-----------------------------------------------------------------------------
(* Types: the cells, and the two histories bounded by what was stored.     *)
TypeOK ==
    /\ b \in BufferRecord
    /\ accepted \in Seq(Byte)
    /\ taken \in Seq(Byte)
    /\ Len(accepted) <= MaxBytes

(* buffer.h's R <= W <= limit survives every mix of partial reads, byte    *)
(* reads and compactions: no assertion of buffer.c fails.                  *)
PointersOrdered == Ordered(b)

(* An empty buffer offers its whole block.  copy_read depends on it: recv()*)
(* is only called with nbyte = 0 when bytes are still waiting to be sent,  *)
(* and buffer_read_adv is the only place that gives the room back.         *)
EmptyHasAllRoom == ~ CanRead(b) => Room(b) = BufferSize

(* No byte is lost, duplicated or reordered by the pointer arithmetic and  *)
(* the memmove: the cells between the pointers are exactly what was stored *)
(* and not yet taken.                                                      *)
CellsHoldTheQueue == accepted = taken \o Unread(b)

(* The buffer is the bounded queue the callers take it for. *)
Fifo == INSTANCE ByteFifo WITH Capacity <- BufferSize
FifoSpec == Fifo!Spec
=============================================================================
