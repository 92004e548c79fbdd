------------------------------ MODULE MCBuffer ------------------------------
(* BufferIO for TLC: a block of three cells, two byte values so that a     *)
(* byte read from the wrong cell shows, and six bytes stored, enough to    *)
(* go round the block twice with a partial read and a compaction between.  *)
EXTENDS BufferIO

MCByte == {0, 1}
=============================================================================
