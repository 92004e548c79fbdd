------------------------------- MODULE MCCopy -------------------------------
(* Copy for TLC: two cells per buffer, and payloads one byte longer than a *)
(* buffer so that it fills, is partly sent and fills again.  Every byte is *)
(* different, so that any loss, repetition or swap shows.                  *)
EXTENDS Copy

MCByte == {0, 1, 2, 3, 11, 12, 13}
MCPayload == [client |-> <<1, 2, 3>>, origin |-> <<11, 12, 13>>]
=============================================================================
