-------------------------------- MODULE Uart --------------------------------
(***************************************************************************)
(* A serial port as the drivers see it: what has come in and waits in the  *)
(* kernel is a sequence, and a read never waits.  The bytes of a frame are *)
(* grouped: an element of the sequence stands for bytes that only mean     *)
(* something together.                                                     *)
(***************************************************************************)
EXTENDS Naturals, Sequences

Shorter(m, n) == IF m < n THEN m ELSE n

(* readBuffer(n): what it returns, and what it leaves.  0 and -1, when      *)
(* nothing has come in or the port is not open, are the empty sequence.     *)
Taken(q, n) == SubSeq(q, 1, Shorter(n, Len(q)))
Left(q, n)  == SubSeq(q, Shorter(n, Len(q)) + 1, Len(q))

(* poll(): it times out only if nothing has come in. *)
Readable(q) == q # << >>
=============================================================================
