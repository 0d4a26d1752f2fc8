--------------------------- MODULE MCShareBuffer ---------------------------
(* ShareBuffer on small instances. *)
EXTENDS ShareBuffer

CONSTANTS s1, s2, s3, s4, w1, w2

\* s3 comes from a worker of its own.
WorkerOf == [s \in Shares |-> IF s = s3 THEN w2 ELSE w1]

=============================================================================
