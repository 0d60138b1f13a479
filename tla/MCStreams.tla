----------------------------- MODULE MCStreams -----------------------------
(* Small instances of a stream and its consumer. *)
EXTENDS Streams
CONSTANTS e1, e2, e3
=============================================================================
