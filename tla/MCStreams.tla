------------------------------ MODULE MCStreams ------------------------------
(* The calls of the instances of Streams that TLC checks. *)
EXTENDS Streams

AllKinds == {"statement", "stream", "close"}

=============================================================================
