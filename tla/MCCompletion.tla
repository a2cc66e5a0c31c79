---------------------------- MODULE MCCompletion ----------------------------
(* The send and the receive queue of one pair, used by one thread or by two. *)
EXTENDS Completion

CONSTANTS t1, t2, sendQueue, receiveQueue

=============================================================================
