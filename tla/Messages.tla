------------------------------ MODULE Messages ------------------------------
(***************************************************************************)
(* The messages that the ZeroMQ SUB socket of a stage delivers, numbered   *)
(* 1, 2, ... in the order in which zmq_recv returns them.  A number stands *)
(* for a payload; what the publisher or ZeroMQ drops before has none.      *)
(***************************************************************************)
EXTENDS Naturals

CONSTANT MaxMsg   \* bound of the model: how many messages arrive

ASSUME MessageAssumption == MaxMsg \in Nat

Msg == 1 .. MaxMsg
=============================================================================
