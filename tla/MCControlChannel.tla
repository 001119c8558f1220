-------------------------- MODULE MCControlChannel --------------------------
(* A connection that connects twice, with channels of one or two places.    *)
EXTENDS ControlChannel
====
