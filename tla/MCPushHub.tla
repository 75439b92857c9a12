------------------------------ MODULE MCPushHub ------------------------------
(* Instances of PushHub for TLC. *)
EXTENDS PushHub

CONSTANTS w1, w2, s1, t1, t2, t3, b1, b2

=============================================================================
