------------------------------ MODULE MCMessages ----------------------------
(* Messages for TLC: recipients and messages as model values.              *)
EXTENDS Messages
=============================================================================
