------------------------------ MODULE MCSession -----------------------------
(* Session for TLC: the cfg gives the bounds.                               *)
EXTENDS Session
=============================================================================
