----------------------------- MODULE MCLevinNotify -----------------------------
(* Two outgoing connections, both of which may also be sources.              *)
EXTENDS LevinNotify

CONSTANTS o1, o2, t1
================================================================================
