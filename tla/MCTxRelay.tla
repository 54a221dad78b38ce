------------------------------ MODULE MCTxRelay ------------------------------
(* Two transactions; an embargo may end before or at the next scan.         *)
EXTENDS TxRelay

CONSTANTS t1, t2

MCMessages == {<<t1, t2>>}
==============================================================================
