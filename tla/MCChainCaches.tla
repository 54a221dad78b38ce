----------------------------- MODULE MCChainCaches -----------------------------
(* Two chains that part after the second block, a block with a version that  *)
(* is not due yet (x3) and one with too little work (y4).                    *)
EXTENDS ChainCaches, TLC

CONSTANTS g, a1, a2, b2, b3, b4, x3, y4

MCBlock == {g, a1, a2, b2, b3, b4, x3, y4}

MCParent == g :> null_hash @@ a1 :> g @@ a2 :> a1 @@ b2 :> a1 @@ b3 :> b2 @@ b4 :> b3
              @@ x3 :> b2 @@ y4 :> b3

MCPath ==
  g :> <<g>> @@ a1 :> <<g, a1>> @@ a2 :> <<g, a1, a2>> @@ b2 :> <<g, a1, b2>>
    @@ b3 :> <<g, a1, b2, b3>> @@ b4 :> <<g, a1, b2, b3, b4>>
    @@ x3 :> <<g, a1, b2, x3>> @@ y4 :> <<g, a1, b2, b3, y4>>

MCWork == [b \in MCBlock |-> b # y4]

MCMajor ==
  g :> 1 @@ a1 :> 1 @@ a2 :> 2 @@ b2 :> 2 @@ b3 :> 2 @@ b4 :> 3 @@ x3 :> 3 @@ y4 :> 3

MCHeights == << [version |-> 1, height |-> 1, threshold |-> 0],
                [version |-> 2, height |-> 2, threshold |-> 0],
                [version |-> 3, height |-> 4, threshold |-> 0] >>

MCBase == <<g, a1>>
================================================================================
